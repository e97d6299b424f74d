----------------------------- MODULE AVLProofs -----------------------------
(***************************************************************************)
(* Theorems about AVLOmap's access pattern, for every object: what the     *)
(* server counts of a stepped access (ReadsAreHidden) or of a complete     *)
(* call (RoundsAreHidden) tells no operation from another.                 *)
(***************************************************************************)
EXTENDS AVLSteps, SequenceTheorems, WellFoundedInduction, TLAPS

-----------------------------------------------------------------------------
(* The object.                                                             *)

(* The constructor finds a height, of at least two. *)
LEMMA HeightFound ==
    ASSUME NEW c \in 1..29
    PROVE  HeightFor(c) \in 2..7
<1> DEFINE cap == <<1, 2, 4, 6, 11, 17, 29>>
           Fits(h) == /\ c <= cap[h] /\ 2 <= cap[h]
                      /\ \A g \in 1..(h - 1) : cap[g] < c \/ cap[g] < 2
<1>1. DOMAIN cap = 1..7
  OBVIOUS
<1>2. \E h \in 2..7 : Fits(h)
  <2>1. CASE c <= 2
    <3>1. Fits(2)
      BY <2>1
    <3> QED  BY <3>1
  <2>2. CASE c \in 3..4
    <3>1. Fits(3)
      BY <2>2
    <3> QED  BY <3>1
  <2>3. CASE c \in 5..6
    <3>1. Fits(4)
      BY <2>3
    <3> QED  BY <3>1
  <2>4. CASE c \in 7..11
    <3>1. Fits(5)
      BY <2>4
    <3> QED  BY <3>1
  <2>5. CASE c \in 12..17
    <3>1. Fits(6)
      BY <2>5
    <3> QED  BY <3>1
  <2>6. CASE c \in 18..29
    <3>1. Fits(7)
      BY <2>6
    <3> QED  BY <3>1
  <2> QED  BY <2>1, <2>2, <2>3, <2>4, <2>5, <2>6
<1>3. HeightFor(c) = CHOOSE h \in DOMAIN cap : Fits(h)
  BY DEF HeightFor
<1>4. HeightFor(c) \in DOMAIN cap /\ Fits(HeightFor(c))
  <2> HIDE DEF Fits
  <2> QED  BY <1>1, <1>2, <1>3
<1>5. HeightFor(c) # 1
  BY <1>4
<1> QED  BY <1>1, <1>4, <1>5

(* What the code computes from the constructor's arguments. *)
LEMMA ObjectBuilt ==
    ASSUME conf \in DOMAIN Configs
    PROVE  /\ MaxHeight \in Nat /\ MaxHeight >= 2
           /\ Split \in Nat /\ Split <= MaxHeight
           /\ Split <= Configs[conf].split
           /\ Budget \in Nat /\ Budget = 3 * MaxHeight
           /\ Object.use = Configs[conf].use
<1>1. HeightFor(Configs[conf].capacity) \in 2..7
  BY HeightFound, AVLAssumption
<1>2. Object = Constructed(Configs[conf])
  BY DEF Object, Objects
<1>3. Configs[conf].split \in Nat
  BY AVLAssumption
<1> QED  BY <1>1, <1>2, <1>3 DEF MaxHeight, Split, Budget, Constructed

-----------------------------------------------------------------------------
(* Stepped accesses.                                                       *)

(* A step that leaves conf alone leaves the object's parameters alone. *)
LEMMA SameObject ==
    ASSUME conf' = conf
    PROVE  /\ MaxHeight' = MaxHeight /\ Split' = Split /\ Budget' = Budget
           /\ PbOps' = PbOps /\ MainOps' = MainOps /\ Calls' = Calls
BY DEF MaxHeight, Split, Budget, PbOps, MainOps, Calls, Object, Objects

(* The objects and piggybacks for which the reads are hidden.  In split    *)
(* mode a piggyback that traverses pads with upper reads only, and the     *)
(* upper reads of a piggybacked dummy are counted as the main search's.    *)
PaddedAlike ==
    \A i \in DOMAIN Configs :
        \/ Configs[i].split = 0
        \/ Configs[i].use.pbs = {}
        \/ Configs[i].split <= 2 /\ Configs[i].use.pbs \subseteq {"dummy"}

(* Of the first n reads of an operation those of the upper ORAM. *)
UpTo(n) == IF n < Split THEN n ELSE Split

(* One operation: after as many reads as its depth, or with as many left   *)
(* as its budget calls for, the upper ones first.                          *)
Fields == DOMAIN Idle
Counted(s) ==
    /\ DOMAIN s = Fields
    /\ s.phase \in {"TRAVERSE", "PAD", "DONE"}
    /\ s.depth \in Nat /\ s.ops \in Nat /\ s.budget \in Nat /\ s.pad \in Nat
    /\ s.step \in Nat /\ s.boundary \in Nat
    /\ s.phase = "TRAVERSE" => s.ops = s.depth /\ s.depth < MaxHeight /\ s.budget = Budget
    /\ s.phase = "PAD" => s.pad > 0 /\ s.ops + s.pad = s.budget
    /\ s.phase = "DONE" => s.ops = s.budget
UpperFirst(s) ==
    Split > 0 /\ s.phase = "PAD" /\ s.budget = Budget =>
        IF s.ops < Split THEN s.boundary - s.step = Split - s.ops ELSE s.boundary <= s.step

Machines ==
    /\ Counted(ss) /\ UpperFirst(ss) /\ ss.budget <= Budget
    /\ Counted(pb) /\ UpperFirst(pb)
    /\ pb.active \in BOOLEAN
    /\ IF pb.active THEN pb.budget = Budget ELSE pb.phase = "DONE" /\ pb.ops = 0
    /\ Split > 0 => pb.phase # "TRAVERSE"
    /\ Split > 2 => ~pb.active
Counters ==
    /\ rounds \in Nat /\ reads \in [{"up", "lo"} -> Nat]
    /\ SsRead \/ ss.budget = Budget \/ ~pb.active => ss.ops = rounds
    /\ pb.active => pb.ops = rounds
    /\ reads.up + reads.lo = ss.ops + pb.ops
    /\ ss.budget = Budget => reads.up = UpTo(ss.ops) + UpTo(pb.ops)
ReadsInv == conf \in DOMAIN Configs /\ (~broken => Machines /\ Counters)

(* The machine of no operation. *)
LEMMA IdleCounted == Counted(Idle) /\ UpperFirst(Idle)
BY DEF Counted, UpperFirst, Idle, Fields

(* A padding read. *)
LEMMA PadCounted ==
    ASSUME conf \in DOMAIN Configs, NEW s, Counted(s), UpperFirst(s), s.phase = "PAD"
    PROVE  /\ Counted(PadStep(s)) /\ UpperFirst(PadStep(s))
           /\ PadStep(s).ops = s.ops + 1 /\ PadStep(s).budget = s.budget
           /\ PadStep(s).active = s.active
           /\ PadStep(s).phase # "TRAVERSE"
           /\ s.budget = Budget =>
                UpTo(s.ops + 1) = UpTo(s.ops) + IF RoundOram(s) = "up" THEN 1 ELSE 0
           /\ RoundOram(s) \in {"up", "lo"}
<1>1. Split \in Nat
  BY ObjectBuilt
<1>2. DOMAIN s = {"phase", "key", "arg", "cur", "depth", "ops", "budget", "pad", "step", "boundary",
                  "result", "active", "insert", "traversed"}
  BY DEF Counted, Fields, Idle
<1>3. /\ PadStep(s).ops = s.ops + 1 /\ PadStep(s).step = s.step + 1 /\ PadStep(s).pad = s.pad - 1
      /\ PadStep(s).phase = IF s.pad - 1 <= 0 THEN "DONE" ELSE s.phase
      /\ PadStep(s).budget = s.budget /\ PadStep(s).boundary = s.boundary
      /\ PadStep(s).depth = s.depth /\ PadStep(s).active = s.active
      /\ DOMAIN PadStep(s) = DOMAIN s
  BY <1>2 DEF PadStep
<1>4. Counted(PadStep(s))
  BY <1>3 DEF Counted
<1>5. UpperFirst(PadStep(s))
  BY <1>1, <1>3 DEF Counted, UpperFirst
<1>6. s.budget = Budget => UpTo(s.ops + 1) = UpTo(s.ops) + IF RoundOram(s) = "up" THEN 1 ELSE 0
  BY <1>1 DEF Counted, UpperFirst, RoundOram, UpTo
<1>7. RoundOram(s) \in {"up", "lo"}
  BY DEF RoundOram
<1> QED  BY <1>3, <1>4, <1>5, <1>6, <1>7

(* The ORAM of a node at some depth. *)
LEMMA TraverseCounted ==
    ASSUME conf \in DOMAIN Configs, NEW s, Counted(s), s.phase = "TRAVERSE"
    PROVE  /\ UpTo(s.ops + 1) = UpTo(s.ops) + IF RoundOram(s) = "up" THEN 1 ELSE 0
           /\ RoundOram(s) \in {"up", "lo"}
<1>1. Split \in Nat
  BY ObjectBuilt
<1> QED  BY <1>1 DEF Counted, RoundOram, UpTo, OramForDepth

(* The main operation's read of a node. *)
LEMMA MainTraverseCounted ==
    ASSUME ReadsInv, ~broken, ss.phase = "TRAVERSE", NEW m, NEW lf
    PROVE  LET s == MainTraverse(m, lf).ss
           IN  /\ Counted(s) /\ UpperFirst(s)
               /\ s.ops = ss.ops + 1 /\ s.budget = ss.budget
<1> DEFINE s == MainTraverse(m, lf).ss
           left == Bigger(0, ss.budget - (ss.ops + 1))
           upper == reads.up + IF ss.depth < Split THEN 1 ELSE 0
           bound == IF Split > 0 THEN Bigger(0, Boundary(ss.budget) - upper) ELSE left
<1>1. /\ MaxHeight \in Nat /\ MaxHeight >= 2 /\ Split \in Nat /\ Split <= MaxHeight
      /\ Budget = 3 * MaxHeight
  BY ObjectBuilt DEF ReadsInv, Machines
<1>2. DOMAIN ss = {"phase", "key", "arg", "cur", "depth", "ops", "budget", "pad", "step", "boundary",
                   "result", "active", "insert", "traversed"}
  BY DEF ReadsInv, Machines, Counted, Fields, Idle
<1>3. ss.ops \in Nat /\ ss.depth = ss.ops /\ ss.depth < MaxHeight /\ ss.budget = Budget
  BY DEF ReadsInv, Machines, Counted
<1>4. left \in Nat /\ left > 0 /\ ss.ops + 1 + left = Budget
  BY <1>1, <1>3 DEF Bigger
<1>5. CASE ~MainEnds(m)
  <2>1. ss.depth + 1 < MaxHeight
    BY <1>1, <1>3, <1>5 DEF MainEnds
  <2>2. /\ s.ops = ss.ops + 1 /\ s.depth = ss.depth + 1 /\ s.budget = ss.budget /\ s.phase = ss.phase
        /\ s.pad = ss.pad /\ s.step = ss.step /\ s.boundary = ss.boundary /\ DOMAIN s = DOMAIN ss
    BY <1>2, <1>5 DEF MainTraverse
  <2>3. Counted(s) /\ UpperFirst(s)
    BY <2>1, <2>2, <1>3 DEF ReadsInv, Machines, Counted, UpperFirst
  <2> QED  BY <2>2, <2>3
<1>6. CASE MainEnds(m)
  <2>1. /\ s.ops = ss.ops + 1 /\ s.depth = ss.depth + 1 /\ s.budget = ss.budget
        /\ s.phase = IF left = 0 THEN "DONE" ELSE "PAD"
        /\ s.pad = left /\ s.step = 0 /\ s.boundary = bound /\ DOMAIN s = DOMAIN ss
    BY <1>2, <1>6 DEF MainTraverse
  <2>2. reads.up \in Nat /\ reads.up = UpTo(ss.ops) + UpTo(pb.ops)
    BY <1>3 DEF ReadsInv, Counters
  <2>3. pb.ops = IF pb.active THEN ss.ops ELSE 0
    BY <1>3 DEF ReadsInv, Counters, Machines
  <2>4. Split > 0 => Boundary(ss.budget) = Split
    BY <1>1, <1>3 DEF Boundary
  <2>5. pb.active /\ Split > 0 => Split \in 1..2
    BY <1>1 DEF ReadsInv, Machines
  <2>6. Split > 0 => IF s.ops < Split THEN bound = Split - s.ops ELSE bound = 0
    BY <1>1, <1>3, <2>1, <2>2, <2>3, <2>4, <2>5 DEF UpTo, Bigger
  <2>7. bound \in Nat
    BY <1>1, <1>3, <1>4, <2>1, <2>6
  <2>8. Counted(s)
    BY <2>1, <2>7, <1>3, <1>4 DEF ReadsInv, Machines, Counted
  <2>9. UpperFirst(s)
    BY <2>1, <2>6, <2>7, <1>1, <1>3 DEF UpperFirst
  <2> QED  BY <2>1, <2>8, <2>9
<1> QED  BY <1>5, <1>6

(* The main operation's part of a round. *)
LEMMA MainCounted ==
    ASSUME ReadsInv, ~broken, NEW a \in AfterMain(MainTaken), ~a.m.bad
    PROVE  /\ Counted(a.ss) /\ UpperFirst(a.ss) /\ a.ss.budget = ss.budget
           /\ a.ss.ops = ss.ops + IF SsRead THEN 1 ELSE 0
           /\ ~SsRead => a.ss = ss
           /\ ss.budget = Budget =>
                UpTo(a.ss.ops) = UpTo(ss.ops) + IF SsRead /\ RoundOram(ss) = "up" THEN 1 ELSE 0
<1>0. /\ conf \in DOMAIN Configs /\ Counted(ss) /\ UpperFirst(ss)
      /\ ss.phase \in {"TRAVERSE", "PAD", "DONE"} /\ ss.ops \in Nat
  BY DEF ReadsInv, Machines, Counted
<1>1. CASE ss.phase = "TRAVERSE"
  <2>1. ~MainTaken.bad
    BY <1>1 DEF AfterMain
  <2>2. PICK lf : a = MainTraverse(MainTaken, lf)
    BY <1>1, <2>1 DEF AfterMain
  <2>3. /\ Counted(a.ss) /\ UpperFirst(a.ss) /\ a.ss.ops = ss.ops + 1 /\ a.ss.budget = ss.budget
    BY <1>1, <2>2, MainTraverseCounted
  <2>4. UpTo(ss.ops + 1) = UpTo(ss.ops) + IF RoundOram(ss) = "up" THEN 1 ELSE 0
    BY <1>0, <1>1, TraverseCounted
  <2> QED  BY <1>1, <2>3, <2>4 DEF SsRead
<1>2. CASE ss.phase = "PAD"
  <2>1. a.ss = PadStep(ss)
    BY <1>2 DEF AfterMain
  <2> QED  BY <1>0, <1>2, <2>1, PadCounted DEF SsRead
<1>3. CASE ss.phase = "DONE"
  <2>1. a.ss = ss
    BY <1>3 DEF AfterMain
  <2>2. UpTo(ss.ops) \in Int
    BY <1>0, ObjectBuilt DEF UpTo
  <2> QED  BY <1>0, <1>3, <2>1, <2>2 DEF SsRead
<1> QED  BY <1>0, <1>1, <1>2, <1>3

(* The piggyback's read of a node. *)
LEMMA PbTraverseCounted ==
    ASSUME ReadsInv, ~broken, pb.phase = "TRAVERSE", NEW m, NEW leaf
    PROVE  LET s == PbTraverse(m, leaf).pb
           IN  /\ Counted(s) /\ UpperFirst(s) /\ Split = 0
               /\ s.ops = pb.ops + 1 /\ s.budget = pb.budget /\ s.active = pb.active
<1> DEFINE s == PbTraverse(m, leaf).pb
           i == Index(m.local, pb.cur.key)
           child == m.local[i].avl[Side(pb.key, pb.cur.key)]
           ends == pb.key = pb.cur.key \/ child.key = NoKey \/ pb.depth >= MaxHeight - 1
           left == Bigger(0, pb.budget - (pb.ops + 1))
<1>1. /\ MaxHeight \in Nat /\ MaxHeight >= 2 /\ Split \in Nat /\ Budget = 3 * MaxHeight
  BY ObjectBuilt DEF ReadsInv, Machines
<1>2. DOMAIN pb = {"phase", "key", "arg", "cur", "depth", "ops", "budget", "pad", "step", "boundary",
                   "result", "active", "insert", "traversed"}
  BY DEF ReadsInv, Machines, Counted, Fields, Idle
<1>3. pb.ops \in Nat /\ pb.depth = pb.ops /\ pb.depth < MaxHeight /\ pb.budget = Budget
  BY DEF ReadsInv, Machines, Counted
<1>4. left \in Nat /\ left > 0 /\ pb.ops + 1 + left = Budget
  BY <1>1, <1>3 DEF Bigger
<1>5. Split = 0
  BY <1>1 DEF ReadsInv, Machines
<1>6. CASE ~ends
  <2>1. pb.depth + 1 < MaxHeight
    BY <1>1, <1>3, <1>6
  <2>2. /\ s.ops = pb.ops + 1 /\ s.depth = pb.depth + 1 /\ s.budget = pb.budget /\ s.phase = pb.phase
        /\ s.pad = pb.pad /\ s.step = pb.step /\ s.boundary = pb.boundary /\ DOMAIN s = DOMAIN pb
        /\ s.active = pb.active
    BY <1>2, <1>6 DEF PbTraverse
  <2>3. Counted(s) /\ UpperFirst(s)
    BY <2>1, <2>2, <1>3, <1>5 DEF ReadsInv, Machines, Counted, UpperFirst
  <2> QED  BY <2>2, <2>3, <1>5
<1>7. CASE ends
  <2>1. /\ s.ops = pb.ops + 1 /\ s.depth = pb.depth + 1 /\ s.budget = pb.budget
        /\ s.phase = IF left = 0 THEN "DONE" ELSE "PAD"
        /\ s.pad = left /\ s.step = 0 /\ s.boundary = left /\ DOMAIN s = DOMAIN pb
        /\ s.active = pb.active
    BY <1>2, <1>7 DEF PbTraverse
  <2>2. Counted(s) /\ UpperFirst(s)
    BY <2>1, <1>3, <1>4, <1>5 DEF ReadsInv, Machines, Counted, UpperFirst
  <2> QED  BY <2>1, <2>2, <1>5
<1> QED  BY <1>6, <1>7

(* The piggyback's part of a round. *)
LEMMA PiggybackCounted ==
    ASSUME ReadsInv, ~broken, NEW m, NEW leaf, NEW flushed, ~AfterPiggyback(m, leaf, flushed).m.bad
    PROVE  LET s == AfterPiggyback(m, leaf, flushed).pb
           IN  /\ ~m.bad
               /\ Counted(s) /\ UpperFirst(s) /\ s.budget = pb.budget /\ s.active = pb.active
               /\ s.ops = pb.ops + IF PbRead THEN 1 ELSE 0
               /\ UpTo(s.ops) = UpTo(pb.ops) + IF PbRead /\ RoundOram(pb) = "up" THEN 1 ELSE 0
               /\ s.phase = "TRAVERSE" => pb.phase = "TRAVERSE"
               /\ ~PbRead => s = pb
<1> DEFINE s == AfterPiggyback(m, leaf, flushed).pb
<1>0. /\ conf \in DOMAIN Configs /\ Counted(pb) /\ UpperFirst(pb)
      /\ pb.phase \in {"TRAVERSE", "PAD", "DONE"} /\ pb.ops \in Nat
      /\ pb.active \in BOOLEAN /\ pb.active => pb.budget = Budget
  BY DEF ReadsInv, Machines, Counted
<1>m. ~m.bad
  BY DEF AfterPiggyback
<1>1. CASE PbRead /\ pb.phase = "TRAVERSE"
  <2> DEFINE taken == PbTaken(m, flushed)
  <2>1. AfterPiggyback(m, leaf, flushed) = PbTraverseIfRead(taken, leaf)
    BY <1>1, <1>m DEF AfterPiggyback
  <2>2. ~taken.bad
    BY <2>1 DEF PbTraverseIfRead
  <2>3. s = PbTraverse(taken, leaf).pb
    BY <2>1, <2>2 DEF PbTraverseIfRead
  <2>4. /\ Counted(s) /\ UpperFirst(s) /\ s.ops = pb.ops + 1 /\ s.budget = pb.budget
        /\ s.active = pb.active
    BY <1>1, <2>3, PbTraverseCounted
  <2>5. UpTo(pb.ops + 1) = UpTo(pb.ops) + IF RoundOram(pb) = "up" THEN 1 ELSE 0
    BY <1>0, <1>1, TraverseCounted
  <2> QED  BY <1>1, <1>m, <2>4, <2>5
<1>2. CASE PbRead /\ pb.phase = "PAD"
  <2>1. s = PadStep(pb)
    BY <1>2, <1>m DEF AfterPiggyback
  <2>2. pb.budget = Budget
    BY <1>0, <1>2 DEF PbRead
  <2> QED  BY <1>0, <1>2, <1>m, <2>1, <2>2, PadCounted
<1>3. CASE ~PbRead
  <2>1. s = pb
    BY <1>3 DEF AfterPiggyback
  <2>2. UpTo(pb.ops) \in Int
    BY <1>0, ObjectBuilt DEF UpTo
  <2> QED  BY <1>0, <1>m, <1>3, <2>1, <2>2
<1> QED  BY <1>0, <1>1, <1>2, <1>3 DEF PbRead

(* What each step does to the counts. *)
LEMMA BeginCounted ==
    ASSUME ReadsInv, NEW s, BeginStep(s), conf' = conf,
           Counted(s), UpperFirst(s), s.ops = 0, s.budget <= Budget
    PROVE  ReadsInv'
<1>1. /\ ~broken' /\ rounds' = 0 /\ pb' = Idle /\ ss' = s
      /\ reads' = NoOps
  BY DEF BeginStep
<1>2. conf \in DOMAIN Configs
  BY DEF ReadsInv
<1>3. /\ Idle.ops = 0 /\ Idle.phase = "DONE" /\ Idle.active = FALSE
      /\ Counted(Idle) /\ UpperFirst(Idle)
  BY IdleCounted DEF Idle
<1>4. Machines'
  BY <1>1, <1>2, <1>3, SameObject DEF Machines, Counted, UpperFirst
<1>5. Split \in Nat
  BY <1>2, ObjectBuilt
<1>6. UpTo(0) = 0
  BY <1>5 DEF UpTo
<1>7. Counters'
  BY <1>1, <1>3, <1>5, <1>6, SameObject DEF Counters, NoOps, UpTo
<1> QED  BY <1>2, <1>4, <1>7 DEF ReadsInv

(* An operation that begins with padding (dummy, or a search of an empty   *)
(* tree).                                                                  *)
LEMMA PaddingCounted ==
    ASSUME conf \in DOMAIN Configs, NEW s, DOMAIN s = Fields,
           s.depth = 0, s.ops = 0, s.step = 0, s.budget \in Nat, s.budget > 0
    PROVE  /\ Counted(Padding(s)) /\ UpperFirst(Padding(s))
           /\ Padding(s).ops = 0 /\ Padding(s).budget = s.budget /\ Padding(s).active = s.active
           /\ Padding(s).phase = "PAD"
<1>1. /\ MaxHeight \in Nat /\ MaxHeight >= 2 /\ Split \in Nat /\ Split <= MaxHeight
      /\ Budget = 3 * MaxHeight
  BY ObjectBuilt
<1>2. DOMAIN s = {"phase", "key", "arg", "cur", "depth", "ops", "budget", "pad", "step", "boundary",
                  "result", "active", "insert", "traversed"}
  BY DEF Fields, Idle
<1>3. /\ Padding(s).phase = "PAD" /\ Padding(s).pad = s.budget /\ Padding(s).budget = s.budget
      /\ Padding(s).boundary = Boundary(s.budget) /\ Padding(s).step = s.step
      /\ Padding(s).ops = s.ops /\ Padding(s).depth = s.depth /\ Padding(s).active = s.active
      /\ DOMAIN Padding(s) = DOMAIN s
  BY <1>2 DEF Padding
<1>4. Boundary(s.budget) \in Nat /\ (s.budget = Budget /\ Split > 0 => Boundary(s.budget) = Split)
  BY <1>1 DEF Boundary
<1> QED  BY <1>1, <1>3, <1>4 DEF Counted, UpperFirst

(* An operation that begins at the root. *)
LEMMA TraversingCounted ==
    ASSUME conf \in DOMAIN Configs, NEW s, DOMAIN s = Fields,
           s.depth = 0, s.ops = 0, s.pad = 0, s.step = 0, s.boundary = 0, s.budget = Budget
    PROVE  /\ Counted(Traversing(s)) /\ UpperFirst(Traversing(s))
           /\ Traversing(s).ops = 0 /\ Traversing(s).budget = Budget
           /\ Traversing(s).active = s.active
<1>1. MaxHeight \in Nat /\ MaxHeight >= 2 /\ Split \in Nat /\ Budget = 3 * MaxHeight
  BY ObjectBuilt
<1>2. DOMAIN s = {"phase", "key", "arg", "cur", "depth", "ops", "budget", "pad", "step", "boundary",
                  "result", "active", "insert", "traversed"}
  BY DEF Fields, Idle
<1>3. /\ Traversing(s).phase = "TRAVERSE" /\ Traversing(s).pad = 0 /\ Traversing(s).budget = s.budget
      /\ Traversing(s).boundary = 0 /\ Traversing(s).step = 0 /\ Traversing(s).active = s.active
      /\ Traversing(s).ops = 0 /\ Traversing(s).depth = 0 /\ DOMAIN Traversing(s) = DOMAIN s
  BY <1>2 DEF Traversing
<1> QED  BY <1>1, <1>3 DEF Counted, UpperFirst

(* The begin of a piggyback adds no read. *)
LEMMA PiggybackBegun ==
    ASSUME ReadsInv, NEW s, BeginPiggyback(s), conf' = conf,
           Counted(s), UpperFirst(s), s.ops = 0, s.active = TRUE, s.budget = Budget,
           Split <= 2, Split > 0 => s.phase # "TRAVERSE"
    PROVE  ReadsInv'
<1>1. /\ ~broken /\ ~broken' /\ pb' = s /\ ss' = ss /\ reads' = reads /\ rounds' = rounds
      /\ rounds = 0 /\ ~pb.active
  BY DEF BeginPiggyback
<1>2. conf \in DOMAIN Configs /\ Machines /\ Counters
  BY <1>1 DEF ReadsInv
<1>3. Split \in Nat /\ UpTo(0) \in Int
  BY <1>2, ObjectBuilt DEF UpTo
<1>4. Machines'
  <2>1. /\ Counted(ss)' /\ UpperFirst(ss)' /\ Counted(pb)' /\ UpperFirst(pb)'
        /\ (ss.budget <= Budget)'
    BY <1>1, <1>2, SameObject DEF Machines, Counted, UpperFirst
  <2>2. /\ (pb.active \in BOOLEAN)'
        /\ (IF pb.active THEN pb.budget = Budget ELSE pb.phase = "DONE" /\ pb.ops = 0)'
    BY <1>1, SameObject
  <2>3. (Split > 0 => pb.phase # "TRAVERSE")' /\ (Split > 2 => ~pb.active)'
    BY <1>1, <1>3, SameObject
  <2> QED  BY <2>1, <2>2, <2>3 DEF Machines
<1>5. ss.ops = 0 /\ pb.ops = 0
  BY <1>1, <1>2 DEF Machines, Counters
<1>6. Counters'
  BY <1>1, <1>2, <1>3, <1>5, SameObject DEF Counters, UpTo, SsRead
<1> QED  BY <1>2, <1>4, <1>6 DEF ReadsInv

(* Which piggybacks the caller may begin in split mode. *)
LEMMA PiggybacksAllowed ==
    ASSUME PaddedAlike, conf \in DOMAIN Configs
    PROVE  /\ "search" \in PbOps \/ "insert" \in PbOps => Split = 0
           /\ "dummy" \in PbOps => Split <= 2
<1>1. /\ Split \in Nat /\ Split <= Configs[conf].split /\ PbOps = Configs[conf].use.pbs
      /\ Configs[conf].split \in Nat
  BY ObjectBuilt, AVLAssumption DEF PbOps
<1> QED  BY <1>1 DEF PaddedAlike

(* A round: the reads that step_next_round asks for are those counted. *)
LEMMA RoundCounted ==
    ASSUME ReadsInv, Round, conf' = conf
    PROVE  ReadsInv'
<1>1. conf \in DOMAIN Configs /\ ~broken /\ Machines /\ Counters
  BY DEF ReadsInv, Round
<1> SUFFICES ASSUME ~broken' PROVE Machines' /\ Counters'
  BY <1>1 DEF ReadsInv
<1>2. PICK a \in AfterMain(MainTaken),
           leaf \in IF PbRead /\ pb.insert THEN Leaves ELSE {NoLeaf} :
              EndRound(a.ss, AfterPiggyback(a.m, leaf, FlushedBy(a.m)))
  BY DEF Round
<1> DEFINE p == AfterPiggyback(a.m, leaf, FlushedBy(a.m)).pb
<1>3. /\ ~AfterPiggyback(a.m, leaf, FlushedBy(a.m)).m.bad
      /\ ss' = a.ss /\ pb' = p
  BY <1>2 DEF EndRound
<1>4. /\ Counted(p) /\ UpperFirst(p) /\ p.budget = pb.budget /\ p.active = pb.active
      /\ p.ops = pb.ops + IF PbRead THEN 1 ELSE 0
      /\ UpTo(p.ops) = UpTo(pb.ops) + IF PbRead /\ RoundOram(pb) = "up" THEN 1 ELSE 0
      /\ p.phase = "TRAVERSE" => pb.phase = "TRAVERSE"
      /\ ~PbRead => p = pb
      /\ ~a.m.bad
  BY <1>1, <1>3, PiggybackCounted
<1>5. /\ Counted(a.ss) /\ UpperFirst(a.ss) /\ a.ss.budget = ss.budget
      /\ a.ss.ops = ss.ops + IF SsRead THEN 1 ELSE 0
      /\ (~SsRead => a.ss = ss)
      /\ ss.budget = Budget =>
           UpTo(a.ss.ops) = UpTo(ss.ops) + IF SsRead /\ RoundOram(ss) = "up" THEN 1 ELSE 0
  BY <1>1, <1>4, MainCounted
<1> HIDE DEF p
<1>6. Machines'
  BY <1>1, <1>3, <1>4, <1>5, SameObject DEF Machines, Counted, UpperFirst, PbRead
<1>7. RoundOram(ss) \in {"up", "lo"} /\ RoundOram(pb) \in {"up", "lo"}
  BY DEF RoundOram, OramForDepth
<1>8. rounds' = rounds + 1
      /\ reads' = [o \in {"up", "lo"} |-> reads[o]
                      + (IF SsRead /\ RoundOram(ss) = o THEN 1 ELSE 0)
                      + (IF PbRead /\ RoundOram(pb) = o THEN 1 ELSE 0)]
  BY DEF Round
<1>9. /\ rounds \in Nat /\ reads \in [{"up", "lo"} -> Nat]
      /\ SsRead \/ ss.budget = Budget \/ ~pb.active => ss.ops = rounds
      /\ pb.active => pb.ops = rounds
      /\ reads.up + reads.lo = ss.ops + pb.ops
      /\ ss.budget = Budget => reads.up = UpTo(ss.ops) + UpTo(pb.ops)
  BY <1>1 DEF Counters
<1>10. /\ reads'.up = reads.up + (IF SsRead /\ RoundOram(ss) = "up" THEN 1 ELSE 0)
                               + (IF PbRead /\ RoundOram(pb) = "up" THEN 1 ELSE 0)
       /\ reads'.lo = reads.lo + (IF SsRead /\ RoundOram(ss) = "lo" THEN 1 ELSE 0)
                               + (IF PbRead /\ RoundOram(pb) = "lo" THEN 1 ELSE 0)
       /\ reads' \in [{"up", "lo"} -> Nat]
  BY <1>8, <1>9
<1>11. ss.ops \in Nat /\ pb.ops \in Nat /\ pb.active \in BOOLEAN /\ ss.budget \in Nat
       /\ ss.phase \in {"TRAVERSE", "PAD", "DONE"} /\ pb.phase \in {"TRAVERSE", "PAD", "DONE"}
       /\ (~SsRead => ss.ops = ss.budget) /\ (pb.phase = "DONE" => pb.ops = pb.budget \/ ~pb.active)
       /\ (pb.active => pb.budget = Budget) /\ ss.budget <= Budget
       /\ (ss.phase = "PAD" => ss.ops < ss.budget)
       /\ (pb.phase = "PAD" => pb.ops < pb.budget)
  BY <1>1 DEF Machines, Counted, SsRead
<1>12. /\ MaxHeight \in Nat /\ MaxHeight >= 2 /\ Budget = 3 * MaxHeight
       /\ (ss.phase = "TRAVERSE" => ss.ops < MaxHeight /\ ss.budget = Budget)
       /\ (pb.phase = "TRAVERSE" => pb.ops < MaxHeight /\ pb.budget = Budget)
  BY <1>1, ObjectBuilt DEF Machines, Counted
<1>13. SsRead \/ PbRead
  BY <1>11 DEF Round, StepDone, SsRead, PbRead
<1>14. pb.active => PbRead
  BY <1>9, <1>11, <1>12, <1>13 DEF SsRead, PbRead
<1>15. ss.budget = Budget \/ ~pb.active => SsRead
  BY <1>9, <1>11, <1>12, <1>13 DEF SsRead, PbRead
<1>16. reads'.up + reads'.lo = ss'.ops + pb'.ops
  BY <1>3, <1>4, <1>5, <1>7, <1>9, <1>10, <1>11
<1>17. ss'.budget = Budget => reads'.up = UpTo(ss'.ops) + UpTo(pb'.ops)
  <2>1. UpTo(ss.ops) \in Int /\ UpTo(pb.ops) \in Int
    BY <1>1, <1>11, ObjectBuilt DEF UpTo
  <2> QED  BY <1>3, <1>4, <1>5, <1>9, <1>10, <2>1
<1>18. /\ SsRead' \/ ss'.budget = Budget \/ ~pb'.active => ss'.ops = rounds'
       /\ pb'.active => pb'.ops = rounds'
  BY <1>3, <1>4, <1>5, <1>8, <1>9, <1>11, <1>14, <1>15 DEF SsRead
<1>19. Counters'
  BY <1>8, <1>9, <1>10, <1>16, <1>17, <1>18, SameObject DEF Counters, UpTo
<1> QED  BY <1>6, <1>19

(* Every step of a stepped access. *)
LEMMA StepCounted ==
    ASSUME PaddedAlike, ReadsInv, Step, conf' = conf
    PROVE  ReadsInv'
<1>1. /\ conf \in DOMAIN Configs /\ MaxHeight \in Nat /\ MaxHeight >= 2 /\ Budget = 3 * MaxHeight
      /\ Split \in Nat /\ Split <= MaxHeight
  BY ObjectBuilt DEF ReadsInv
<1>2. ASSUME NEW k \in UsedKeys, NEW u \in UsedValues \cup {NoUpdate}, BeginStepSearch(k, u)
      PROVE  ReadsInv'
  <2> DEFINE s == [Idle EXCEPT !.key = k, !.arg = u, !.budget = Budget, !.active = TRUE]
             t == IF root.key = NoKey THEN Padding(s) ELSE Traversing(s)
  <2>1. /\ DOMAIN s = Fields /\ s.depth = 0 /\ s.ops = 0 /\ s.step = 0 /\ s.budget = Budget
        /\ s.pad = 0 /\ s.boundary = 0
    BY DEF Idle, Fields
  <2>2. BeginStep(t)
    BY <1>2 DEF BeginStepSearch
  <2> HIDE DEF s
  <2>3. Counted(t) /\ UpperFirst(t) /\ t.ops = 0 /\ t.budget <= Budget
    BY <1>1, <2>1, PaddingCounted, TraversingCounted
  <2> HIDE DEF t
  <2> QED  BY <2>2, <2>3, BeginCounted
<1>3. ASSUME BeginStepDummy PROVE ReadsInv'
  <2> DEFINE s == [Idle EXCEPT !.budget = Budget]
  <2>1. DOMAIN s = Fields /\ s.depth = 0 /\ s.ops = 0 /\ s.step = 0 /\ s.budget = Budget
    BY DEF Idle, Fields
  <2>2. BeginStep(Padding(s))
    BY <1>3 DEF BeginStepDummy
  <2> HIDE DEF s
  <2>3. /\ Counted(Padding(s)) /\ UpperFirst(Padding(s)) /\ Padding(s).ops = 0
        /\ Padding(s).budget <= Budget
    BY <1>1, <2>1, PaddingCounted
  <2> QED  BY <2>2, <2>3, BeginCounted
<1>4. ASSUME BeginStepPartialDummy PROVE ReadsInv'
  <2>1. CASE Split = 0
    <3> DEFINE s == [Idle EXCEPT !.budget = Budget]
    <3>1. DOMAIN s = Fields /\ s.depth = 0 /\ s.ops = 0 /\ s.step = 0 /\ s.budget = Budget
      BY DEF Idle, Fields
    <3>2. BeginStep(Padding(s))
      BY <1>4, <2>1 DEF BeginStepPartialDummy
    <3> HIDE DEF s
    <3>3. /\ Counted(Padding(s)) /\ UpperFirst(Padding(s)) /\ Padding(s).ops = 0
          /\ Padding(s).budget <= Budget
      BY <1>1, <3>1, PaddingCounted
    <3> QED  BY <3>2, <3>3, BeginCounted
  <2>2. CASE Split # 0
    <3> DEFINE s == [Idle EXCEPT !.budget = Split + 1]
               t == [Padding(s) EXCEPT !.boundary = Split]
    <3>1. DOMAIN s = Fields /\ s.depth = 0 /\ s.ops = 0 /\ s.step = 0 /\ s.budget = Split + 1
      BY DEF Idle, Fields
    <3>2. BeginStep(t)
      BY <1>4, <2>2 DEF BeginStepPartialDummy
    <3> HIDE DEF s
    <3>3. /\ Counted(Padding(s)) /\ UpperFirst(Padding(s)) /\ Padding(s).ops = 0
          /\ Padding(s).budget = Split + 1
      BY <1>1, <3>1, PaddingCounted
    <3>4. DOMAIN Padding(s) = {"phase", "key", "arg", "cur", "depth", "ops", "budget", "pad", "step",
                               "boundary", "result", "active", "insert", "traversed"}
      BY <3>3 DEF Counted, Fields, Idle
    <3>5. /\ DOMAIN t = DOMAIN Padding(s) /\ t.phase = Padding(s).phase /\ t.depth = Padding(s).depth
          /\ t.ops = 0 /\ t.budget = Split + 1 /\ t.pad = Padding(s).pad /\ t.step = Padding(s).step
          /\ t.boundary = Split
      BY <3>3, <3>4
    <3> HIDE DEF t
    <3>6. Counted(t) /\ UpperFirst(t) /\ t.budget <= Budget
      BY <1>1, <3>3, <3>5 DEF Counted, UpperFirst
    <3> QED  BY <3>2, <3>5, <3>6, BeginCounted
  <2> QED  BY <2>1, <2>2
<1>5. /\ DOMAIN Piggy = Fields /\ Piggy.depth = 0 /\ Piggy.ops = 0 /\ Piggy.step = 0 /\ Piggy.pad = 0
      /\ Piggy.boundary = 0 /\ Piggy.budget = Budget /\ Piggy.active = TRUE
  BY DEF Piggy, Idle, Fields
<1>6. ASSUME NEW s, DOMAIN s = Fields, s.depth = 0, s.ops = 0, s.step = 0, s.pad = 0,
             s.boundary = 0, s.budget = Budget, s.active = TRUE,
             NEW t, \/ t = [Padding(s) EXCEPT !.traversed = TRUE] /\ Split <= 2
                    \/ t = Traversing(s) /\ Split = 0,
             BeginPiggyback(t)
      PROVE  ReadsInv'
  <2>1. CASE t = [Padding(s) EXCEPT !.traversed = TRUE] /\ Split <= 2
    <3>1. /\ Counted(Padding(s)) /\ UpperFirst(Padding(s)) /\ Padding(s).ops = 0
          /\ Padding(s).budget = Budget /\ Padding(s).active = TRUE /\ Padding(s).phase = "PAD"
      BY <1>1, <1>6, PaddingCounted
    <3>2. DOMAIN Padding(s) = {"phase", "key", "arg", "cur", "depth", "ops", "budget", "pad", "step",
                               "boundary", "result", "active", "insert", "traversed"}
      BY <3>1 DEF Counted, Fields, Idle
    <3>3. /\ DOMAIN t = DOMAIN Padding(s) /\ t.phase = "PAD" /\ t.depth = Padding(s).depth
          /\ t.ops = 0 /\ t.budget = Budget /\ t.pad = Padding(s).pad /\ t.step = Padding(s).step
          /\ t.boundary = Padding(s).boundary /\ t.active = TRUE
      BY <2>1, <3>1, <3>2
    <3>4. Counted(t) /\ UpperFirst(t)
      BY <3>1, <3>3 DEF Counted, UpperFirst
    <3> QED  BY <1>6, <2>1, <3>3, <3>4, PiggybackBegun
  <2>2. CASE t = Traversing(s) /\ Split = 0
    <3>1. /\ Counted(t) /\ UpperFirst(t) /\ t.ops = 0 /\ t.budget = Budget /\ t.active = TRUE
      BY <1>1, <1>6, <2>2, TraversingCounted
    <3>2. BeginPiggyback(t)
      BY <1>6
    <3>3. Split <= 2 /\ ~(Split > 0)
      BY <2>2
    <3> QED  BY <3>1, <3>2, <3>3, PiggybackBegun
  <2> QED  BY <1>6, <2>1, <2>2
<1>7. ASSUME NEW k \in UsedKeys, BeginPiggybackSearch(k) PROVE ReadsInv'
  <2> DEFINE s == [Piggy EXCEPT !.key = k]
             t == IF root.key = NoKey THEN [Padding(s) EXCEPT !.traversed = TRUE] ELSE Traversing(s)
  <2>1. /\ DOMAIN s = Fields /\ s.depth = 0 /\ s.ops = 0 /\ s.step = 0 /\ s.pad = 0
        /\ s.boundary = 0 /\ s.budget = Budget /\ s.active = TRUE
    BY <1>5 DEF Fields, Idle
  <2>2. BeginPiggyback(t) /\ Split = 0
    BY <1>1, <1>7, PiggybacksAllowed DEF BeginPiggybackSearch
  <2>3. \/ t = [Padding(s) EXCEPT !.traversed = TRUE] /\ Split <= 2
        \/ t = Traversing(s) /\ Split = 0
    BY <2>2
  <2> HIDE DEF s, t
  <2> QED  BY <1>6, <2>1, <2>2, <2>3
<1>8. ASSUME NEW k \in UsedKeys, NEW v \in UsedValues, NEW leaf \in Leaves,
             BeginPiggybackInsert(k, v, leaf)
      PROVE  ReadsInv'
  <2> DEFINE s == [Piggy EXCEPT !.key = k, !.arg = v, !.insert = TRUE]
             t == IF root.key = NoKey THEN [Padding(s) EXCEPT !.traversed = TRUE] ELSE Traversing(s)
  <2>1. /\ DOMAIN s = Fields /\ s.depth = 0 /\ s.ops = 0 /\ s.step = 0 /\ s.pad = 0
        /\ s.boundary = 0 /\ s.budget = Budget /\ s.active = TRUE
    BY <1>5 DEF Fields, Idle
  <2>2. BeginPiggyback(t) /\ Split = 0
    BY <1>1, <1>8, PiggybacksAllowed DEF BeginPiggybackInsert
  <2>3. \/ t = [Padding(s) EXCEPT !.traversed = TRUE] /\ Split <= 2
        \/ t = Traversing(s) /\ Split = 0
    BY <2>2
  <2> HIDE DEF s, t
  <2> QED  BY <1>6, <2>1, <2>2, <2>3
<1>9. ASSUME BeginPiggybackDummy PROVE ReadsInv'
  <2> DEFINE t == [Padding(Piggy) EXCEPT !.traversed = TRUE]
  <2>1. BeginPiggyback(t) /\ Split <= 2
    BY <1>1, <1>9, PiggybacksAllowed DEF BeginPiggybackDummy
  <2>2. t = [Padding(Piggy) EXCEPT !.traversed = TRUE]
    OBVIOUS
  <2> HIDE DEF t
  <2> QED  BY <1>5, <1>6, <2>1, <2>2
<1>10. ASSUME Round PROVE ReadsInv'
  BY <1>10, RoundCounted
<1> QED  BY <1>2, <1>3, <1>4, <1>7, <1>8, <1>9, <1>10 DEF Step

(* No complete call is made by an object that has thrown. *)
LEMMA CallsUnbroken == Call => ~broken
BY DEF Call, Search, Insert, Remove, DummyAccess, PartialDummyAccess, SearchPiggyback

(* A complete call stays with its object. *)
LEMMA CallKeepsObject == Call => conf' = conf
<1>1. ASSUME NEW k, NEW u, Search(k, u) PROVE conf' = conf
  BY <1>1 DEF Search, FinishSearch, Finish, Commit
<1>2. ASSUME NEW k, NEW v, Insert(k, v) PROVE conf' = conf
  BY <1>2 DEF Insert, Finish, Commit
<1>3. ASSUME NEW k, Remove(k) PROVE conf' = conf
  BY <1>3 DEF Remove, Finish, Commit
<1>4. DummyAccess => conf' = conf
  BY DEF DummyAccess, Commit
<1>5. PartialDummyAccess => conf' = conf
  BY DEF PartialDummyAccess, Commit
<1>6. ASSUME NEW k, NEW u, NEW x, NEW op, NEW v, SearchPiggyback(k, u, x, op, v)
      PROVE  conf' = conf
  BY <1>6 DEF SearchPiggyback, FirstHalf, SecondHalf, FinishExtra, CommitBoth, Commit
<1> QED  BY <1>1, <1>2, <1>3, <1>4, <1>5, <1>6 DEF Call

(* The reads of every stepped access are those its state machines account  *)
(* for: step_next_round's choice of the ORAM follows upper_op_count_ and   *)
(* the padding's boundary.                                                 *)
THEOREM ReadsCounted == PaddedAlike => (Spec => []ReadsInv)
<1> SUFFICES ASSUME PaddedAlike PROVE Spec => []ReadsInv
  OBVIOUS
<1>1. StepInit => ReadsInv
  <2> SUFFICES ASSUME StepInit PROVE ReadsInv
    OBVIOUS
  <2>1. /\ conf \in DOMAIN Configs /\ ss = Idle /\ pb = Idle /\ reads = NoOps /\ rounds = 0
    BY DEF StepInit, Init
  <2>2. /\ Idle.ops = 0 /\ Idle.budget = 0 /\ Idle.phase = "DONE" /\ Idle.active = FALSE
    BY DEF Idle
  <2>3. Split \in Nat /\ Budget \in Nat
    BY <2>1, ObjectBuilt
  <2>4. Machines
    <3>1. Counted(ss) /\ UpperFirst(ss) /\ Counted(pb) /\ UpperFirst(pb)
      BY <2>1, IdleCounted
    <3>2. /\ ss.budget = 0 /\ pb.phase = "DONE" /\ pb.ops = 0 /\ ~pb.active /\ pb.active \in BOOLEAN
      BY <2>1, <2>2
    <3> QED  BY <2>3, <3>1, <3>2 DEF Machines
  <2>5. reads \in [{"up", "lo"} -> Nat] /\ reads.up = 0 /\ reads.lo = 0 /\ UpTo(0) = 0
    BY <2>1, <2>3 DEF NoOps, UpTo
  <2>6. Counters
    BY <2>1, <2>2, <2>5 DEF Counters
  <2> QED  BY <2>1, <2>4, <2>6 DEF ReadsInv
<1>2. ReadsInv /\ [Next]_vars => ReadsInv'
  <2> SUFFICES ASSUME ReadsInv, [Next]_vars PROVE ReadsInv'
    OBVIOUS
  <2>1. CASE Call /\ UNCHANGED stepVars
    <3>1. conf' = conf /\ ~broken
      BY <2>1, CallKeepsObject, CallsUnbroken
    <3>2. Machines /\ Counters /\ conf \in DOMAIN Configs
      BY <3>1 DEF ReadsInv
    <3>3. Machines' /\ Counters'
      BY <2>1, <3>1, <3>2, SameObject
         DEF stepVars, Machines, Counters, Counted, UpperFirst, SsRead, UpTo
    <3> QED  BY <3>1, <3>2, <3>3 DEF ReadsInv
  <2>2. CASE Step /\ UNCHANGED <<conf, ret, last>>
    BY <2>2, StepCounted
  <2>3. CASE UNCHANGED vars
    <3>1. /\ conf' = conf /\ broken' = broken /\ ss' = ss /\ pb' = pb /\ reads' = reads
          /\ rounds' = rounds
      BY <2>3 DEF vars, callVars, stepVars
    <3> QED  BY <3>1, SameObject
             DEF ReadsInv, Machines, Counters, Counted, UpperFirst, SsRead, UpTo
  <2> QED  BY <2>1, <2>2, <2>3 DEF Next
<1> QED  BY <1>1, <1>2, PTL DEF Spec

(* What the server counts of a finished access is the same for every       *)
(* operation, with and without a piggyback: step_next_round reads one path *)
(* per round and operation, the upper ones first, and the state machine    *)
(* of the piggyback pads to the same budget as the main one.               *)
THEOREM ReadsAreHidden == PaddedAlike => (Spec => []ReadsHidden)
<1> SUFFICES ASSUME PaddedAlike PROVE Spec => []ReadsHidden
  OBVIOUS
<1>1. ReadsInv => ReadsHidden
  <2> SUFFICES ASSUME ReadsInv, StepDone, accesses > 0, ~broken, ss.budget = Budget
               PROVE  LET copies == IF pb.active THEN 2 ELSE 1
                      IN  /\ rounds = Budget
                          /\ reads.up = IF Split = 0 THEN 0 ELSE copies * Boundary(Budget)
                          /\ reads.up + reads.lo = copies * Budget
    BY DEF ReadsHidden
  <2>1. conf \in DOMAIN Configs /\ Machines /\ Counters
    BY DEF ReadsInv
  <2>2. /\ MaxHeight \in Nat /\ MaxHeight >= 2 /\ Budget = 3 * MaxHeight
        /\ Split \in Nat /\ Split <= MaxHeight
    BY <2>1, ObjectBuilt
  <2>3. ss.ops = Budget /\ (IF pb.active THEN pb.ops = Budget ELSE pb.ops = 0)
    BY <2>1 DEF Machines, Counted, StepDone
  <2>4. UpTo(Budget) = Split /\ UpTo(0) = 0 /\ (Split > 0 => Boundary(Budget) = Split)
    BY <2>2 DEF UpTo, Boundary
  <2>5. /\ rounds = ss.ops /\ reads.up = UpTo(ss.ops) + UpTo(pb.ops)
        /\ reads.up + reads.lo = ss.ops + pb.ops
    BY <2>1 DEF Counters
  <2> QED  BY <2>2, <2>3, <2>4, <2>5
<1> QED  BY <1>1, ReadsCounted, PTL

-----------------------------------------------------------------------------
(* The recursive functions of the model.  Each takes a value n times one   *)
(* step on; which step is kept in x, so that one argument serves them all. *)
Onward(x, v, n) ==
    CASE x[1] = "walk"    -> StepDown(v, x[2], x[3] + n - 1, x[4])
      [] x[1] = "balance" -> BalanceNode(UpdateHeights(v), x[2] + 1 - n)
      [] x[1] = "back up" -> BackUp(v, x[2][Len(x[2]) + 1 - n].key)
      [] x[1] = "heights" -> RefreshHeights(v, x[2] + 1 - n)
At(g, x, c, n) == IF n = 0 THEN c ELSE Onward(x, g[n - 1], n)
Upto(g, x, c, n) == g = [i \in 0..n |-> At(g, x, c, i)]
Runs(g, x, c) == g = [n \in Nat |-> At(g, x, c, n)]

(* Every non-empty set of numbers has a least one. *)
LEMMA LeastNumber ==
    ASSUME NEW T \in SUBSET Nat, T # {}
    PROVE  \E x \in T : \A y \in T : x <= y
<1> DEFINE R == OpToRel(<, Nat)
<1>1. IsWellFoundedOn(R, Nat)
  BY NatLessThanWellFounded
<1> HIDE DEF R
<1>2. PICK x \in T : \A y \in T : ~(<<y, x>> \in R)
  BY <1>1, WFMin
<1>3. ASSUME NEW y \in T PROVE x <= y
  <2>1. <<y, x>> \notin R
    BY <1>2
  <2>2. y < x => <<y, x>> \in R
    BY DEF R, OpToRel
  <2> QED BY <2>1, <2>2
<1> QED BY <1>2, <1>3

(* An element of a prefix. *)
LEMMA UptoAt ==
    ASSUME NEW g, NEW x, NEW c, NEW n \in Nat, Upto(g, x, c, n), NEW i \in 0..n
    PROVE  g[i] = At(g, x, c, i)
<1> DEFINE F == [j \in 0..n |-> At(g, x, c, j)]
<1>1. F[i] = At(g, x, c, i) /\ g = F
  BY DEF Upto
<1> HIDE DEF F
<1> QED  BY <1>1

(* Two prefixes agree where both are defined. *)
LEMMA UptoAgree ==
    ASSUME NEW g, NEW h, NEW x, NEW c, NEW m \in Nat, NEW n \in Nat,
           Upto(g, x, c, m), Upto(h, x, c, n), NEW i \in Nat, i <= m, i <= n
    PROVE  g[i] = h[i]
<1> DEFINE T == {j \in Nat : j <= m /\ j <= n /\ g[j] # h[j]}
<1> SUFFICES ASSUME T # {} PROVE FALSE
  OBVIOUS
<1>1. PICK j \in T : \A y \in T : j <= y
  BY LeastNumber
<1>2. g[j] = At(g, x, c, j) /\ h[j] = At(h, x, c, j)
  BY <1>1, UptoAt
<1>3. j # 0 => g[j - 1] = h[j - 1]
  BY <1>1
<1> QED  BY <1>1, <1>2, <1>3 DEF At

(* Every prefix exists. *)
LEMMA UptoExists ==
    ASSUME NEW x, NEW c, NEW n \in Nat
    PROVE  \E g : Upto(g, x, c, n)
<1> DEFINE T == {m \in Nat : ~\E g : Upto(g, x, c, m)}
<1> SUFFICES ASSUME T # {} PROVE FALSE
  OBVIOUS
<1>1. PICK m \in T : \A y \in T : m <= y
  BY LeastNumber
<1>2. CASE m = 0
  <2> DEFINE g == [i \in 0..0 |-> c]
  <2>1. g = [i \in 0..0 |-> At(g, x, c, i)]
    BY DEF At
  <2> QED  BY <1>1, <1>2, <2>1 DEF Upto
<1>3. CASE m # 0
  <2>1. PICK g : Upto(g, x, c, m - 1)
    BY <1>1, <1>3
  <2> DEFINE h == [i \in 0..m |-> IF i = m THEN At(g, x, c, i) ELSE g[i]]
  <2>2. ASSUME NEW i \in 0..m PROVE h[i] = At(h, x, c, i)
    <3>1. i # 0 => h[i - 1] = g[i - 1]
      BY <1>1
    <3>2. At(h, x, c, i) = At(g, x, c, i)
      BY <3>1 DEF At
    <3>3. i # m => g[i] = At(g, x, c, i)
      BY <1>1, <1>3, <2>1, UptoAt
    <3> QED  BY <3>2, <3>3
  <2> HIDE DEF h
  <2>3. h = [i \in 0..m |-> At(h, x, c, i)]
    BY <2>2 DEF h
  <2> QED  BY <1>1, <2>3 DEF Upto
<1> QED  BY <1>2, <1>3

(* The recursion has a solution on all numbers. *)
LEMMA RunsExists == ASSUME NEW x, NEW c PROVE \E f : Runs(f, x, c)
<1> DEFINE F(i) == CHOOSE g : Upto(g, x, c, i)
           f == [i \in Nat |-> F(i)[i]]
<1>1. \A i \in Nat : Upto(F(i), x, c, i)
  BY UptoExists
<1> HIDE DEF F
<1>2. ASSUME NEW i \in Nat PROVE f[i] = At(f, x, c, i)
  <2>1. F(i)[i] = At(F(i), x, c, i)
    BY <1>1, UptoAt
  <2>2. i # 0 => i - 1 \in Nat /\ F(i - 1)[i - 1] = F(i)[i - 1]
    BY <1>1, UptoAgree
  <2> QED  BY <2>1, <2>2 DEF At
<1> HIDE DEF f
<1>3. f = [i \in Nat |-> At(f, x, c, i)]
  BY <1>2 DEF f
<1> QED  BY <1>3 DEF Runs

(* What Walk, UpdateHeights, Rebalance and BackUpPath compute. *)
LEMMA WalkRuns ==
    ASSUME NEW m, NEW key, NEW at, NEW d, NEW stop
    PROVE  \E f : /\ f[0] = [m |-> m, at |-> at]
                  /\ \A n \in Nat : f[n + 1] = StepDown(f[n], key, d + (n + 1) - 1, stop)
                  /\ Walk(m, key, at, d, stop) = f[Bigger(0, MaxHeight - d)].m
<1> DEFINE Body(g) == [n \in Nat |-> IF n = 0 THEN [m |-> m, at |-> at]
                                     ELSE StepDown(g[n - 1], key, d + n - 1, stop)]
           down == CHOOSE g : g = Body(g)
           x == <<"walk", key, d, stop>>
           c == [m |-> m, at |-> at]
<1>1. \E g : g = Body(g)
  <2>1. PICK f : Runs(f, x, c)
    BY RunsExists
  <2>2. \A n \in Nat : n # 0 => Onward(x, f[n - 1], n) = StepDown(f[n - 1], key, d + n - 1, stop)
    BY DEF Onward
  <2> HIDE DEF x, c
  <2>3. [n \in Nat |-> At(f, x, c, n)] = Body(f)
    BY <2>2 DEF At, c
  <2> QED  BY <2>1, <2>3 DEF Runs
<1>2. down = Body(down)
  BY <1>1
<1>3. Walk(m, key, at, d, stop) = down[Bigger(0, MaxHeight - d)].m
  BY DEF Walk
<1> HIDE DEF down
<1>4. down[0] = [m |-> m, at |-> at]
  BY <1>2
<1>5. \A n \in Nat : down[n + 1] = StepDown(down[n], key, d + (n + 1) - 1, stop)
  <2> TAKE n \in Nat
  <2>1. n + 1 \in Nat /\ n + 1 # 0 /\ (n + 1) - 1 = n
    OBVIOUS
  <2>2. Body(down)[n + 1] = StepDown(down[(n + 1) - 1], key, d + (n + 1) - 1, stop)
    BY <2>1
  <2> HIDE DEF Body
  <2> QED  BY <1>2, <2>1, <2>2
<1> QED  BY <1>3, <1>4, <1>5

(* UpdateHeights: one node after the other, from the last. *)
LEMMA HeightsRuns ==
    ASSUME NEW m
    PROVE  \E f : /\ f[0] = m.local
                  /\ \A n \in Nat : f[n + 1] = RefreshHeights(f[n], Len(m.local) + 1 - (n + 1))
                  /\ UpdateHeights(m) = [m EXCEPT !.local = f[Len(m.local)]]
<1> DEFINE Body(g) == [n \in Nat |-> IF n = 0 THEN m.local
                                     ELSE RefreshHeights(g[n - 1], Len(m.local) + 1 - n)]
           up == CHOOSE g : g = Body(g)
           x == <<"heights", Len(m.local)>>
<1>1. \E g : g = Body(g)
  <2>1. PICK f : Runs(f, x, m.local)
    BY RunsExists
  <2>2. \A n \in Nat : n # 0 =>
           Onward(x, f[n - 1], n) = RefreshHeights(f[n - 1], Len(m.local) + 1 - n)
    BY DEF Onward
  <2> HIDE DEF x
  <2>3. [n \in Nat |-> At(f, x, m.local, n)] = Body(f)
    BY <2>2 DEF At
  <2> QED  BY <2>1, <2>3 DEF Runs
<1>2. up = Body(up)
  BY <1>1
<1>3. UpdateHeights(m) = [m EXCEPT !.local = up[Len(m.local)]]
  BY DEF UpdateHeights
<1> HIDE DEF up
<1>4. up[0] = m.local
  BY <1>2
<1>5. \A n \in Nat : up[n + 1] = RefreshHeights(up[n], Len(m.local) + 1 - (n + 1))
  <2> TAKE n \in Nat
  <2>1. n + 1 \in Nat /\ n + 1 # 0 /\ (n + 1) - 1 = n
    OBVIOUS
  <2>2. Body(up)[n + 1] = RefreshHeights(up[(n + 1) - 1], Len(m.local) + 1 - (n + 1))
    BY <2>1
  <2> HIDE DEF Body
  <2> QED  BY <1>2, <2>1, <2>2
<1> QED  BY <1>3, <1>4, <1>5

(* Rebalance: a refresh and a rotation per node, from the last. *)
LEMMA RebalanceRuns ==
    ASSUME NEW m
    PROVE  \E f : /\ f[0] = m
                  /\ \A n \in Nat : f[n + 1] = BalanceNode(UpdateHeights(f[n]), Len(m.local) + 1 - (n + 1))
                  /\ Rebalance(m) = UpdateHeights(f[Len(m.local)])
<1> DEFINE Body(g) == [n \in Nat |-> IF n = 0 THEN m
                                     ELSE BalanceNode(UpdateHeights(g[n - 1]), Len(m.local) + 1 - n)]
           up == CHOOSE g : g = Body(g)
           x == <<"balance", Len(m.local)>>
<1>1. \E g : g = Body(g)
  <2>1. PICK f : Runs(f, x, m)
    BY RunsExists
  <2>2. \A n \in Nat : n # 0 =>
           Onward(x, f[n - 1], n) = BalanceNode(UpdateHeights(f[n - 1]), Len(m.local) + 1 - n)
    BY DEF Onward
  <2> HIDE DEF x
  <2>3. [n \in Nat |-> At(f, x, m, n)] = Body(f)
    BY <2>2 DEF At
  <2> QED  BY <2>1, <2>3 DEF Runs
<1>2. up = Body(up)
  BY <1>1
<1>3. Rebalance(m) = UpdateHeights(up[Len(m.local)])
  BY DEF Rebalance
<1> HIDE DEF up
<1>4. up[0] = m
  BY <1>2
<1>5. \A n \in Nat : up[n + 1] = BalanceNode(UpdateHeights(up[n]), Len(m.local) + 1 - (n + 1))
  <2> TAKE n \in Nat
  <2>1. n + 1 \in Nat /\ n + 1 # 0 /\ (n + 1) - 1 = n
    OBVIOUS
  <2>2. Body(up)[n + 1] = BalanceNode(UpdateHeights(up[(n + 1) - 1]), Len(m.local) + 1 - (n + 1))
    BY <2>1
  <2> HIDE DEF Body
  <2> QED  BY <1>2, <2>1, <2>2
<1> QED  BY <1>3, <1>4, <1>5

(* BackUpPath: remove's second phase, from the last node of the path. *)
LEMMA BackUpRuns ==
    ASSUME NEW m, ~m.bad
    PROVE  \E f : /\ f[0] = m
                  /\ \A n \in Nat : f[n + 1] = BackUp(f[n], m.local[Len(m.local) + 1 - (n + 1)].key)
                  /\ BackUpPath(m) = f[Len(m.local)]
<1> DEFINE Body(g) == [n \in Nat |-> IF n = 0 THEN m
                                     ELSE BackUp(g[n - 1], m.local[Len(m.local) + 1 - n].key)]
           up == CHOOSE g : g = Body(g)
           x == <<"back up", m.local>>
<1>1. \E g : g = Body(g)
  <2>1. PICK f : Runs(f, x, m)
    BY RunsExists
  <2>2. \A n \in Nat : n # 0 =>
           Onward(x, f[n - 1], n) = BackUp(f[n - 1], m.local[Len(m.local) + 1 - n].key)
    BY DEF Onward
  <2> HIDE DEF x
  <2>3. [n \in Nat |-> At(f, x, m, n)] = Body(f)
    BY <2>2 DEF At
  <2> QED  BY <2>1, <2>3 DEF Runs
<1>2. up = Body(up)
  BY <1>1
<1>3. BackUpPath(m) = up[Len(m.local)]
  BY DEF BackUpPath
<1> HIDE DEF up
<1>4. up[0] = m
  BY <1>2
<1>5. \A n \in Nat : up[n + 1] = BackUp(up[n], m.local[Len(m.local) + 1 - (n + 1)].key)
  <2> TAKE n \in Nat
  <2>1. n + 1 \in Nat /\ n + 1 # 0 /\ (n + 1) - 1 = n
    OBVIOUS
  <2>2. Body(up)[n + 1] = BackUp(up[(n + 1) - 1], m.local[Len(m.local) + 1 - (n + 1)].key)
    BY <2>1
  <2> HIDE DEF Body
  <2> QED  BY <1>2, <2>1, <2>2
<1> QED  BY <1>3, <1>4, <1>5

-----------------------------------------------------------------------------
(* The accesses of a complete call.                                        *)
Working(m) ==
    /\ DOMAIN m = {"up", "lo", "root", "local", "bad", "ops"}
    /\ m.ops \in [{"up", "lo"} -> Nat]

(* The step from m to w is made without reading. *)
Keeps(m, w) == Working(m) => Working(w) /\ w.ops = m.ops

(* Steps without reads in a row. *)
LEMMA KeepsAll ==
    ASSUME NEW m, NEW v, NEW w, Keeps(m, v), Keeps(v, w)
    PROVE  Keeps(m, w)
BY DEF Keeps

(* A change of local_ reads nothing. *)
LEMMA LocalKept == ASSUME NEW m, NEW l PROVE Keeps(m, [m EXCEPT !.local = l])
BY DEF Keeps, Working

(* update_heights works on local_ alone. *)
LEMMA HeightsKept == ASSUME NEW m PROVE Keeps(m, UpdateHeights(m))
BY LocalKept DEF UpdateHeights

(* rotate works on local_ and the root key. *)
LEMMA RotateKept == ASSUME NEW m, NEW i, NEW left PROVE Keeps(m, Rotate(m, i, left))
BY DEF Rotate, Keeps, Working

(* One or two rotations. *)
LEMMA BalanceKept == ASSUME NEW m, NEW i PROVE Keeps(m, BalanceNode(m, i))
<1>1. Keeps(m, m)
  BY DEF Keeps
<1>2. PICK left, c, inner :
         \/ BalanceNode(m, i) = m
         \/ BalanceNode(m, i) = Rotate(IF inner THEN Rotate(m, c, ~left) ELSE m, i, left)
  BY DEF BalanceNode
<1>3. Keeps(m, IF inner THEN Rotate(m, c, ~left) ELSE m)
  BY <1>1, RotateKept
<1> QED  BY <1>1, <1>2, <1>3, RotateKept, KeepsAll

(* The rebalancing of local_. *)
LEMMA RebalanceKept == ASSUME NEW m, Len(m.local) \in Nat PROVE Keeps(m, Rebalance(m))
<1>1. PICK f : /\ f[0] = m
               /\ \A n \in Nat : f[n + 1] = BalanceNode(UpdateHeights(f[n]), Len(m.local) + 1 - (n + 1))
               /\ Rebalance(m) = UpdateHeights(f[Len(m.local)])
  BY RebalanceRuns
<1> DEFINE T == {n \in Nat : ~Keeps(m, f[n])}
<1>2. T = {}
  <2> SUFFICES ASSUME T # {} PROVE FALSE
    OBVIOUS
  <2>1. PICK n \in T : \A k \in T : n <= k
    BY LeastNumber
  <2>2. n # 0
    BY <1>1, <2>1 DEF Keeps
  <2>3. n - 1 \in Nat /\ n - 1 \notin T
    BY <2>1, <2>2
  <2>4. Keeps(m, f[n - 1])
    BY <2>3
  <2>5. PICK i : f[n] = BalanceNode(UpdateHeights(f[n - 1]), i)
    <3>1. f[(n - 1) + 1] = BalanceNode(UpdateHeights(f[n - 1]), Len(m.local) + 1 - ((n - 1) + 1))
      BY <1>1, <2>3
    <3>2. (n - 1) + 1 = n
      BY <2>1
    <3> QED  BY <3>1, <3>2
  <2>6. Keeps(m, f[n])
    BY <2>4, <2>5, HeightsKept, BalanceKept, KeepsAll
  <2> QED  BY <2>1, <2>6
<1>3. Keeps(m, f[Len(m.local)])
  BY <1>2
<1> QED  BY <1>1, <1>3, HeightsKept, KeepsAll

(* reassign_leaves reads nothing. *)
LEMMA ReassignKept == ASSUME NEW m, NEW lf PROVE Keeps(m, ReassignLeaves(m, lf))
BY DEF ReassignLeaves, Keeps, Working

(* flush_local_to_stash reads nothing. *)
LEMMA FlushKept == ASSUME NEW m PROVE Keeps(m, FlushLocalToStash(m))
BY DEF FlushLocalToStash, Keeps, Working

(* pad_to_budget brings each ORAM to its share of the budget, if no more   *)
(* accesses than that were made.                                           *)
Affordable(m) == Working(m) /\ m.ops.up <= Split /\ m.ops.lo <= Budget - Split

(* After pad_to_budget each ORAM was accessed its share of the budget. *)
LEMMA PaddedToBudget ==
    ASSUME conf \in DOMAIN Configs, NEW m, Affordable(m)
    PROVE  PadToBudget(m).ops = [up |-> Split, lo |-> Budget - Split]
<1>1. /\ MaxHeight \in Nat /\ MaxHeight >= 2 /\ Budget = 3 * MaxHeight
      /\ Split \in Nat /\ Split <= MaxHeight
  BY ObjectBuilt
<1> DEFINE o == PadToBudget(m).ops
<1>2. DOMAIN o = {"up", "lo"} /\ o = [x \in DOMAIN o |-> o[x]]
  BY <1>1 DEF Affordable, Working, PadToBudget, Bigger
<1>3. PadToBudget(m).ops.up = Split /\ PadToBudget(m).ops.lo = Budget - Split
  BY <1>1 DEF Affordable, Working, PadToBudget, Bigger
<1> QED  BY <1>2, <1>3

(* The end of every call. *)
LEMMA StorePads ==
    ASSUME conf \in DOMAIN Configs, NEW m, NEW lf, Affordable(m)
    PROVE  Store(m, lf).ops = [up |-> Split, lo |-> Budget - Split]
<1>1. Keeps(m, FlushLocalToStash(ReassignLeaves(m, lf)))
  BY ReassignKept, FlushKept, KeepsAll
<1>2. Affordable(FlushLocalToStash(ReassignLeaves(m, lf)))
  BY <1>1 DEF Affordable, Keeps
<1> QED  BY <1>2, PaddedToBudget DEF Store

-----------------------------------------------------------------------------
(* Sequences, of whatever elements. *)
Listed(s) == \E n \in Nat : DOMAIN s = 1..n /\ s = [i \in 1..n |-> s[i]]

(* A list is a sequence over its own elements. *)
LEMMA ListIsSeq ==
    ASSUME NEW s, NEW n \in Nat, DOMAIN s = 1..n, s = [i \in 1..n |-> s[i]]
    PROVE  /\ s \in Seq({s[i] : i \in 1..n}) /\ Len(s) = n /\ Listed(s)
<1> DEFINE S == {s[i] : i \in 1..n}
<1>1. s \in [1..n -> S]
  OBVIOUS
<1>2. s \in Seq(S)
  BY <1>1 DEF Seq
<1> HIDE DEF S
<1>3. Len(s) = n
  <2>1. Len(s) \in Nat /\ DOMAIN s = 1..Len(s)
    BY <1>2, LenProperties
  <2> QED  BY <2>1
<1> QED  BY <1>2, <1>3 DEF Listed, S

(* The length and the elements of a list. *)
LEMMA ListedIs ==
    ASSUME NEW s, Listed(s)
    PROVE  /\ Len(s) \in Nat /\ DOMAIN s = 1..Len(s)
           /\ s \in Seq({s[i] : i \in 1..Len(s)})
           /\ s = [i \in 1..Len(s) |-> s[i]]
BY ListIsSeq DEF Listed

(* Every sequence is a list. *)
LEMMA SeqIsListed ==
    ASSUME NEW S, NEW s \in Seq(S)
    PROVE  Listed(s)
BY LenProperties DEF Listed

(* Elements change, the length does not. *)
LEMMA ChangedListed ==
    ASSUME NEW s, Listed(s), NEW t, DOMAIN t = DOMAIN s, t = [i \in DOMAIN s |-> t[i]]
    PROVE  Listed(t) /\ Len(t) = Len(s)
BY ListedIs, ListIsSeq

(* One element changes. *)
LEMMA ExceptListed ==
    ASSUME NEW s, Listed(s), NEW i, NEW e
    PROVE  Listed([s EXCEPT ![i] = e]) /\ Len([s EXCEPT ![i] = e]) = Len(s)
BY ChangedListed

(* One element more. *)
LEMMA AppendListed ==
    ASSUME NEW s, Listed(s), NEW e
    PROVE  /\ Listed(Append(s, e)) /\ Len(Append(s, e)) = Len(s) + 1
           /\ Append(s, e)[Len(s) + 1] = e
<1> DEFINE S == {s[i] : i \in 1..Len(s)} \cup {e}
<1>1. s \in Seq({s[i] : i \in 1..Len(s)}) /\ Len(s) \in Nat
  BY ListedIs
<1>2. {s[i] : i \in 1..Len(s)} \subseteq S
  OBVIOUS
<1>3. s \in Seq(S) /\ e \in S
  <2> HIDE DEF S
  <2> QED  BY <1>1, <1>2, SeqMonotonic DEF S
<1> HIDE DEF S
<1>4. Append(s, e) \in Seq(S) /\ Len(Append(s, e)) = Len(s) + 1 /\ Append(s, e)[Len(s) + 1] = e
  BY <1>1, <1>3, AppendProperties
<1> QED  BY <1>4, SeqIsListed

(* A list given by a function on its indices. *)
LEMMA TupleListed ==
    ASSUME NEW n \in Nat, NEW f, DOMAIN f = 1..n, f = [i \in 1..n |-> f[i]]
    PROVE  Listed(Tuple(f)) /\ Len(Tuple(f)) = n
<1>1. f \in Seq({f[i] : i \in 1..n}) /\ Len(f) = n /\ Listed(f)
  BY ListIsSeq
<1>2. Tuple(f) = f
  BY <1>1, ConcatEmptySeq DEF Tuple
<1> QED  BY <1>1, <1>2

(* The last element goes. *)
LEMMA RemoveListed ==
    ASSUME NEW s, Listed(s)
    PROVE  Listed(SE!RemoveAt(s, Len(s))) /\ Len(SE!RemoveAt(s, Len(s))) <= Len(s)
<1> DEFINE S == {s[i] : i \in 1..Len(s)}
           n == Len(s) - 1
<1>1. s \in Seq(S) /\ Len(s) \in Nat
  BY ListedIs
<1> HIDE DEF S
<1>2. SE!RemoveAt(s, Len(s)) = SubSeq(s, 1, n) \o SubSeq(s, Len(s) + 1, Len(s))
  BY DEF SE!RemoveAt
<1>3. SubSeq(s, Len(s) + 1, Len(s)) = <<>>
  BY <1>1, SubSeqEmpty
<1>4. n \in Int /\ 1 \in Int /\ \A i \in 1..n : s[i] \in S
  BY <1>1, ElementOfSeq
<1>5. (IF 1 <= n THEN n - 1 + 1 ELSE 0) <= Len(s)
  BY <1>1
<1> HIDE DEF n
<1>6. SubSeq(s, 1, n) \in Seq(S) /\ Len(SubSeq(s, 1, n)) = IF 1 <= n THEN n - 1 + 1 ELSE 0
  BY <1>4, SubSeqProperties
<1>7. SE!RemoveAt(s, Len(s)) = SubSeq(s, 1, n)
  BY <1>2, <1>3, <1>6, ConcatEmptySeq
<1> QED  BY <1>5, <1>6, <1>7, SeqIsListed

-----------------------------------------------------------------------------
(* Refreshed heights leave as many nodes in local_. *)
LEMMA RefreshListed ==
    ASSUME NEW l, Listed(l), NEW i
    PROVE  Listed(RefreshHeights(l, i)) /\ Len(RefreshHeights(l, i)) = Len(l)
BY ChangedListed DEF RefreshHeights

(* update_heights leaves as many nodes in local_. *)
LEMMA HeightsListed ==
    ASSUME NEW m, Working(m), Listed(m.local)
    PROVE  Listed(UpdateHeights(m).local) /\ Len(UpdateHeights(m).local) = Len(m.local)
<1>1. PICK f : /\ f[0] = m.local
               /\ \A n \in Nat : f[n + 1] = RefreshHeights(f[n], Len(m.local) + 1 - (n + 1))
               /\ UpdateHeights(m) = [m EXCEPT !.local = f[Len(m.local)]]
  BY HeightsRuns
<1> DEFINE T == {n \in Nat : ~(Listed(f[n]) /\ Len(f[n]) = Len(m.local))}
<1>2. T = {}
  <2> SUFFICES ASSUME T # {} PROVE FALSE
    OBVIOUS
  <2>1. PICK n \in T : \A k \in T : n <= k
    BY LeastNumber
  <2>2. n # 0
    BY <1>1, <2>1
  <2>3. n - 1 \in Nat /\ n - 1 \notin T
    BY <2>1, <2>2
  <2>4. PICK i : f[n] = RefreshHeights(f[n - 1], i)
    <3>1. f[(n - 1) + 1] = RefreshHeights(f[n - 1], Len(m.local) + 1 - ((n - 1) + 1))
      BY <1>1, <2>3
    <3>2. (n - 1) + 1 = n
      BY <2>1
    <3> QED  BY <3>1, <3>2
  <2>5. Listed(f[n]) /\ Len(f[n]) = Len(m.local)
    BY <2>3, <2>4, RefreshListed
  <2> QED  BY <2>1, <2>5
<1>3. Len(m.local) \in Nat
  BY ListedIs
<1>4. Listed(f[Len(m.local)]) /\ Len(f[Len(m.local)]) = Len(m.local)
  BY <1>2, <1>3
<1>5. UpdateHeights(m).local = f[Len(m.local)]
  BY <1>1 DEF Working
<1> QED  BY <1>4, <1>5

(* The rebalancing of a whole path reads nothing. *)
LEMMA RebalancedKept ==
    ASSUME NEW m, Working(m), Listed(m.local)
    PROVE  Keeps(m, Rebalanced(m))
<1>1. Keeps(m, m)
  BY DEF Keeps
<1>2. Len(UpdateHeights(m).local) \in Nat
  BY HeightsListed, ListedIs
<1>3. Keeps(m, Rebalance(UpdateHeights(m)))
  BY <1>2, HeightsKept, RebalanceKept, KeepsAll
<1> QED  BY <1>1, <1>3 DEF Rebalanced

-----------------------------------------------------------------------------
(* Walking down.  At depth n, n accesses were made: those of the depths    *)
(* below the split to the upper ORAM.                                      *)
Path(m, n) ==
    /\ Working(m) /\ Listed(m.local) /\ Len(m.local) <= n
    /\ n \in Nat /\ n <= MaxHeight
    /\ m.ops.up <= UpTo(n) /\ m.ops.lo <= n - UpTo(n)
    /\ ~m.bad /\ Len(m.local) > 0 => m.local[Len(m.local)].depth = n - 1

(* One access more in one of the ORAMs. *)
LEMMA CountOne ==
    ASSUME NEW m, Working(m), NEW o \in {"up", "lo"}
    PROVE  LET w == Count(m, o)
           IN  /\ Working(w) /\ w.ops.up = m.ops.up + (IF o = "up" THEN 1 ELSE 0)
               /\ w.ops.lo = m.ops.lo + (IF o = "lo" THEN 1 ELSE 0)
               /\ w.local = m.local /\ w.bad = m.bad /\ w.root = m.root
               /\ w.up = m.up /\ w.lo = m.lo
BY DEF Count, Working

(* The extraction of a node appends it to local_, or throws. *)
LEMMA ExtractOne ==
    ASSUME NEW m, Working(m), NEW o \in {"up", "lo"}, NEW key, NEW leaf, NEW par, NEW d
    PROVE  LET w == Extract(m, o, key, leaf, par, d)
           IN  /\ Working(w) /\ w.ops = m.ops
               /\ \/ w.bad /\ w.local = m.local
                  \/ \E e : e.depth = d /\ w.local = Append(m.local, e) /\ w.bad = m.bad
<1> DEFINE w == Extract(m, o, key, leaf, par, d)
           e == [key |-> key, leaf |-> leaf, avl |-> m[o][key].avl, par |-> par, depth |-> d]
<1>1. CASE m.bad \/ key \notin DOMAIN m[o] \/ m[o][key].leaf # leaf
  <2>1. w = [m EXCEPT !.bad = TRUE]
    BY <1>1 DEF Extract
  <2> QED  BY <2>1 DEF Working
<1>2. CASE ~(m.bad \/ key \notin DOMAIN m[o] \/ m[o][key].leaf # leaf)
  <2>1. PICK r : w = [m EXCEPT ![o] = r, !.local = Append(@, e)]
    BY <1>2 DEF Extract
  <2>2. w.local = Append(m.local, e) /\ e.depth = d /\ w.bad = m.bad
    BY <2>1 DEF Working
  <2>3. Working(w) /\ w.ops = m.ops
    BY <2>1 DEF Working
  <2> HIDE DEF e
  <2> QED  BY <2>2, <2>3
<1> QED  BY <1>1, <1>2

(* A node read on the way down. *)
LEMMA MoveDown ==
    ASSUME conf \in DOMAIN Configs, NEW m, NEW n, Path(m, n), n < MaxHeight,
           NEW key, NEW leaf, NEW par
    PROVE  Path(MoveToLocal(m, key, leaf, par, n), n + 1)
<1> DEFINE o == OramForDepth(n)
           v == Extract(m, o, key, leaf, par, n)
           w == Count(v, o)
<1>1. o \in {"up", "lo"} /\ (o = "up" <=> n < Split) /\ Split \in Nat /\ MaxHeight \in Nat
  BY ObjectBuilt DEF OramForDepth, Path
<1>2. MoveToLocal(m, key, leaf, par, n) = w
  BY DEF MoveToLocal
<1> HIDE DEF o
<1>3. Working(m) /\ Listed(m.local) /\ n \in Nat
  BY DEF Path
<1>4. /\ Working(v) /\ v.ops = m.ops
      /\ \/ v.bad /\ v.local = m.local
         \/ \E e : e.depth = n /\ v.local = Append(m.local, e) /\ v.bad = m.bad
  BY <1>1, <1>3, ExtractOne
<1> HIDE DEF v
<1>5. /\ Working(w) /\ w.ops.up = v.ops.up + (IF o = "up" THEN 1 ELSE 0)
      /\ w.ops.lo = v.ops.lo + (IF o = "lo" THEN 1 ELSE 0)
      /\ w.local = v.local /\ w.bad = v.bad
  BY <1>1, <1>4, CountOne
<1> HIDE DEF w
<1>6. w.ops.up <= UpTo(n + 1) /\ w.ops.lo <= (n + 1) - UpTo(n + 1)
  <2>1. m.ops.up <= UpTo(n) /\ m.ops.lo <= n - UpTo(n) /\ m.ops.up \in Nat /\ m.ops.lo \in Nat
    BY DEF Path, Working
  <2> QED  BY <1>1, <1>3, <1>4, <1>5, <2>1 DEF UpTo
<1>7. /\ Listed(w.local) /\ Len(w.local) <= n + 1
      /\ ~w.bad /\ Len(w.local) > 0 => w.local[Len(w.local)].depth = n
  <2>1. Len(m.local) \in Nat /\ Len(m.local) <= n
    BY <1>3, ListedIs DEF Path
  <2>2. CASE v.bad /\ v.local = m.local
    BY <1>3, <1>5, <2>1, <2>2
  <2>3. ASSUME NEW e, e.depth = n, v.local = Append(m.local, e) PROVE <1>7!:
    BY <1>3, <1>5, <2>1, <2>3, AppendListed
  <2> QED  BY <1>4, <2>2, <2>3
<1>8. n + 1 \in Nat /\ n + 1 <= MaxHeight /\ (n + 1) - 1 = n
  BY <1>1, <1>3
<1>9. ~w.bad /\ Len(w.local) > 0 => w.local[Len(w.local)].depth = (n + 1) - 1
  BY <1>7, <1>8
<1>10. Path(w, n + 1)
  BY <1>5, <1>6, <1>7, <1>8, <1>9 DEF Path
<1> QED  BY <1>2, <1>10

(* One step down reads a node, unless the walk is over. *)
LEMMA StepDownPath ==
    ASSUME conf \in DOMAIN Configs, NEW w, NEW n, Path(w.m, n), n < MaxHeight, NEW key, NEW stop
    PROVE  LET v == StepDown(w, key, n, stop)
           IN  IF w.m.bad \/ w.at.key = NoKey THEN v = w ELSE Path(v.m, n + 1)
<1> DEFINE m == MoveToLocal(w.m, w.at.key, w.at.leaf, LastKey(w.m.local), n)
<1>1. Path(m, n + 1)
  BY MoveDown
<1>2. CASE w.m.bad \/ w.at.key = NoKey
  BY <1>2 DEF StepDown
<1>3. CASE ~(w.m.bad \/ w.at.key = NoKey)
  <2>1. StepDown(w, key, n, stop).m = m
    BY <1>3 DEF StepDown
  <2> HIDE DEF m
  <2> QED  BY <1>1, <1>3, <2>1
<1> QED  BY <1>2, <1>3

(* A walk reads one node per depth, down to the bound at most. *)
LEMMA WalkPath ==
    ASSUME conf \in DOMAIN Configs, NEW m, NEW d, Path(m, d), NEW key, NEW at, NEW stop
    PROVE  \E n : Path(Walk(m, key, at, d, stop), n)
<1>1. d \in Nat /\ d <= MaxHeight /\ MaxHeight \in Nat
  BY ObjectBuilt DEF Path
<1>2. PICK f : /\ f[0] = [m |-> m, at |-> at]
               /\ \A n \in Nat : f[n + 1] = StepDown(f[n], key, d + (n + 1) - 1, stop)
               /\ Walk(m, key, at, d, stop) = f[Bigger(0, MaxHeight - d)].m
  BY WalkRuns
<1> DEFINE Good(k) == \E n \in Nat : /\ Path(f[k].m, n) /\ n <= d + k
                                     /\ n = d + k \/ f[k].m.bad \/ f[k].at.key = NoKey
           T == {k \in Nat : k <= MaxHeight - d /\ ~Good(k)}
<1>3. T = {}
  <2> SUFFICES ASSUME T # {} PROVE FALSE
    OBVIOUS
  <2>1. PICK k \in T : \A j \in T : k <= j
    BY LeastNumber
  <2>2. Good(0)
    <3>1. f[0].m = m /\ d = d + 0
      BY <1>1, <1>2
    <3> QED  BY <1>1, <3>1
  <2>3. k # 0 /\ k - 1 \in Nat /\ k - 1 \notin T /\ k \in Nat /\ k <= MaxHeight - d
    BY <2>1, <2>2
  <2>4. Good(k - 1)
    BY <1>1, <2>3
  <2>5. PICK n \in Nat : /\ Path(f[k - 1].m, n) /\ n <= d + (k - 1)
                         /\ n = d + (k - 1) \/ f[k - 1].m.bad \/ f[k - 1].at.key = NoKey
    BY <2>4
  <2>6. f[k] = StepDown(f[k - 1], key, d + (k - 1), stop)
    <3>1. f[(k - 1) + 1] = StepDown(f[k - 1], key, d + ((k - 1) + 1) - 1, stop)
      BY <1>2, <2>3
    <3>2. (k - 1) + 1 = k /\ d + ((k - 1) + 1) - 1 = d + (k - 1)
      BY <1>1, <2>3
    <3> QED  BY <3>1, <3>2
  <2>7. CASE f[k - 1].m.bad \/ f[k - 1].at.key = NoKey
    <3>1. f[k] = f[k - 1]
      BY <2>6, <2>7 DEF StepDown
    <3>2. Path(f[k].m, n) /\ n <= d + k /\ (f[k].m.bad \/ f[k].at.key = NoKey)
      BY <1>1, <2>3, <2>5, <2>7, <3>1
    <3>3. Good(k)
      BY <3>2
    <3> QED  BY <2>1, <3>3
  <2>8. CASE ~(f[k - 1].m.bad \/ f[k - 1].at.key = NoKey)
    <3>1. n = d + (k - 1) /\ n < MaxHeight /\ n + 1 = d + k /\ n + 1 \in Nat
      BY <1>1, <2>3, <2>5, <2>8
    <3>2. Path(f[k].m, n + 1)
      BY <2>5, <2>6, <2>8, <3>1, StepDownPath
    <3>3. Good(k)
      BY <3>1, <3>2
    <3> QED  BY <2>1, <3>3
  <2> QED  BY <2>7, <2>8
<1>4. Bigger(0, MaxHeight - d) = MaxHeight - d /\ MaxHeight - d \in Nat
  BY <1>1 DEF Bigger
<1>5. Good(MaxHeight - d)
  BY <1>3, <1>4
<1>6. PICK n \in Nat : Path(f[MaxHeight - d].m, n)
  BY <1>5
<1> QED  BY <1>2, <1>4, <1>6

-----------------------------------------------------------------------------
(* The operations. *)

(* After a walk: the accesses it made at most, its nodes in local_. *)
Walked(m) ==
    /\ Working(m) /\ Listed(m.local) /\ Len(m.local) <= MaxHeight
    /\ m.ops.up <= Split /\ m.ops.lo <= MaxHeight - Split

(* A path read so far is within the bounds of a walk. *)
LEMMA PathWalked ==
    ASSUME conf \in DOMAIN Configs, NEW m, NEW n, Path(m, n)
    PROVE  Walked(m)
<1>1. MaxHeight \in Nat /\ Split \in Nat /\ Split <= MaxHeight
  BY ObjectBuilt
<1>2. Len(m.local) \in Nat /\ m.ops.up \in Nat /\ m.ops.lo \in Nat
  BY ListedIs DEF Path, Working
<1> QED  BY <1>1, <1>2 DEF Path, Walked, UpTo

(* A walk, and what reads nothing after it, leaves room for padding. *)
LEMMA WalkedAffordable ==
    ASSUME conf \in DOMAIN Configs, NEW m, NEW w, Walked(m), Keeps(m, w)
    PROVE  Affordable(w)
<1>1. MaxHeight \in Nat /\ Split \in Nat /\ Split <= MaxHeight /\ Budget = 3 * MaxHeight
  BY ObjectBuilt
<1> QED  BY <1>1 DEF Walked, Keeps, Affordable, Working

(* A search walks down once. *)
LEMMA SearchedAffordable ==
    ASSUME conf \in DOMAIN Configs, NEW m, Path(m, 0), NEW key, NEW u
    PROVE  Affordable(Searched(m, key, u))
<1>1. PICK n : Path(Descend(m, key, m.root, 0), n)
  BY WalkPath DEF Descend
<1>2. ASSUME NEW v PROVE Keeps(v, Updated(v, key, u))
  BY DEF Updated, Keeps, Working
<1> QED  BY <1>1, <1>2, PathWalked, WalkedAffordable DEF Searched

(* A new node costs no read. *)
LEMMA PlaceBelowKept ==
    ASSUME NEW m, Working(m), Listed(m.local), NEW key, NEW v, NEW leaf
    PROVE  LET w == PlaceBelow(m, key, v, leaf)
           IN  Keeps(m, w) /\ Listed(w.local)
<1> DEFINE w == PlaceBelow(m, key, v, leaf)
<1>1. CASE w = m
  BY <1>1 DEF Keeps
<1>2. CASE w # m
  <2>1. PICK n, s, e, l : /\ w = [m EXCEPT !.local = Append(l, e)]
                          /\ l = [m.local EXCEPT ![n].avl[s] = [key |-> key, leaf |-> leaf, h |-> 1]]
    BY <1>2 DEF PlaceBelow, Working
  <2>2. Listed(l)
    BY <2>1, ChangedListed
  <2>3. w.local = Append(l, e)
    BY <2>1 DEF Working
  <2>4. Keeps(m, [m EXCEPT !.local = Append(l, e)])
    BY LocalKept
  <2>5. Keeps(m, w)
    BY <2>1, <2>4
  <2>6. Listed(w.local)
    BY <2>2, <2>3, AppendListed
  <2> QED  BY <2>5, <2>6
<1> QED  BY <1>1, <1>2

(* An insert walks down once and rotates in local_. *)
LEMMA InsertedAffordable ==
    ASSUME conf \in DOMAIN Configs, NEW m, Path(m, 0), NEW key, NEW v, NEW leaf
    PROVE  Affordable(Inserted(m, key, v, leaf))
<1>1. CASE m.root.key = NoKey
  <2>1. Keeps(m, InsertedRoot(m, key, v, leaf))
    <3>1. OramForDepth(0) \in {"up", "lo"}
      BY DEF OramForDepth
    <3>2. PICK o \in {"up", "lo"} :
            \E a, r : InsertedRoot(m, key, v, leaf) = [m EXCEPT ![o] = a, !.root = r]
      BY <3>1 DEF InsertedRoot
    <3>3. PICK a, r : InsertedRoot(m, key, v, leaf) = [m EXCEPT ![o] = a, !.root = r]
      BY <3>2
    <3> QED  BY <3>3 DEF Keeps, Working
  <2> QED  BY <1>1, <2>1, PathWalked, WalkedAffordable DEF Inserted
<1>2. CASE m.root.key # NoKey
  <2> DEFINE p == Walk(m, key, m.root, 0, FALSE)
             b == PlaceBelow(p, key, v, leaf)
  <2>1. PICK n : Path(p, n)
    BY WalkPath
  <2>2. Inserted(m, key, v, leaf) = Rebalanced(b)
    BY <1>2 DEF Inserted, PlaceNew
  <2> HIDE DEF p
  <2>3. Walked(p) /\ Working(p) /\ Listed(p.local)
    BY <2>1, PathWalked DEF Walked
  <2>4. Keeps(p, b) /\ Listed(b.local)
    BY <2>3, PlaceBelowKept
  <2> HIDE DEF b
  <2>5. Keeps(b, Rebalanced(b))
    BY <2>3, <2>4, RebalancedKept DEF Keeps
  <2> QED  BY <2>2, <2>3, <2>4, <2>5, KeepsAll, WalkedAffordable
<1> QED  BY <1>1, <1>2

(* The successor's move into its target reads nothing. *)
LEMMA RenameKept ==
    ASSUME NEW m, Working(m), Listed(m.local), NEW t
    PROVE  LET w == RenameToSuccessor(m, t)
           IN  Keeps(m, w) /\ Listed(w.local) /\ Len(w.local) = Len(m.local)
<1> DEFINE w == RenameToSuccessor(m, t)
           old == m.local[t].key
           succ == m.local[Len(m.local)]
           p == Index([m.local EXCEPT ![t].key = succ.key], m.local[t].par)
           point(avl) == IF avl.l.key = old THEN [avl EXCEPT !.l.key = succ.key]
                         ELSE IF avl.r.key = old THEN [avl EXCEPT !.r.key = succ.key]
                         ELSE avl
           renamed == [m.local EXCEPT ![t].key = succ.key, ![t].avl.data = succ.avl.data]
           linked == IF m.local[t].par = NoKey \/ p = 0 THEN renamed
                     ELSE [renamed EXCEPT ![p].avl = point(renamed[p].avl)]
           f == [i \in DOMAIN linked |->
                    IF linked[i].par = old THEN [linked[i] EXCEPT !.par = succ.key] ELSE linked[i]]
<1>1. w.local = Tuple(f) /\ Keeps(m, w)
  BY DEF RenameToSuccessor, Working, Keeps
<1>2. DOMAIN linked = DOMAIN m.local
  OBVIOUS
<1> HIDE DEF linked
<1>3. Len(m.local) \in Nat /\ DOMAIN f = 1..Len(m.local) /\ f = [i \in 1..Len(m.local) |-> f[i]]
  BY <1>2, ListedIs
<1> HIDE DEF f
<1>4. Listed(Tuple(f)) /\ Len(Tuple(f)) = Len(m.local)
  BY <1>3, TupleListed
<1> QED  BY <1>1, <1>4

(* Nor does the removal of a node, which shortens local_. *)
LEMMA UnlinkKept ==
    ASSUME NEW m, Working(m), Listed(m.local)
    PROVE  LET w == Unlink(m, Len(m.local))
           IN  Keeps(m, w) /\ Listed(w.local) /\ Len(w.local) <= Len(m.local)
<1> DEFINE w == Unlink(m, Len(m.local))
<1>1. PICK l, r : /\ w = [m EXCEPT !.local = SE!RemoveAt(l, Len(m.local)), !.root = r]
                  /\ Listed(l) /\ Len(l) = Len(m.local)
  <2> DEFINE n == m.local[Len(m.local)]
             child == IF n.avl.l.key # NoKey THEN n.avl.l
                      ELSE IF n.avl.r.key # NoKey THEN n.avl.r ELSE [n.avl.r EXCEPT !.h = 0]
             p == Index(m.local, n.par)
             point(avl) == IF avl.l.key = n.key THEN [avl EXCEPT !.l = child]
                           ELSE IF avl.r.key = n.key THEN [avl EXCEPT !.r = child]
                           ELSE avl
             loc == IF p = 0 THEN m.local ELSE [m.local EXCEPT ![p].avl = point(m.local[p].avl)]
  <2>1. \E r : w = [m EXCEPT !.local = SE!RemoveAt(loc, Len(m.local)), !.root = r]
    BY DEF Unlink, Working
  <2>2. DOMAIN loc = DOMAIN m.local /\ loc = [i \in DOMAIN m.local |-> loc[i]]
    BY ListedIs
  <2> HIDE DEF loc
  <2>3. Listed(loc) /\ Len(loc) = Len(m.local)
    BY <2>2, ChangedListed
  <2> QED  BY <2>1, <2>3
<1>2. w.local = SE!RemoveAt(l, Len(m.local)) /\ Keeps(m, w)
  BY <1>1 DEF Working, Keeps
<1> QED  BY <1>1, <1>2, RemoveListed

(* The deletion, with the walk on to the successor, is one walk down. *)
LEMMA DeletedWalked ==
    ASSUME conf \in DOMAIN Configs, NEW m, NEW n, Path(m, n), NEW key, key # NoKey
    PROVE  Walked(Deleted(m, key))
<1> DEFINE t == Len(m.local)
           avl == m.local[t].avl
           s == DescendLeft(m, avl.r, m.local[t].depth + 1)
<1>1. Walked(m) /\ MaxHeight \in Nat /\ n \in Nat
  BY PathWalked, ObjectBuilt DEF Path
<1>2. ASSUME NEW v, Walked(v) PROVE Walked(Unlink(v, Len(v.local)))
  <2>1. Len(v.local) \in Nat
    BY <1>2, ListedIs DEF Walked
  <2>2. Working(v) /\ Listed(v.local)
    BY <1>2 DEF Walked
  <2> DEFINE w == Unlink(v, Len(v.local))
  <2>3. Keeps(v, w) /\ Listed(w.local) /\ Len(w.local) <= Len(v.local)
    BY <2>2, UnlinkKept
  <2> HIDE DEF w
  <2>4. Len(w.local) \in Nat
    BY <2>3, ListedIs
  <2>5. Walked(w)
    BY <1>1, <1>2, <2>1, <2>3, <2>4 DEF Walked, Keeps
  <2> QED  BY <2>5 DEF w
<1>3. CASE ~Found(m, key)
  BY <1>1, <1>3 DEF Deleted
<1>4. CASE Found(m, key) /\ (avl.l.key = NoKey \/ avl.r.key = NoKey)
  BY <1>1, <1>2, <1>4 DEF Deleted
<1>5. CASE Found(m, key) /\ ~(avl.l.key = NoKey \/ avl.r.key = NoKey)
  <2>1. Deleted(m, key) = SpliceSuccessor(s, t)
    BY <1>5 DEF Deleted
  <2>2. m.local[t].depth + 1 = n
    <3>1. ~m.bad /\ m.local # <<>>
      BY <1>5 DEF Found, LastKey
    <3>2. Listed(m.local) /\ Len(m.local) \in Nat
      BY ListedIs DEF Path
    <3>3. Len(m.local) # 0
      BY <3>1, <3>2, ListedIs, EmptySeq
    <3>4. m.local[t].depth = n - 1
      BY <3>1, <3>2, <3>3 DEF Path
    <3> QED  BY <1>1, <3>4
  <2>3. PICK k : Path(s, k)
    <3>1. s = Walk(m, NoKey, avl.r, n, FALSE)
      BY <2>2 DEF DescendLeft
    <3> HIDE DEF avl
    <3> QED  BY <3>1, WalkPath
  <2> HIDE DEF s
  <2>4. Walked(s)
    BY <2>3, PathWalked
  <2> DEFINE w == RenameToSuccessor(s, t)
  <2>5. Keeps(s, w) /\ Listed(w.local) /\ Len(w.local) = Len(s.local)
    BY <2>4, RenameKept DEF Walked
  <2> HIDE DEF w
  <2>6. Walked(w)
    BY <2>4, <2>5 DEF Walked, Keeps
  <2>7. SpliceSuccessor(s, t) = IF s.bad THEN s ELSE Unlink(w, Len(w.local))
    BY <2>5 DEF SpliceSuccessor, w
  <2> QED  BY <1>2, <2>1, <2>4, <2>6, <2>7
<1> QED  BY <1>3, <1>4, <1>5

-----------------------------------------------------------------------------
(* The rebalancing after a delete, with one ORAM: two accesses per node. *)
Costs(m, w, c) ==
    Working(m) => Working(w) /\ w.ops.up = m.ops.up /\ w.ops.lo <= m.ops.lo + c

(* Costs in a row. *)
LEMMA CostsAdd ==
    ASSUME NEW m, NEW v, NEW w, NEW c \in Nat, NEW d \in Nat, Costs(m, v, c), Costs(v, w, d)
    PROVE  Costs(m, w, c + d)
BY DEF Costs, Working

(* What reads nothing adds no cost. *)
LEMMA KeepsCosts ==
    ASSUME NEW m, NEW v, NEW w, NEW c \in Nat, Costs(m, v, c), Keeps(v, w)
    PROVE  Costs(m, w, c)
BY DEF Costs, Keeps

(* A tracked dummy is one access. *)
LEMMA DummyCosts ==
    ASSUME Split = 0, NEW m, NEW d
    PROVE  Costs(m, TrackedDummy(m, d), 1)
<1>1. TrackedDummy(m, d) = Count(m, "lo")
  BY DEF TrackedDummy, OramForDepth
<1> SUFFICES ASSUME Working(m) PROVE Costs(m, Count(m, "lo"), 1)
  BY <1>1 DEF Costs
<1>2. m.ops.lo \in Nat
  BY DEF Working
<1> DEFINE w == Count(m, "lo")
<1>3. Working(w) /\ w.ops.up = m.ops.up + 0 /\ w.ops.lo = m.ops.lo + 1 /\ m.ops.up \in Nat
  BY CountOne DEF Working
<1> HIDE DEF w
<1>4. Costs(m, w, 1)
  BY <1>2, <1>3 DEF Costs
<1> QED  BY <1>4 DEF w

(* So is a node moved to local_, found or not. *)
LEMMA MoveCosts ==
    ASSUME Split = 0, NEW m, NEW key, NEW leaf, NEW par, NEW d
    PROVE  Costs(m, MoveToLocal(m, key, leaf, par, d), 1)
<1> DEFINE v == Extract(m, "lo", key, leaf, par, d)
<1>1. MoveToLocal(m, key, leaf, par, d) = Count(v, "lo")
  BY DEF MoveToLocal, OramForDepth
<1>2. CASE Working(m)
  <2>1. Working(v) /\ v.ops = m.ops /\ m.ops.up \in Nat /\ m.ops.lo \in Nat
    BY <1>2, ExtractOne DEF Working
  <2> HIDE DEF v
  <2> DEFINE w == Count(v, "lo")
  <2>2. Working(w) /\ w.ops.up = v.ops.up + 0 /\ w.ops.lo = v.ops.lo + 1
    BY <2>1, CountOne
  <2> HIDE DEF w
  <2>3. Costs(m, w, 1)
    BY <2>1, <2>2 DEF Costs
  <2> QED  BY <1>1, <2>3 DEF w
<1>3. CASE ~Working(m)
  BY <1>3 DEF Costs
<1> QED  BY <1>2, <1>3

(* A sibling is read, or a dummy stands in for it. *)
LEMMA ReadCosts ==
    ASSUME Split = 0, NEW m, NEW at, NEW par, NEW d
    PROVE  Costs(m, ReadIfAbsent(m, at, par, d), 1)
BY DummyCosts, MoveCosts DEF ReadIfAbsent

(* One node of the path: its taller child and that child's inner child,    *)
(* read or replaced by dummies.                                            *)
LEMMA BackUpCosts ==
    ASSUME Split = 0, NEW m, NEW key
    PROVE  Costs(m, BackUp(m, key), 2)
<1>1. Costs(m, m, 0)
  BY DEF Costs, Working
<1>2. ASSUME NEW v, NEW d PROVE Costs(v, TrackedDummy(TrackedDummy(v, d), d), 2)
  BY DummyCosts, CostsAdd, 1 + 1 = 2
<1>3. ASSUME NEW v, NEW n PROVE Costs(v, BackUpNode(v, n), 2)
  <2>1. CASE Balance(n.avl) \in -1..1
    BY <1>2, <2>1 DEF BackUpNode
  <2>2. CASE ~(Balance(n.avl) \in -1..1)
    <3> DEFINE a == ReadIfAbsent(v, TallChild(n), n.key, n.depth + 1)
               b == ReadInner(a, n)
    <3>1. BackUpNode(v, n) = RotatedAt(b, n.key)
      BY <2>2 DEF BackUpNode
    <3>2. Costs(v, a, 1)
      BY ReadCosts
    <3> HIDE DEF a
    <3>3. Costs(a, b, 1)
      BY DummyCosts, ReadCosts DEF ReadInner
    <3> HIDE DEF b
    <3>4. Keeps(b, b)
      BY DEF Keeps
    <3>5. Keeps(b, RotatedAt(b, n.key))
      BY <3>4, HeightsKept, BalanceKept, KeepsAll DEF RotatedAt
    <3>6. Costs(v, b, 2)
      BY <3>2, <3>3, CostsAdd, 1 + 1 = 2
    <3> QED  BY <3>1, <3>5, <3>6, KeepsCosts
  <2> QED  BY <2>1, <2>2
<1>4. ASSUME NEW n, NEW l PROVE Costs(m, BackUpNode([m EXCEPT !.local = l], n), 2)
  <2> DEFINE v == [m EXCEPT !.local = l]
  <2>1. Keeps(m, v)
    BY LocalKept
  <2> HIDE DEF v
  <2>2. Costs(m, v, 0)
    BY <1>1, <2>1, KeepsCosts
  <2>3. Costs(v, BackUpNode(v, n), 2)
    BY <1>3
  <2>4. Costs(m, BackUpNode(v, n), 0 + 2)
    BY <2>2, <2>3, CostsAdd
  <2> QED  BY <2>4 DEF v
<1>5. Costs(m, m, 2)
  BY DEF Costs, Working
<1>6. \/ BackUp(m, key) = m
      \/ \E d : BackUp(m, key) = TrackedDummy(TrackedDummy(m, d), d)
      \/ \E l, n : BackUp(m, key) = BackUpNode([m EXCEPT !.local = l], n)
  BY DEF BackUp
<1> QED  BY <1>2, <1>4, <1>5, <1>6

(* The whole path, of k nodes. *)
LEMMA BackUpPathCosts ==
    ASSUME Split = 0, NEW m, Len(m.local) \in Nat
    PROVE  Costs(m, BackUpPath(m), 2 * Len(m.local))
<1>1. CASE m.bad
  BY <1>1 DEF BackUpPath, Costs, Working
<1>2. CASE ~m.bad
  <2>1. PICK f : /\ f[0] = m
                 /\ \A n \in Nat : f[n + 1] = BackUp(f[n], m.local[Len(m.local) + 1 - (n + 1)].key)
                 /\ BackUpPath(m) = f[Len(m.local)]
    BY <1>2, BackUpRuns
  <2> DEFINE T == {n \in Nat : ~Costs(m, f[n], 2 * n)}
  <2>2. T = {}
    <3> SUFFICES ASSUME T # {} PROVE FALSE
      OBVIOUS
    <3>1. PICK n \in T : \A k \in T : n <= k
      BY LeastNumber
    <3>2. n # 0
      <4>1. Costs(m, f[0], 2 * 0)
        BY <2>1 DEF Costs, Working
      <4> QED  BY <3>1, <4>1
    <3>3. n - 1 \in Nat /\ n - 1 \notin T
      BY <3>1, <3>2
    <3>4. PICK key : f[n] = BackUp(f[n - 1], key)
      <4>1. f[(n - 1) + 1] = BackUp(f[n - 1], m.local[Len(m.local) + 1 - ((n - 1) + 1)].key)
        BY <2>1, <3>3
      <4>2. (n - 1) + 1 = n
        BY <3>1
      <4> QED  BY <4>1, <4>2
    <3>5. Costs(m, f[n - 1], 2 * (n - 1)) /\ Costs(f[n - 1], f[n], 2)
      BY <3>3, <3>4, BackUpCosts
    <3>6. 2 * (n - 1) \in Nat /\ 2 * (n - 1) + 2 = 2 * n
      BY <3>1, <3>3
    <3>7. Costs(m, f[n], 2 * n)
      BY <3>5, <3>6, CostsAdd
    <3> QED  BY <3>1, <3>7
  <2> QED  BY <2>1, <2>2
<1> QED  BY <1>1, <1>2

(* Remove: one walk down, then two accesses per node of it. *)
LEMMA RemovedAffordable ==
    ASSUME conf \in DOMAIN Configs, Split = 0, NEW m, Path(m, 0), NEW key, key # NoKey
    PROVE  Affordable(Removed(m, key))
<1> DEFINE w == Deleted(Descend(m, key, m.root, 0), key)
<1>1. PICK n : Path(Descend(m, key, m.root, 0), n)
  BY WalkPath DEF Descend
<1>2. Walked(w)
  BY <1>1, DeletedWalked
<1>3. Removed(m, key) = BackUpPath(w)
  BY DEF Removed
<1> HIDE DEF w
<1>4. Len(w.local) \in Nat /\ Len(w.local) <= MaxHeight /\ w.ops.lo \in Nat
  BY <1>2, ListedIs DEF Walked, Working
<1>5. Costs(w, BackUpPath(w), 2 * Len(w.local))
  BY <1>4, BackUpPathCosts
<1>6. MaxHeight \in Nat /\ Budget = 3 * MaxHeight
  BY ObjectBuilt
<1> HIDE DEF Costs
<1>7. Affordable(BackUpPath(w))
  <2> DEFINE b == BackUpPath(w)
  <2>1. Working(b) /\ b.ops.up = w.ops.up /\ b.ops.lo <= w.ops.lo + 2 * Len(w.local)
    BY <1>2, <1>5 DEF Walked, Costs
  <2>2. b.ops.lo \in Nat
    BY <2>1 DEF Working
  <2> HIDE DEF b
  <2>3. Affordable(b)
    BY <1>2, <1>4, <1>6, <2>1, <2>2 DEF Affordable, Walked
  <2> QED  BY <2>3 DEF b
<1> QED  BY <1>3, <1>7

(* search_piggyback's delete reads no sibling. *)
LEMMA RemovedOnPathAffordable ==
    ASSUME conf \in DOMAIN Configs, NEW m, Path(m, 0), NEW key, key # NoKey
    PROVE  Affordable(RemovedOnPath(m, key))
<1> DEFINE p == Descend(m, key, m.root, 0)
           w == Deleted(p, key)
<1>1. PICK n : Path(p, n)
  BY WalkPath DEF Descend
<1>2. RemovedOnPath(m, key) = IF Found(p, key) THEN Rebalanced(w) ELSE p
  BY DEF RemovedOnPath, DeletedOnPath
<1> HIDE DEF p
<1>3. Walked(w) /\ Walked(p)
  BY <1>1, DeletedWalked, PathWalked
<1> HIDE DEF w
<1>4. Keeps(p, p)
  BY DEF Keeps
<1>5. Keeps(w, Rebalanced(w))
  BY <1>3, RebalancedKept DEF Walked
<1> QED  BY <1>2, <1>3, <1>4, <1>5, WalkedAffordable

-----------------------------------------------------------------------------
(* The calls. *)

(* The objects for which a remove's accesses are hidden: the rebalancing   *)
(* after a delete may read more of the upper ORAM than its share.          *)
RemoveUnsplit ==
    \A i \in DOMAIN Configs : Configs[i].split = 0 \/ "remove" \notin Configs[i].use.calls

Share == [up |-> Split, lo |-> Budget - Split]
RoundsInv == conf \in DOMAIN Configs /\ RoundsHidden

(* Before the first access. *)
LEMMA FreshPath ==
    ASSUME conf \in DOMAIN Configs, NEW m,
           DOMAIN m = {"up", "lo", "root", "local", "bad", "ops"}, m.local = <<>>, m.ops = NoOps
    PROVE  Path(m, 0)
<1>1. <<>> \in Seq({}) /\ Len(<<>>) = 0
  BY EmptySeq
<1>2. Listed(m.local) /\ Len(m.local) = 0
  BY <1>1, SeqIsListed
<1>3. /\ m.ops.up = 0 /\ m.ops.lo = 0 /\ m.ops \in [{"up", "lo"} -> Nat]
  BY DEF NoOps
<1>4. MaxHeight \in Nat /\ Split \in Nat /\ UpTo(0) = 0
  BY ObjectBuilt DEF UpTo
<1> QED  BY <1>2, <1>3, <1>4 DEF Path, Working

(* A call starts without accesses. *)
LEMMA StartPath ==
    ASSUME conf \in DOMAIN Configs
    PROVE  Path(Start, 0)
BY FreshPath DEF Start

(* What a call leaves for the next one, or for its second half. *)
LEMMA StoreFresh ==
    ASSUME conf \in DOMAIN Configs, NEW m, NEW lf, Working(m)
    PROVE  Path([Store(m, lf) EXCEPT !.ops = NoOps], 0)
<1> DEFINE a == ReassignLeaves(m, lf)
           b == FlushLocalToStash(a)
           w == PadToBudget(b)
<1>1. Working(a)
  BY ReassignKept DEF Keeps
<1> HIDE DEF a
<1>2. Working(b)
  BY <1>1, FlushKept DEF Keeps
<1>3. b.local = <<>>
  BY <1>1 DEF FlushLocalToStash, Working
<1> HIDE DEF b
<1>4. DOMAIN w = DOMAIN b /\ w.local = b.local
  BY <1>2 DEF PadToBudget, Working
<1>5. Store(m, lf) = w
  BY DEF Store, a, b
<1> HIDE DEF w
<1> DEFINE v == [w EXCEPT !.ops = NoOps]
<1>6. DOMAIN v = {"up", "lo", "root", "local", "bad", "ops"} /\ v.local = <<>> /\ v.ops = NoOps
  BY <1>2, <1>3, <1>4 DEF Working
<1> HIDE DEF v
<1>7. Path(v, 0)
  BY <1>6, FreshPath
<1> QED  BY <1>5, <1>7 DEF v

(* A call that made its share of accesses shows nothing else. *)
LEMMA CommitHides ==
    ASSUME conf \in DOMAIN Configs, NEW op, NEW m, NEW r, Commit(op, m, r),
           \/ op \notin {"search", "insert", "remove", "dummy", "both"}
           \/ op # "both" /\ m.ops = Share
           \/ op = "both" /\ m.ops = [up |-> 2 * Split, lo |-> 2 * (Budget - Split)]
    PROVE  RoundsHidden'
<1>1. conf' = conf /\ last' = [op |-> op, ops |-> m.ops]
  BY DEF Commit
<1>2. Split' = Split /\ Budget' = Budget
  BY <1>1, SameObject
<1>3. Split \in Nat /\ Budget \in Nat /\ Split <= Budget
  BY ObjectBuilt
<1>4. 1 * Split = Split /\ 1 * (Budget - Split) = Budget - Split
  BY <1>3
<1>5. last'.op = op /\ last'.ops = m.ops
  BY <1>1
<1> QED  BY <1>2, <1>4, <1>5 DEF RoundsHidden, Share

(* A search, an insert or a remove that leaves room is padded up to the    *)
(* share.                                                                  *)
LEMMA FinishHides ==
    ASSUME conf \in DOMAIN Configs, NEW op \in {"search", "insert", "remove"}, NEW m,
           Affordable(m), NEW r, Finish(op, m, r)
    PROVE  RoundsHidden'
<1>1. PICK lf : Commit(op, Store(m, lf), r)
  BY DEF Finish
<1>2. Store(m, lf).ops = Share
  BY StorePads DEF Share
<1> QED  BY <1>1, <1>2, CommitHides

(* No caller's key is INVALID_KEY. *)
LEMMA UsedKeysReal ==
    ASSUME conf \in DOMAIN Configs, NEW k \in UsedKeys
    PROVE  k # NoKey
BY ObjectBuilt, AVLAssumption DEF UsedKeys, NoKey

(* search_piggyback: two shares. *)
LEMMA SharesAdd ==
    ASSUME conf \in DOMAIN Configs, NEW m, "ops" \in DOMAIN m, m.ops = Share,
           NEW ops, ops = Share, NEW r, CommitBoth(m, ops, r)
    PROVE  RoundsHidden'
<1> DEFINE v == [m EXCEPT !.ops = [up |-> m.ops.up + ops.up, lo |-> m.ops.lo + ops.lo]]
<1>1. Split \in Nat /\ Budget \in Nat /\ Split <= Budget
  BY ObjectBuilt
<1>2. Commit("both", v, r)
  BY DEF CommitBoth
<1>3. v.ops = [up |-> 2 * Split, lo |-> 2 * (Budget - Split)]
  <2>1. v.ops = [up |-> m.ops.up + ops.up, lo |-> m.ops.lo + ops.lo]
    OBVIOUS
  <2> HIDE DEF v
  <2> QED  BY <1>1, <2>1 DEF Share
<1> HIDE DEF v
<1> QED  BY <1>2, <1>3, CommitHides

(* The counters are there after a store. *)
LEMMA StoreIsRecord ==
    ASSUME NEW m, NEW lf, Working(m)
    PROVE  "ops" \in DOMAIN Store(m, lf)
<1> DEFINE b == FlushLocalToStash(ReassignLeaves(m, lf))
<1>1. Working(b)
  BY ReassignKept, FlushKept DEF Keeps
<1>2. Store(m, lf) = PadToBudget(b)
  BY DEF Store
<1> HIDE DEF b
<1> QED  BY <1>1, <1>2 DEF PadToBudget, Working

(* The second operation of search_piggyback. *)
LEMMA ExtraAffordable ==
    ASSUME conf \in DOMAIN Configs, NEW m, Path(m, 0), NEW x \in UsedKeys,
           NEW op \in {"s", "d", "i"}, NEW v
    PROVE  Affordable(Extra(m, x, op, v))
<1>1. Affordable(Searched(m, x, NoUpdate))
  BY SearchedAffordable
<1>2. Affordable(RemovedOnPath(m, x))
  BY UsedKeysReal, RemovedOnPathAffordable
<1>3. Affordable(Inserted(m, x, v, AnyLeaf))
  BY InsertedAffordable
<1> QED  BY <1>1, <1>2, <1>3 DEF Extra

(* search_piggyback makes two shares of accesses, on an empty tree too. *)
LEMMA PiggybackHides ==
    ASSUME conf \in DOMAIN Configs, NEW k \in UsedKeys, NEW x \in UsedKeys, NEW u,
           NEW op \in {"s", "d", "i"}, NEW v, SearchPiggyback(k, u, x, op, v)
    PROVE  RoundsHidden'
<1>1. Path(Start, 0) /\ Affordable(Start)
  <2>1. Path(Start, 0) /\ Keeps(Start, Start)
    BY StartPath DEF Keeps
  <2> QED  BY <2>1, PathWalked, WalkedAffordable
<1>2. CASE root.key = NoKey
  <2> DEFINE m == PadToBudget(Start)
  <2>1. m.ops = Share
    BY <1>1, PaddedToBudget DEF Share
  <2>2. "ops" \in DOMAIN m
    BY <1>1 DEF PadToBudget, Affordable, Working
  <2>3. CommitBoth(m, m.ops, <<NoValue, NoValue>>)
    BY <1>2 DEF SearchPiggyback
  <2> HIDE DEF m
  <2> QED  BY <2>1, <2>2, <2>3, SharesAdd
<1>3. CASE root.key # NoKey
  <2> DEFINE s == Searched(Start, k, u)
             r == Data(Descend(Start, k, root, 0), k)
  <2>1. FirstHalf(s, r, x, op, v)
    BY <1>3 DEF SearchPiggyback
  <2>2. Affordable(s)
    BY <1>1, SearchedAffordable
  <2> HIDE DEF s, r
  <2>3. PICK lf : SecondHalf([Store(s, lf) EXCEPT !.ops = NoOps], Store(s, lf).ops, r, x, op, v)
    BY <2>1 DEF FirstHalf
  <2> DEFINE m == [Store(s, lf) EXCEPT !.ops = NoOps]
             ops == Store(s, lf).ops
             e == Extra(m, x, op, v)
             d == <<r, ExtraData(m, x, op)>>
  <2>4. Path(m, 0) /\ ops = Share
    BY <2>2, StoreFresh, StorePads DEF Affordable, Share
  <2>5. FinishExtra(e, ops, d)
    BY <2>3 DEF SecondHalf
  <2> HIDE DEF m, ops
  <2>6. Affordable(e)
    BY <2>4, ExtraAffordable
  <2> HIDE DEF e, d
  <2>7. PICK g : CommitBoth(Store(e, g), ops, d)
    BY <2>5 DEF FinishExtra
  <2>8. Store(e, g).ops = Share /\ "ops" \in DOMAIN Store(e, g)
    BY <2>6, StorePads, StoreIsRecord DEF Share, Affordable
  <2> QED  BY <2>4, <2>7, <2>8, SharesAdd
<1> QED  BY <1>2, <1>3

(* Every complete call, one by one. *)
LEMMA CallHides ==
    ASSUME RemoveUnsplit, conf \in DOMAIN Configs, Call
    PROVE  RoundsHidden'
<1>1. Path(Start, 0) /\ Affordable(Start)
  <2>1. Path(Start, 0) /\ Keeps(Start, Start)
    BY StartPath DEF Keeps
  <2> QED  BY <2>1, PathWalked, WalkedAffordable
<1>2. ASSUME NEW k \in UsedKeys, NEW u, Search(k, u) PROVE RoundsHidden'
  <2> DEFINE s == Searched(Start, k, u)
  <2>1. Start.root = root
    BY DEF Start
  <2>2. PICK r : Finish("search", s, r)
    BY <1>2, <2>1 DEF Search, FinishSearch, Searched
  <2>3. Affordable(s)
    BY <1>1, SearchedAffordable
  <2> HIDE DEF s
  <2> QED  BY <2>2, <2>3, FinishHides
<1>3. ASSUME NEW k, NEW v, Insert(k, v) PROVE RoundsHidden'
  <2>1. PICK leaf : Finish("insert", Inserted(Start, k, v, leaf), <<>>)
    BY <1>3 DEF Insert
  <2>2. Affordable(Inserted(Start, k, v, leaf))
    BY <1>1, InsertedAffordable
  <2> QED  BY <2>1, <2>2, FinishHides
<1>4. ASSUME NEW k \in UsedKeys, Remove(k) PROVE RoundsHidden'
  <2>1. Finish("remove", Removed(Start, k), <<>>) /\ "remove" \in Calls
    BY <1>4 DEF Remove
  <2>2. Split = 0
    BY <2>1, ObjectBuilt DEF RemoveUnsplit, Calls
  <2>3. Affordable(Removed(Start, k))
    BY <1>1, <2>2, UsedKeysReal, RemovedAffordable
  <2> QED  BY <2>1, <2>3, FinishHides
<1>5. PadToBudget(Start).ops = Share
  BY <1>1, PaddedToBudget DEF Share
<1>6. ASSUME DummyAccess PROVE RoundsHidden'
  <2>1. Commit("dummy", PadToBudget(Start), <<>>)
    BY <1>6 DEF DummyAccess
  <2> QED  BY <1>5, <2>1, CommitHides
<1>7. ASSUME PartialDummyAccess PROVE RoundsHidden'
  <2>1. CASE Split = 0
    <3>1. Commit("dummy", PadToBudget(Start), <<>>)
      BY <1>7, <2>1 DEF PartialDummyAccess
    <3> QED  BY <1>5, <3>1, CommitHides
  <2>2. CASE Split # 0
    <3>1. PICK m : Commit("partial", m, <<>>)
      BY <1>7, <2>2 DEF PartialDummyAccess
    <3> QED  BY <3>1, CommitHides
  <2> QED  BY <2>1, <2>2
<1>8. ASSUME NEW k \in UsedKeys, NEW x \in UsedKeys, NEW u, NEW op \in {"s", "d", "i"}, NEW v,
             SearchPiggyback(k, u, x, op, v)
      PROVE  RoundsHidden'
  BY <1>8, PiggybackHides
<1> QED  BY <1>2, <1>3, <1>4, <1>6, <1>7, <1>8 DEF Call

(* Every complete call makes its share of accesses to each ORAM and no     *)
(* more: the walks stop at the height bound, the rebalancing after a       *)
(* delete reads two paths per node, and pad_to_budget supplies the rest.   *)
THEOREM RoundsAreHidden == RemoveUnsplit => (Spec => []RoundsHidden)
<1> SUFFICES ASSUME RemoveUnsplit PROVE Spec => []RoundsHidden
  OBVIOUS
<1>1. StepInit => RoundsInv
  BY DEF StepInit, Init, RoundsInv, RoundsHidden
<1>2. RoundsInv /\ [Next]_vars => RoundsInv'
  <2> SUFFICES ASSUME RoundsInv, [Next]_vars PROVE RoundsInv'
    OBVIOUS
  <2>1. CASE Call /\ UNCHANGED stepVars
    BY <2>1, CallKeepsObject, CallHides DEF RoundsInv
  <2>2. CASE conf' = conf /\ last' = last
    <3>1. Split' = Split /\ Budget' = Budget
      BY <2>2, SameObject
    <3> QED  BY <2>2, <3>1 DEF RoundsInv, RoundsHidden
  <2>3. CASE Step /\ UNCHANGED <<conf, ret, last>>
    BY <2>2, <2>3
  <2>4. CASE UNCHANGED vars
    BY <2>2, <2>4 DEF vars, callVars
  <2> QED  BY <2>1, <2>3, <2>4 DEF Next
<1>3. RoundsInv => RoundsHidden
  BY DEF RoundsInv
<1> QED  BY <1>1, <1>2, <1>3, PTL DEF Spec
=============================================================================
