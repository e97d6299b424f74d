------------------------------- MODULE DAOram -------------------------------
(***************************************************************************)
(* The de-amortised ORAM of da_oram.cpp.  A block has no position map      *)
(* entry: its leaf is a pseudo-random function of its key and of two       *)
(* counters, a group counter gc shared by NumIc keys and an individual one *)
(* ic.  When an ic is used up, gc is raised and all other keys of the      *)
(* group are marked (backup): their blocks still have the leaf of gc - 1.  *)
(* Every access moves one marked block of each group it passes.            *)
(*                                                                         *)
(* Tree 0 holds the data; the counters of tree t are the values of the     *)
(* blocks of tree t + 1, and those of the last tree are on the client      *)
(* (on_chip_).  A leaf is represented by the counters it is computed from, *)
(* so the results hold for every pseudo-random function.  A block is       *)
(* certain to be found when the path of its leaf is read; otherwise it may *)
(* or may not be (another path, the stash).                                *)
(***************************************************************************)
EXTENDS Integers, FiniteSets

CONSTANTS
    NumIc,         \* num_ic_: keys per counter block
    IcMax,         \* ic_max_
    NumLevels,     \* num_pos_levels_
    Size,          \* Size[0] = num_data_, Size[t] = level_sizes_[t - 1]
    PmKeys,        \* PmKeys[k][t]: the block of tree t on the way to data key k
    MaxGc          \* bound: no access begins after a gc has passed it

Trees     == 0 .. NumLevels
KeysOf(t) == 0 .. Size[t] - 1
Offsets   == 0 .. NumIc - 1
Group(k)  == k \div NumIc
Offset(k) == k % NumIc
Groups(t) == 0 .. (Size[t] + NumIc - 1) \div NumIc - 1

(* The constructor's geometry.  ic is a byte; with fewer increments than   *)
(* keys per group the marked blocks could not be moved in time (DaOstOmap  *)
(* uses 64 and 64, the tests 4 and 4).                                     *)
ASSUME CounterAssumption ==
    NumIc \in Nat \ {0} /\ IcMax \in NumIc .. 256

ASSUME GeometryAssumption ==
    /\ NumLevels \in Nat /\ MaxGc \in Nat
    /\ Size \in [Trees -> Nat \ {0}]
    /\ \A t \in 1 .. NumLevels : Size[t] = (Size[t - 1] + NumIc - 1) \div NumIc
    /\ \A k \in KeysOf(0) :
        /\ PmKeys[k][0] = k
        /\ \A t \in Trees : PmKeys[k][t] \in KeysOf(t)
        /\ \A t \in 1 .. NumLevels : PmKeys[k][t] = Group(PmKeys[k][t - 1])

VARIABLES
    cb,            \* cb[t][g]: counter block of group g of tree t
    leaf,          \* leaf[t][k]: the counters that block k's leaf was computed from;
                   \* of a block with several copies, the leaf one of them got last
    step, pb,      \* step_ and pb_step_: main and piggybacked access
    tree,          \* the tree the next round reads, -1 when the rounds are done
    copied,        \* the data keys of whose block a copy was ever left behind
    status         \* "ok", or the exception that ended the behaviour

davars == <<cb, leaf, step, pb, tree, copied, status>>

NoKey == -1
None  == <<0, 0>>

(* An access that has computed the leaves of its next round: of its block  *)
(* (cur, and the leaf it will get, new) and of the marked block that is    *)
(* moved with it (rkey, rcur, rnew).                                       *)
Idle  == [on |-> FALSE, dummy |-> FALSE, key |-> 0, cur |-> None, new |-> None,
          rkey |-> NoKey, rcur |-> None, rnew |-> None]
Dummy == [Idle EXCEPT !.on = TRUE, !.dummy = TRUE]

-----------------------------------------------------------------------------
(* Counters.                                                               *)

(* The counters that stand for the leaf of the key at offset o. *)
Tag(b, o) == <<IF b.backup[o] THEN b.gc - 1 ELSE b.gc, b.ic[o]>>

(* Mutant: a used-up counter does not mark the other keys of its group. *)
update_counter_in_NoBackup(b, o) ==
    IF b.backup[o] THEN [b EXCEPT !.ic[o] = 0, !.backup[o] = FALSE]
    ELSE IF b.ic[o] + 1 >= IcMax
    THEN [b EXCEPT !.gc = @ + 1, !.ic[o] = 0]
    ELSE [b EXCEPT !.ic[o] = @ + 1]

(* Mutant: a used-up counter starts again in the same generation. *)
update_counter_in_SameGc(b, o) ==
    IF b.backup[o] THEN [b EXCEPT !.ic[o] = 0, !.backup[o] = FALSE]
    ELSE IF b.ic[o] + 1 >= IcMax THEN [b EXCEPT !.ic[o] = 0]
    ELSE [b EXCEPT !.ic[o] = @ + 1]

update_counter_in(b, o) ==
    IF b.backup[o] THEN [b EXCEPT !.ic[o] = 0, !.backup[o] = FALSE]
    ELSE IF b.ic[o] + 1 >= IcMax
    THEN [gc     |-> b.gc + 1,
          ic     |-> [b.ic EXCEPT ![o] = 0],
          backup |-> [i \in Offsets |-> i # o \/ b.backup[i]]]
    ELSE [b EXCEPT !.ic[o] = @ + 1]

(* The marked offsets of group g that belong to a key of tree t. *)
Marked(b, t, g) == {i \in Offsets : b.backup[i] /\ g * NumIc + i \in KeysOf(t)}

(* Mutant: the block that is moved stays marked. *)
perform_reset_in_StaysMarked(b, t, g) ==
    IF Marked(b, t, g) = {}
    THEN {[cb |-> b, key |-> NoKey, cur |-> None, new |-> None]}
    ELSE {[cb  |-> [b EXCEPT !.ic[i] = 0],
           key |-> g * NumIc + i, cur |-> Tag(b, i), new |-> <<b.gc, 0>>] :
            i \in {j \in Marked(b, t, g) : \A m \in Marked(b, t, g) : j <= m}}

(* The first marked key moves into the current generation.  The set has    *)
(* one element.                                                            *)
perform_reset_in(b, t, g) ==
    IF Marked(b, t, g) = {}
    THEN {[cb |-> b, key |-> NoKey, cur |-> None, new |-> None]}
    ELSE {[cb  |-> [b EXCEPT !.ic[i] = 0, !.backup[i] = FALSE],
           key |-> g * NumIc + i, cur |-> Tag(b, i), new |-> <<b.gc, 0>>] :
            i \in {j \in Marked(b, t, g) : \A m \in Marked(b, t, g) : j <= m}}

(* The access to data key k reaches the counters of tree t: what they      *)
(* become, and the access with the leaves to be read in tree t.            *)
Counted(cbs, k, t) ==
    LET key == PmKeys[k][t]
        old == cbs[t][Group(key)]
        upd == update_counter_in(old, Offset(key))
    IN  {[cbs |-> [cbs EXCEPT ![t][Group(key)] = r.cb],
          op  |-> [on |-> TRUE, dummy |-> FALSE, key |-> k,
                   cur |-> Tag(old, Offset(key)), new |-> Tag(upd, Offset(key)),
                   rkey |-> r.key, rcur |-> r.cur, rnew |-> r.new]] :
            r \in perform_reset_in(upd, t, Group(key))}

-----------------------------------------------------------------------------
(* Rounds.                                                                 *)

Works(op)     == op.on /\ ~op.dummy
Target(op, t) == PmKeys[op.key][t]

(* The blocks an access looks for in tree t, and the paths it reads for    *)
(* them.  The other paths are random.                                      *)
Wanted(op, t) ==
    IF ~Works(op) THEN {} ELSE {Target(op, t)} \cup ({op.rkey} \ {NoKey})

Asks(op, t) ==
    IF ~Works(op) THEN {}
    ELSE {<<Target(op, t), op.cur>>}
         \cup (IF op.rkey = NoKey THEN {} ELSE {<<op.rkey, op.rcur>>})

(* The leaves after an access has given its blocks their new ones. *)
Moved(lf, op, t, found) ==
    IF ~Works(op) THEN lf
    ELSE [k \in DOMAIN lf |->
            IF k = op.rkey /\ k \in found THEN op.rnew
            ELSE IF k = Target(op, t) THEN op.new ELSE lf[k]]

(* The next tree's counters, found in the block of this one. *)
Below(cbs, op, t) ==
    IF Works(op) THEN Counted(cbs, op.key, t - 1) ELSE {[cbs |-> cbs, op |-> op]}

Unchanged == UNCHANGED <<cb, leaf, step, pb, tree, copied>>

(* The blocks of tree t that may have several copies: only the data tree   *)
(* is ever written with fewer paths than were read.                        *)
Copied(t) == IF t = 0 THEN copied ELSE {}

(* DaOstOmap calls piggyback_finish before step_get_writes, so the last    *)
(* round writes the main access's paths only: blocks that were read from   *)
(* the piggyback's paths stay on the server too.  Of a block with several  *)
(* copies step_apply_reads keeps the one it meets first, which need not be *)
(* the one whose leaf was read; it may be found or not.                    *)
DataRound(found) ==
    /\ leaf' = [leaf EXCEPT ![0] = Moved(Moved(@, step, 0, found), pb, 0, found)]
    /\ \E left \in SUBSET {k \in KeysOf(0) : pb.on /\ <<k, leaf[0][k]>> \notin Asks(step, 0)} :
          copied' = copied \cup left
    /\ UNCHANGED <<cb, step, pb>>

CounterRound(found) ==
    \E m \in Below(cb, step, tree) : \E p \in Below(m.cbs, pb, tree) :
        /\ leaf' = [leaf EXCEPT
            ![tree] = Moved(Moved(@, step, tree, found), pb, tree, found)]
        /\ cb' = p.cbs /\ step' = m.op /\ pb' = p.op
        /\ UNCHANGED copied

(* One level of traverse_pos_maps, or one round of the step interface:     *)
(* read the paths, advance main access and then piggyback, write.  A block *)
(* that is not found ends the access with an exception.                    *)
Round ==
    LET asked   == Asks(step, tree) \cup Asks(pb, tree)
        wanted  == Wanted(step, tree) \cup Wanted(pb, tree)
        certain == {k \in wanted \ Copied(tree) : <<k, leaf[tree][k]>> \in asked}
        targets == {Target(op, tree) : op \in {o \in {step, pb} : Works(o)}}
    IN  /\ status = "ok" /\ step.on /\ tree >= 0
        /\ \E found \in SUBSET wanted :
            /\ certain \subseteq found
            /\ IF targets \subseteq found
               THEN /\ IF tree = 0 THEN DataRound(found) ELSE CounterRound(found)
                    /\ tree' = tree - 1 /\ status' = status
               ELSE status' = "missing" /\ Unchanged

(* An eviction finds the stash too full (when that can happen is PathORAM's *)
(* matter).                                                                *)
Overflow == status = "ok" /\ step.on /\ tree >= 0 /\ status' = "overflow" /\ Unchanged

-----------------------------------------------------------------------------
(* Calls.  A local access is a stepped one without piggyback.              *)

Ready == status = "ok" /\ ~step.on
MayBegin == Ready /\ \A t \in Trees : \A g \in Groups(t) : cb[t][g].gc <= MaxGc

begin_step_access(k) ==
    /\ MayBegin
    /\ \E c \in Counted(cb, k, NumLevels) : cb' = c.cbs /\ step' = c.op
    /\ tree' = NumLevels
    /\ UNCHANGED <<leaf, pb, copied, status>>

begin_step_dummy ==
    /\ MayBegin
    /\ step' = Dummy /\ tree' = NumLevels
    /\ UNCHANGED <<cb, leaf, pb, copied, status>>

MayPiggyback == status = "ok" /\ step.on /\ ~pb.on /\ tree = NumLevels

begin_piggyback_access(k) ==
    /\ MayPiggyback
    /\ \E c \in Counted(cb, k, NumLevels) : cb' = c.cbs /\ pb' = c.op
    /\ UNCHANGED <<leaf, step, tree, copied, status>>

begin_piggyback_dummy ==
    /\ MayPiggyback
    /\ pb' = Dummy
    /\ UNCHANGED <<cb, leaf, step, tree, copied, status>>

(* step_finish and piggyback_finish, without a value, as they are called. *)
step_finish ==
    /\ status = "ok" /\ step.on /\ tree = -1
    /\ step' = Idle /\ pb' = Idle
    /\ UNCHANGED <<cb, leaf, tree, copied, status>>

FreshBlock == [gc |-> 0, ic |-> [i \in Offsets |-> 0],
               backup |-> [i \in Offsets |-> FALSE]]

Init ==
    /\ cb = [t \in Trees |-> [g \in Groups(t) |-> FreshBlock]]
    /\ leaf = [t \in Trees |-> [k \in KeysOf(t) |-> <<0, 0>>]]
    /\ step = Idle /\ pb = Idle /\ tree = -1
    /\ copied = {} /\ status = "ok"

Next ==
    \/ \E k \in KeysOf(0) : begin_step_access(k)
    \/ begin_step_dummy
    \/ \E k \in KeysOf(0) : begin_piggyback_access(k)
    \/ begin_piggyback_dummy
    \/ Round
    \/ step_finish
    \/ Overflow

Spec == Init /\ [][Next]_davars

-----------------------------------------------------------------------------
(* Properties.                                                             *)

Tags == Nat \X (0 .. IcMax - 1)

CounterBlocks == [gc : Nat, ic : [Offsets -> 0 .. IcMax - 1],
                  backup : [Offsets -> BOOLEAN]]

Later(a, b) == a[1] > b[1] \/ (a[1] = b[1] /\ a[2] > b[2])

(* No access, and no piggyback on it, misses a counter block, and none     *)
(* misses a data block of which no piggyback left a copy behind: main      *)
(* access and piggyback may pass the same counter blocks, want the same    *)
(* block, or move each other's blocks (da_oram.cpp, step_process).         *)
BlocksFound ==
    status = "missing" =>
        tree = 0 /\ \E op \in {step, pb} : Works(op) /\ op.key \in copied

(* Between accesses every block of every tree, moved or marked, has the    *)
(* leaf its counters stand for: the two resets of a shared round and the   *)
(* update of a counter that is used up leave no block behind.  Copies of   *)
(* data blocks are excepted.                                               *)
LeavesCounted ==
    Ready => \A t \in Trees : \A k \in KeysOf(t) \ Copied(t) :
                leaf[t][k] = Tag(cb[t][Group(k)], Offset(k))

(* A block never gets the counters of an earlier leaf back, so the paths   *)
(* it is read from are computed from inputs that are never used twice.     *)
(* Copies of data blocks are excepted: a copy has an earlier leaf.         *)
LeavesFresh ==
    [][\A t \in Trees : \A k \in KeysOf(t) \ Copied(t) :
        leaf'[t][k] # leaf[t][k] => Later(leaf'[t][k], leaf[t][k])]_davars

(* A marked block is moved before the next counter of its group can be     *)
(* used up: counters of unmarked keys are behind the first marked offset.  *)
ResetInTime ==
    \A t \in Trees : \A g \in Groups(t) : \A i \in Marked(cb[t][g], t, g), o \in Offsets :
        ~cb[t][g].backup[o] => cb[t][g].ic[o] < i
=============================================================================
