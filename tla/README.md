# TieredOMap: TLA+ models, model checking and proofs

TieredOMap is a client-side key-value map on top of oblivious storage. This
directory holds TLA+ modules that model its core, the TLC configurations that
check them on small instances, and theorems checked by TLAPS for instances of
any size. Every definition is translated from the code; `PROJECT.json` maps the
definitions to source lines.

## 1. The system

| Part | State | Operations | Talks to |
|---|---|---|---|
| `TieredOMap` (`src/src/tiered_omap.cpp`) | key sets (`hot_keys_`, `phys_hot_keys_`, `hot_key_list_`), client cache, one pending entry, DA demotion queue | `init`, `access`, `promote`, `demote`, `enable_maintenance`, `export_state` | two OMAPs, the data ORAM, the maintenance manager |
| `MaintenanceManager` (`maintenance.h`) | access counter, cache entries with their frequency `fp`, swap state, scan pointer | `tick`, `update_meta`, `cache_admit`, the three phase triggers | called by `TieredOMap` |
| `PathORAM` + `BinaryTreeStorage` | bucket tree, stash, position map | `init`, `access`, `dummy_access`, extract/give back, `prepare_eviction(_paths)` | its storage (local tree or TCP) |
| AVL OMAP, B+ OMAP | search tree whose nodes are ORAM blocks, `local_` nodes in flight | `search`, `insert`, `remove`, step machine with piggybacked second operation | one or two `PathORAM`s |
| DAORAM (`da_oram.cpp`) | data tree, position-map trees, counter blocks | `access`, `dummy_access`, step machine with a piggybacked second access | `PathORAM` for the position maps |
| `DaOstOmap` | a DAORAM access per operation, cached tree roots, an OMAP that holds all trees | the OMAP operations, and a piggybacked scan | DAORAM, AVL or B+ OMAP |
| Interleaved access | the step machines of both tiers and of the data ORAM | one loop of batched rounds per request | TCP channel |
| Network: `NetworkStorage`, `TcpChannel`, `StorageServer` | client objects with cached store id and geometry; messages under way; per connection a map of stores and the next id | create, reset, load, read/write paths, batches, destroy, set-up of a benchmark | one request and one answer at a time over TCP; one server thread per connection |
| TEE | `EnclaveOram`, `TeeAvlOmap`, `TeeOmap`, `PackedDirectory`, `TeeServer` | the same map inside an enclave | a network front end |

A record's payload lives in one block of the data ORAM. A key's *reference* (the
block id) lives in exactly one home: the hot OMAP, the cold OMAP, the client's
cache, or the pending slot. With maintenance on, a request may trigger a swap: a
cold key that was used more often than a cache entry takes its place and the
evicted entry waits in the pending slot until step B3 inserts it into the cold
OMAP; a scanned hot key that was used less often than a cache entry takes its
place and the evicted entry waits for step B2, which inserts it into the hot
OMAP. Frequencies are kept in a trailer behind each payload.

What is hard to test: a swap stretches over many accesses, and the key in
transit can be requested, the next scan can fall due, and maintenance can be
switched on, at any point of it; the client consults key sets it keeps beside
the OMAPs; cached frequencies can be stale; the ORAM's eviction depends on
random leaves and on the iteration order of an unordered map; a tree node's leaf
is recorded in its parent and changes with every read, while rotations, splits and
merges move the pointers; over TCP two operations share the nodes in flight of one
tree, and two swap decisions can fall into one access; a DAORAM knows where a block is
only from counters that two accesses advance in the same rounds; the number of accesses a
call makes must not depend on the data; exceptions leave state half changed; a
connection can break, or a receive time out, at any point of
a call. `PROJECT.json` lists the hazards at their lines.

## 2. Modules

| Module | Role |
|---|---|
| `KeyValueMap` | what `TieredOMap::access` promises: a map with one operation |
| `TieredOMap` | the client in local mode with its maintenance |
| `InterleavedAccess` | the client over TCP: extends `TieredOMap` by the interleaved branches of `access` |
| `InterleavedAccessProofs` | theorems about `InterleavedAccess` |
| `InterleavedRounds` | the loop of `interleaved_access` and the data ORAM's three paths in it |
| `InterleavedRoundsProofs` | theorems about `InterleavedRounds` |
| `MCTieredOMap`, `MCInterleavedAccess` | function-valued constants and the clients for TLC |
| `OmapInterface` | what an OMAP promises: a dictionary |
| `AVLTree` | nodes, `local_` and the operators all AVL operations are made of |
| `AVLOmap` | AVL OMAP, calls that run to completion |
| `AVLSteps` | AVL OMAP, the round-by-round and piggyback interface |
| `AVLProofs` | theorems about the accesses of `AVLOmap` and `AVLSteps` |
| `BPlusOmap` | B+ OMAP, calls that run to completion |
| `BPlusProofs` | a theorem about the accesses of `BPlusOmap` |
| `MCAVLSteps`, `MCBPlusOmap` | the objects and their callers for TLC |
| `TieredOMapProofs` | theorems about `TieredOMap` |
| `BlockStore` | what a `PathORAM` promises: a memory of blocks |
| `PathORAM` | tree, stash and position map, with the callers' protocol |
| `PathORAMProofs` | theorems about `PathORAM` |
| `DAOram` | the de-amortised ORAM: counters, resets, main access and piggyback |
| `MCDAOram` | sizes for TLC |
| `DAOramProofs` | theorems about `DAOram` |
| `BinaryTreeStorage` | a server-side store and its operations, as functions |
| `StorageInterface` | what the ORAMs rely on: a set of stores, one call at a time |
| `NetworkStorage` | client objects, the TCP channel they share, and the server thread |
| `MCNetworkStorage` | shapes and blocks for TLC |
| `NetworkStorageProofs` | theorems about `NetworkStorage`; that it implements `StorageInterface` |

Four modules look at several instances of their component in one run. Which one it
is, is chosen in the initial state and never changes: `mode` in `InterleavedAccess`
(with or without TCP, kind of OMAP, security mode, piggybacking), `conf` in
`AVLTree` and `BPlusOmap` (the constructor's arguments and what the caller does with
the object) and `timed` in `NetworkStorage` (was a receive timeout set?).

### TieredOMap

The variables are the fields of `TieredOMap` and `MaintenanceManager` (comments
beside `VARIABLES` give the names). The OMAPs are functions from keys to
references, the data ORAM a function from block ids to payload and trailer:
`PathORAM` shows that this is what the data ORAM offers. Dummy accesses change
none of this state and are left out.

`access` is two consecutive steps of the single-threaded client. `AccessPending`,
`AccessCached`, `AccessSequential` and `AccessStatic` are the branches of the
code up to the staggered maintenance; `Return` takes the maintenance step that
is due (`do_scan_step`, `do_hot_insert_step`, `do_cold_insert_step`) and returns.
`promote`, `demote` and `enable_maintenance` are actions of their own; while
maintenance is on they happen only if `MixMoves` is TRUE. The repository never
makes such a call, and every run keeps it FALSE.

Data is abstracted to what the properties tell apart. A payload is a model value;
a block stored before maintenance was on has no trailer (`NoMeta`), and `Decode`
does to it what `decode_epoch` does: a short payload survives, a long one loses
its end (`Cut`), and its counters are what the last 12 bytes of the payload read as
(`TailOf`, any counters). `TrailersAgree` says that no such block is met. Which of several cache entries with the same `fp` is evicted is
left open, and so is the key a DA position's tree has at its root. `hotList` is a
set because the code keeps the vector sorted.

### PathORAM

`Path` is the index arithmetic of `BinaryTreeStorage`: `UpFrom` is the loop of
`get_path_indices`. `Placements(S, leaves)` is
the set of outcomes of `fill_block_to_path` over all orders of the blocks: a
block is in the deepest bucket with room on both its own path and the paths being
written, so every deeper bucket it could have had is full. `Evict` also has the
overflow, thrown after the stash was replaced and before the tree is written.
`access` and `dummy_access` are the data ORAM's operations; `Extract`, `GiveBack`,
`AddNew` and `Drop` are the steps in which the OMAPs use an ORAM. With
`PairRounds` a round reads and evicts a second path with the first, merged as the
OMAPs' step machines do it. A behaviour ends with the first exception. Encryption
is the identity on what is read back and is left out.

### DAOram

A DAORAM has no map from blocks to leaves. A leaf is a pseudo-random function of the
key and of two counters, `gc` of the key's group and its own `ic`; when an `ic` is
used up, `gc` is raised and the other keys of the group are marked as still being in
the generation before. Each access moves one marked block of every group it passes.
The counters of tree `t` are the values of the blocks of tree `t + 1`; those of the
last tree are on the client.

The model keeps the counters (`cb`) and, for every block, the counters its leaf was
computed from (`leaf`): nothing depends on the function, and a collision of two
leaves can only help. A block is found for certain if the path of its leaf is read;
otherwise it may or may not be, because it can be in the stash or on a shared part
of another path. `Round` is one level of `traverse_pos_maps` or one round of the step
interface: `step_get_reads`, `step_apply_reads`, `step_process` for main access and
then piggyback, `step_get_writes`. A local `access` or `dummy_access` is the same
rounds without a piggyback. The first exception ends a behaviour; stash and
buckets, and with them the overflow, are `PathORAM`'s matter. Values are left out:
no caller writes one.

`DaOstOmap` finishes a piggyback before it asks for the last round's writes, so this
round reads both accesses' paths in the data tree and writes the main access's only: a
block taken from a piggyback's path stays on the server as well (`DataRound`). `copied`
holds the data blocks of which a copy may have stayed behind. When such a block is read
again, the code keeps whichever copy it meets first, and the leaf it then has is the one
of that copy; so in the model it may be found or not, and nothing is claimed of its leaf
(section 4). No caller has a piggyback in any other order.

### AVLTree, AVLOmap, AVLSteps

An ORAM is a map from a key to its leaf and node (`PathORAM` shows that it is one).
A node is found only under the leaf its parent records: `Extract` sets `bad`
otherwise. This is stricter than the code, which also finds a block that happens
to be in the stash; a pointer that is right only by luck counts as wrong. An
operation works on a record of both ORAMs, the root and `local_`, and counts its
accesses per ORAM. `MaxHeight` and the split follow the constructor.

In `AVLOmap` a call is one action of the single client thread; `random_leaf` is a
choice. `Insert` is called with absent keys and below the capacity, as `TieredOMap`
does. `remove` keeps its two phases: the walk with renaming to the successor and
unlinking (`Deleted`), and the way back with its reads and rotations (`BackUp`).
`search_piggyback` is a search followed by a second operation on the tree it left;
on an empty tree the code does neither, and the modelled caller does not insert then.

`AVLSteps` extends `AVLOmap`: an object is used by complete calls or by stepped
accesses. A round is one action: `step_next_round` chooses the path, the batch
is read, `step_process` advances main operation and piggyback, and the path is
written. `ss`, `pb` and `local` persist between rounds. `kv` and `want` are
histories of what the calls should have stored and should return.

### BPlusOmap

Nodes have ids; an internal node records id and leaf of each child. `Traverse` is
`traverse_with_siblings`; `Inserted` has the split of a leaf (an internal
node that becomes too wide stays so: `split_internal` has no caller), `Underflow`
borrowing and merging, `Collapse` the root that has one child left;
`ReassignAllLeaves` corrects the parents it finds, as the code does, and no others.
`max_height_` is given with the object. There are calls after which the code leaves an
outdated pointer: a root leaf is split; the root gives way to a node that is not in
`local_`, or, with two ORAMs, to any node; an internal node is merged into its left
sibling. `forgotten` records that one of them was made, and `Outdated` that more than one
leaf or two ORAMs make it matter; what is said of pointers is said until then (section 4).
An object that has thrown takes no further calls.

### InterleavedAccess, InterleavedRounds

`InterleavedAccess` treats the OMAPs as maps, like `TieredOMap`, and one
interleaved access as one action. `Carried` is what rides on the rounds, `Scanned`,
`HotInserted`, `ColdInserted` and `Promoted` what the caller does with the outcome,
in the code's order. That the OMAPs are maps is what `AVLSteps` checks of operations
that have the rounds to themselves. A walk that rides along leaves nodes in `local_`
which the next operation clears; which keys are lost with them depends on the shape of
the tree, so `Remains` leaves any set of keys. This is what an AVL OMAP is after a
piggybacked scan or insert; a B+ insert is kept if the main search is in the
same tree (`InsertedBeside`). The two modules look at different
mistakes.
A client without TCP takes the steps of `TieredOMap`. `hung` is set where the loop cannot end because a scan found nothing. `Reload` is
`export_state` and `from_state` as the benchmark set-up uses them: before
maintenance is on.

`InterleavedRounds` is the loop. The rounds in which the OMAPs know the references
of the searched and of the scanned key are chosen from `MainRounds` and
`ScanRounds`; what the OMAPs do in between is left out. Stash entries carry a copy
number, because blocks read twice are there twice.

### NetworkStorage

`handle` holds the client's `NetworkStorage` objects, `stores` and `next_id` the
`ClientState` of the connection, `toServer` and `toClient` the messages under way.
Connections share nothing on the server, so one is modelled. A call is three
steps: the client action (`Construct`, `ReadPath`, `BatchWrite`, ...) sends the
request, `Dispatch` is the server's handling of it (one operator per message
type), and `Receive` takes the next message for the answer. In between the
connection may be lost (`Lose`), noticed by the caller in `Disconnected`, and,
if `timed`, the wait may end with `Timeout`, which leaves connection
and messages as they are. An answer keeps the layout by which it is parsed; if a
call gets an answer of another layout (`Misparse`), the code reads past the
payload, so the result is garbage or the client dies. `LocalStore` is a store that
is not on the server, with `store_id()` -1: a batch can name it. A batch has two
requests, of which either may be refused; the server's loop over them is `WriteOne`,
twice.

Messages are delivered whole. A timeout in the middle of a message and the framing
are left out. Sending into a dead connection throws; on platforms with SIGPIPE the
process would be killed first. `SETUP_BENCH` is sent by the benchmarks when the
objects of the previous map are gone, and its answer is read without testing
whether it came; a lost connection there counts as a throw. What the built map
contains is left open (`LoadSeqs`); that it is registered under the ids 0, 1, ...
and named to the client is modelled.

## 3. Runs

| Run | Checks | Result |
|---|---|---|
| `access` | all safety properties of the client with maintenance on: local; TCP with B+ OMAPs in tier-membership mode; TCP with AVL OMAPs | pass |
| `late` | static use, explicit moves, export and restore, `enable_maintenance`, and AVL OMAPs with maintenance from the start; two payloads: homes and key sets, refinement of `KeyValueMap` | pass |
| `late_long` | late maintenance with long payloads | violated |
| `daoram` | DAORAM, with piggybacks finished as `DaOstOmap` does: blocks are found, leaves and counters agree, no leaf comes back, but for data blocks of which a copy stayed behind | pass |
| `da_lost` | DA hot backend: is every record reachable? | violated |
| `interleaved_both` | B+ OMAPs with piggybacking: two swap decisions in one access | violated |
| `rounds` | the loop of rounds, data paths in different rounds: blocks intact, answers right, the loop ends | pass |
| `oram` | the Path ORAM invariant, no missing block, no wasted room, refinement of `BlockStore` | pass |
| `avl` | complete calls and stepped accesses: tree, pointers, heights, equal cost, answers, refinement of `OmapInterface` | pass |
| `bplus` | all calls, on up to four levels: pointers (until a call leaves one outdated), separators, equal cost, refinement of `OmapInterface` | pass |
| `net` | every call over a connection that may break, refinement of `StorageInterface`; with receive timeouts too, every call comes back | pass |
| `net_late` | with receive timeouts, does a caller get its own answer? | violated |

The properties, with the mistakes they would catch:

- `NoRecordLost`: an access to any stored key is led to the block `init` gave it.
- `OneHome`, `BooksAgree`, `HomesKept` (both, for clients without piggybacking): no key in two homes; the key sets say what the OMAPs,
  the cache and the pending slot hold.
- `CacheFpCurrent`, `SwapImproves`: evictions act on current frequencies, and a
  swap always exchanges an entry for a strictly better one.
- `PendingInsertedInTime`: an evicted entry is back in an OMAP in less than one
  swap interval. This bounds the wait, so no fairness is needed.
- `SizesKept`: swaps are one for one, so the hot OMAP's capacity suffices.
- `RefinesKeyValueMap`: each call reads and writes the map as if there were no
  tiers. A write may be answered with the old or the new payload: the static path
  returns the old one, the dynamic path the new one.
- `LoopEnds` (liveness): the loop of rounds ends, if the OMAPs' walks do.
- `DataIntact`, `DataFound`, `DataAnswered`: one copy of each block with its last
  value, found where its leaf says after it was remapped a round earlier, and the
  answer is that value.
- `NeverThrows`: every node is in the ORAM and under the leaf
  that its parent and its depth say; in a B+ tree, until a call leaves a pointer
  outdated. `TreeIntact` and `SearchReaches` have the same limit there.
- `TreeIntact`, `HeightsBalanced`: the nodes in the ORAMs form one
  tree in order, with the recorded heights its real ones and balanced.
- `SearchReaches`: the separators of a B+ tree lead to each stored key's leaf.
- `RoundsHidden`, `ReadsHidden`: the accesses per ORAM are the same whatever the
  operation and whatever the tree.
- `Dictionary`, `StepAnswers`: the caller sees a dictionary; a search in rounds
  returns what was stored.
- `NothingLeftInLocal`: after an access all nodes are in an ORAM again (stated of
  accesses without a piggyback that walks; section 4 says why).
- `PathInvariant`, `NeverMissing`: one copy of each block, where `access` looks.
- `OverflowOnlyWhenFull`: reading and evicting a path never leaves more blocks in
  the stash than before, apart from the block `access` moves to a new leaf.
- `ImplementsBlockStore`: the caller reads what it wrote last, up to an overflow.
- `BlocksFound`: no access and no piggyback of a DAORAM misses a counter block, also when
  both count in one, want one block, or reset blocks of one group; nor a data block,
  unless a copy of it stayed behind.
- `LeavesCounted`: between accesses every block is where its counters say; a block
  that was forgotten by a reset would be noticed here long before it is asked for.
- `LeavesFresh`: a block never gets the counters of an earlier leaf again. Both except
  data blocks of which a copy stayed behind.
- `AnswerIsOwn`, and `AnswersInStep` for channels without timeout: the answer a
  caller takes is the only message under way, so it is the answer to its request.
- `HandlesBacked`, `NoOrphanStore`: between calls, the objects name distinct stores
  with the geometry they have cached, and the server keeps no other store, although
  set-ups give out the same ids again.
- `ImplementsStorageInterface`: a call takes effect once and returns what that
  effect computed; in a batch the later write wins, and a bad id stops it after the
  writes before; after a loss every call throws.
- `CallsReturn` (liveness): each call ends, with a result or an exception.

Bounds. `access` has five keys (one not stored), three hot ones, two of them
cached, windows of 2 and intervals of 4 accesses, and 10 accesses: three windows,
so frequencies rise and decay, and two full intervals, so a swap in each
direction completes and the next scan meets an open one. `late` has four keys, a
cache of one and intervals of 3; the two clients that use the map before maintenance get
5 accesses after it, the third 8. None of them has the piggyback option. `da_lost` needs 14 accesses. It is the only
run with a DA hot backend; `TypeCorrect` and `OneTrigger` alone are claimed for it. `MaxAccesses` and the
clients' `max` bound the counter, and there is nothing to do after it; that is the
only reason deadlock checking is off in these runs. The ORAM run has buckets of one
block and a stash limit of one, so that full buckets, a full stash and the overflow
are reached with three blocks on two levels; its behaviours really end, with an
exception. The proofs cover the larger trees.

The DAORAM run has four data keys in groups of three, one group not full, below one
level of two counter blocks; counters are used up after three accesses. `MaxGc` = 1
lets every group go through two generations, with all blocks of the first moved.
Behaviours stop there, or with an exception, which is why deadlock is not checked.
Piggybacks that leave copies behind are in all of them.
The proofs cover all other sizes.

The network runs have two objects, so that ids and batches can be confused, one
block and buckets of one, so that a second load finds no room, and without timeouts
trees of one and two levels, so that a reset changes the geometry. `MaxIds` bounds
the ids before the next set-up, `MaxLate` the answers left behind by timeouts: one
is enough to shift every later answer. With timeouts all shapes have one level
(assumed in the module), because an object may then cache the level of another
store and the code would index an array out of range.

The tree runs are small because every node can have every leaf; two leaves are
enough to tell a current pointer from an outdated one. `avl` has seven objects, each
from every initial set of its keys: five keys have all single and double rotations,
a remove with two children and a rebalancing on the way back; four with two
payloads show the dictionary; five with a split at depth two have nodes on both
sides of it (searches and dummies, since other calls fail there); three for
`search_piggyback`; two stepped accesses in a row on three keys with one ORAM and
with two; and one access with every kind of piggyback on four. `bplus` has five
objects: order 3 on two levels with two leaves, which splits, borrows, merges, grows
from a single key and shrinks to one; index mode with the root in the upper ORAM; three
levels with all calls, where internal nodes borrow and merge; four levels of order 2
with two leaves, where removes merge internal nodes up to the root; and two payloads,
down to the empty tree. The third and the last have one leaf, as what is checked there is
structure; the fourth draws one leaf for all nodes in `init`. Deadlock is not checked,
because an object that threw takes no more calls. `rounds` has two blocks in buckets of
one on two levels, so the paths share the root and differ below; 2 and 6, 1 and 4
are rounds in which real AVL and B+ searches know their reference.

Fairness is assumed of the network and of the loop of rounds. Of the network: a caller that can receive does, a caller
whose connection is lost notices, and the server thread handles the next request.
Each is a thread that is runnable and waits for nothing else; the second stands for
TCP reporting a closed peer. Nothing is assumed of client calls, timeouts or losses.
Of the loop: the client thread takes the next round and leaves the loop when it can
(`Round`, `End`); whether it ever can is the question. Nothing is assumed of
`Begin`. Nothing else in the local client waits.

## 4. Findings

Checked by a run:

- `da_lost`: the DA scan queues a key with the `fp` it reads; the demotion happens
  accesses later with that `fp` and without a second test. By then the key itself
  can be the entry `cache_admit` evicts, and its reference is looked up before it
  was stored (`tiered_omap.cpp:574-587`). The record becomes unreachable.
- `late_long`: `enable_maintenance` on blocks without trailer cuts payloads of 12
  bytes or more (`tiered_omap.cpp:25`, `common.h:99`). The benchmark's client/server
  set-up takes this path.
- `interleaved_both`: over B+ OMAPs with piggybacking, a demotion and a promotion
  decided in one access evict two cache entries into the one pending slot
  (`tiered_omap.cpp:912`). The first is lost.
- `net_late`: a receive timeout throws but leaves the connection open and the
  answer under way (`tcp_channel.cpp:108`); the next request takes the late answer
  for its own. The benchmarks set a timeout of 300 s and go on after exceptions.

The same modules show the following when the named object or client is put into
`Configs` or `Modes`; the passing runs leave these out, or a property excepts them.

| Where | Instance | Violated |
|---|---|---|
| `AVLOmap::piggyback_commit_remove` does nothing and nobody else removes the demoted key from the hot OMAP (`avl_omap.cpp:1275`) | `Client(TRUE, "AVL", FALSE, TRUE, FALSE, 10)` with the other constants of `access` | `OneHome` |
| walks that ride along on an AVL OMAP lose keys: nodes read or made after the main search has flushed `local_` are dropped by the next operation; a later scan of a lost key never ends (`avl_omap.cpp:1005`, `:1041-1161`, `:1150`) | the same client, also with the constants of `late` | `NoRecordLost`, and `hung` becomes true |
| the same client: when the scanned key is also the accessed one, the scan's `fp` is read before the access updates it (`tiered_omap.cpp:929`) | as above | `CacheFpCurrent` |
| in tier-membership mode an insert that was not begun is reported done and the pending entry dropped (`tiered_omap.cpp:1047`) | `Client(TRUE, "AVL", TRUE, TRUE, FALSE, 10)` | `NoRecordLost` |
| `enable_maintenance` on long payloads without trailer takes counters and frequencies from the payload (`common.h:104-106`) | `late_long` with a `TailOf` that has positive frequencies | `CacheFpCurrent`, `PendingInsertedInTime` |
| two data paths in one batch are evicted one after the other; the second write of a shared bucket replaces the first (`tiered_omap.cpp:1013`) | `InterleavedRounds` with a round in both `MainRounds` and `ScanRounds` | `DataIntact` |
| `rotate` moves nodes but not `LocalNode::depth`, so a node is put back into the wrong ORAM (`avl_omap.cpp:703`) | AVL, capacity 4, split 1, 3 keys, calls search and insert | `NeverThrows` |
| in split mode `remove` exceeds the upper budget that the other operations are padded to (`avl_omap.cpp:582`) | AVL, capacity 4, split 1, 3 keys, calls search, remove and dummy | `RoundsHidden` |
| nodes a piggyback reads or creates after the main search has flushed `local_` are never put back (`avl_omap.cpp:1150`) | the last object of `MCAVLSteps`, without the exception of `pb.key` in the property | `NothingLeftInLocal` |
| in split mode a piggyback that traverses pads with upper reads only (`avl_omap.cpp:1159`) | AVL, capacity 3, split 1, piggybacked search and dummy | `ReadsHidden` |
| in split mode `upper_op_count_` counts the upper reads of a piggybacked dummy too (`avl_omap.cpp:1167`), and the padding of a main search that ends above the split takes them for its own (`avl_omap.cpp:1012`) | AVL, capacity 6, split 3, 4 keys, piggybacked search and dummy | `ReadsHidden` |
| `search_piggyback` on an empty tree returns before the extra insert (`avl_omap.cpp:1296`) | AVL, call "both", without the guard on the stored keys | `Dictionary` |
| after the split of a root leaf the new root records outdated leaves (`bplus_omap.cpp:828`) | the first object of `MCBPlusOmap`, without the exception of `Outdated` | `NeverThrows` |
| when the root gives way to its one child, `root_leaf_` is the leaf of the old root unless the child is in `local_` (`bplus_omap.cpp:657`) | as above | `NeverThrows` |
| when an internal node is merged into its left sibling, the pointers among its children are not among those that are corrected (`bplus_omap.cpp:452-478`, `:619-632`) | the fourth object, as above | `NeverThrows` |
| with two ORAMs, a root that changes moves nodes past the split, and they are put into or looked for in the other ORAM (`bplus_omap.cpp:657`, `:828`) | the second object, as above | `NeverThrows` |
| the piggyback of a DAORAM access is finished before the last round is written, so its paths are read and not written; a copy that stays behind can replace the block when both are fetched together later (`da_ost_omap.cpp:557`, `da_oram.cpp:743`) | `daoram` without the exception of copied blocks | `BlocksFound`, `LeavesCounted` |
| in a tree exactly as high as the split, a walk makes one upper access more than a dummy (`bplus_omap.cpp:324`) | B+, order 2, index mode, split 2, 3 keys | `RoundsHidden` |

## 5. Proofs

All theorems are for arbitrary constants that satisfy the `ASSUME`s of the module.

- `TypeCorrect`, `OneTrigger`: in every configuration. The second is arithmetic on
  the phases; they are distinct for every interval, because for intervals below 3
  the late phases are never reached.
- `NoRecordIsLost`, `KeysHaveOneHome`, `KeySetsAgree`, `SwapsImprove`,
  `TradesKeepSizes`: without a DA hot backend (`da_lost` shows why) and with
  `~MixMoves`. The inductive invariant is `PlaceInv`. `NoRecordLost` alone is not
  inductive: a step removes a reference from one home and stores it in another, and that
  keeps it only if the key had one home, the key sets told the truth, and the entry that
  leaves the cache was there before. `Placed` and `Metered` add this. The entry that a
  scan or promotion evicts is an old one and not the one just admitted because the
  decision compares with the same cached values as the eviction, whatever they are.
  The sizes follow from the same: an admitted key was not in the cache, the evicted one
  was.
- `CachedFpIsCurrent`: under the same assumptions and `TrailersAgree`, since
  `enable_maintenance` caches with `fp` 0 while a payload taken for a trailer can give any
  number (section 4). The part of `PlaceInv` for it is `FpRecorded`.
- `InsertedInTime`: like `CachedFpIsCurrent`, and for `SwapInterval >= 3`; below, the insertion phases never
  come. The invariant `Timely` adds that since an entry was evicted no access had the
  number at which it is inserted (`Waiting`), and that no frequency is positive
  before the first window is over (`Epochs`), so that no swap begins before the steps
  that would end it are taken. The rest is arithmetic: any `SwapInterval` numbers in a
  row include each phase.
- `ImplementsKeyValueMap`: with `TrailersAgree` too, which excludes exactly the situation
  of `late_long`.
- `InterleavedTypes`, `HomesAreKept`, `InterleavedKeepsRecords`,
  `InterleavedSwapsImprove`, `InterleavedTradesKeepSizes`,
  `InterleavedImplementsKeyValueMap`: the same over TCP, for every set of clients;
  the first for all, the others for clients without the piggyback option (section 4
  shows what the others do). Without it every step of `InterleavedAccess` has the
  effect of one of `TieredOMap`, with the answer found in the other order
  (`ApartStep`), so `PlaceInv` and `Timely` are kept (`KeptApart`). What
  `InterleavedKeepsRecords` says of cached frequencies and of the pending entry, and the
  refinement, need `TrailersAgree` here too.
- `PathInvariantHolds`, `BlocksAreFound`, `ImplementsMemory`: for every tree,
  bucket size, stash limit and set of blocks. The argument: reading paths splits
  all blocks into those now in the stash, those held and those off the paths
  (`ReadPaths`); an eviction puts each block of the first group back in one place
  on its own path (`EvictResult`); so a round keeps the invariant if the three
  groups are consistent with each other (`RoundKeeps`).
- `OverflowsOnlyWhenFull`: likewise. An eviction that puts a block into the stash has
  filled the buckets this block could have had; with a block of such a bucket the
  same holds of its other buckets, so there is a set of full buckets to which all
  these blocks, and only blocks with no other place, belong (`FullWays`). Where the
  blocks were before, no bucket had more than `Z` either, so at least as many of them
  were in the stash (`NoRoomWasted`). The set is closed because two paths, once they
  meet, are one from there to the root (`PathsMerge`); this is the one place where the
  index arithmetic of the tree matters, and it is an induction, done by the least
  number for which the claim would fail (`LeastNumber`, `UpFromIs`). `BucketsHold`, that
  no bucket is over-full, is the invariant added to `OramInv`.
- `NothingMissing`, `LeavesAreCounted`, `LeavesStayFresh`, `ResetsInTime`: for every
  number of keys and levels, counters per block and pseudo-random function, with the
  order in which `DaOstOmap` finishes its piggybacks; the first three except data blocks
  of which a copy may have stayed behind (`Copied`), the last has no exception. The
  invariant `DaInv` says that in every tree but the one to be read next the leaves agree
  with the counters, and that in this one they will, once main access and piggyback, in
  this order, have moved the blocks they ask for (`InFlight`). A copied block may be
  missed or moved to any place; a round then still moves all others (`RoundResult`),
  since what it does to a block depends on that block only, and the set of exceptions
  grows (`AgreeFewer`). `DaInv`
  also needs `GoodBlock`: an unmarked key's `ic` is smaller than the
  offset of every marked key of its group. Accesses count at most one per step and
  resets go from the front, so no counter is used up while a key is marked,
  provided `IcMax >= NumIc`: the assumption `CounterAssumption`, which the
  constructor does not test.

- `AnswersAreOwn`: for any objects, shapes, blocks and bounds, while `timed` is
  FALSE (`net_late` shows why), if a call record is not the model value `NoCall`.
  The inductive invariant `Lockstep` says that with no call waiting nothing is under
  way, that with one waiting there is at most one message in both directions
  together, and that requests are under way only on a live connection.

- `StoresBacked`, `NoStoreOrphaned`: the same, if also the record of an object is not
  the model value `NoHandle`. Between request and answer client and server disagree,
  so the properties are not inductive. `InStep` adds to `Lockstep` that the message
  under way is the one the call sends, that the answer is one the call can get
  (`Fits`), that the ids given out are below `next_id`, and that the stores belong to
  the objects as they will be when the answer has been taken (`HandleNow`, `Paired`).
- `NetworkImplementsStorage`: the same, if also no store is the model value `NoTree`.
  `Dispatch` is the step in which a call has its effect in `StorageInterface`, sending
  and receiving begin and end it, losing the connection takes all stores. The
  refinement mapping looks at stores through the ids of the objects, so each case of
  the server's dispatch needs that an id names the store of one object only: `InStep`,
  with `AnswerNames` (an answer that makes or drops objects names those of the call).
  `bulk_load` is on both sides the same function of a store, so what it computes
  does not matter here.

- `RoundsFindData`, `RoundsKeepData`, `RoundsAnswer`: for every tree, set of blocks
  and number of rounds, under `RoundsApart`: in no access do two data paths meet in one
  batch (section 4 shows what happens if they do; the `rounds` run is an instance).
  The properties speak of finished accesses; in between, a block that was triggered
  has a new leaf in the position map and lies on the path of the old one. The
  invariant `RoundsInv` therefore says under which leaf each block is (`LeafOf`: the
  one that the path waiting for it will read), which block is still to be written
  (`Unwritten`), and in which round each path is idle, read or done (`Scheduled`), from
  which at most one is read at a time (`OneAtATime`). It does not need that the scan and
  the main access are for different blocks, only that with the same block the scan is
  first.

- AVL `ReadsAreHidden`: for every object in one ORAM; in split mode for accesses without
  a piggyback, and with a dummy as piggyback if the split is at most 2 (`PaddedAlike`;
  section 4 shows the two ways in which the others fail, `avl_omap.cpp:1159` and
  `:1167`). The property speaks of finished accesses. Before, the counts of an access
  must be those of the phases its two state machines have been through: `ReadsInv` says
  how many reads each has made (`Machines`) and that the counters of the two ORAMs are
  what these reads amount to (`Counters`).
- AVL `RoundsAreHidden`: for every capacity (up to 29, `AVLAssumption`) and caller, if
  in split mode the caller does not remove (`RemoveUnsplit`; section 4,
  `avl_omap.cpp:582`). A walk reads one node per depth and stops at `max_height_`
  (`Walked`, `Path`); placing, renaming, unlinking, heights and rotations read nothing
  (`Keeps`); a remove's way back makes two accesses for each node it passes, at most as
  many as there are depths (`Costs`). So no call exceeds its share, and padding makes it
  exactly the share.
- B+ `RoundsAreHidden`: for every order and height, in one ORAM (`Unsplit`). The walk
  makes at most two accesses per level, and nothing after it any. With two ORAMs the
  upper share is exceeded when a leaf is the last level above the split (section 4,
  `bplus_omap.cpp:324`); that it never is, where that is so, depends on the shape of the
  tree and is model-checked.

The loops of the trees are recursive functions on numbers. That such a function exists
and has the value its defining equation says is not known to the prover: it is
shown from the functions up to each number (`RunsExists`, `UptoExists`), by the
least number for which there were none. The same device, a least counterexample,
replaces inductions over the levels.

Only model-checked, and why:

- Of the trees, everything about their shape: `NeverThrows`, `TreeIntact`,
  `HeightsBalanced`, `SearchReaches`, `NothingLeftInLocal`, `StepAnswers` and
  `Dictionary`. They need induction over trees that are spread over two memories
  and the nodes in flight.
- `CallsReturn`, `LoopEnds` and all other liveness, which is outside what the proof
  system handles.

## 6. Not modelled, and the plan

Next, in this order:

1. The B+ step interface and `search_piggyback` of `bplus_omap.cpp`, and AVL accesses
   after one whose piggyback walked: what is left of the map is what `InterleavedAccess`
   assumes (`Remains`, `InsertedBeside`).
2. `DaOstOmap`, with the `ods_mode` of both trees, which it uses: its cached roots
   (`step_finish` sets the main position's root to one saved before the access while
   a piggyback is on, `da_ost_omap.cpp:679`) and its piggybacked scan, which returns
   a node id for a B+ position (`da_ost_omap.cpp:386`).
3. TEE: `EnclaveOram`, `TeeAvlOmap`, `TeeOmap`, `TeeServer`.

Without a caller and therefore left out: `interleaved_da_piggyback`
(`tiered_omap.cpp:1083`), `run_interleaved_loop` (`tiered_omap.cpp:695`) and
`BPlusOmap::split_internal`. The byte layout of exported states is not modelled.

Left out for good: cryptography, workload generators, benchmarks and scripts (no
state of the map), bandwidth statistics and round delays (measurement), and the
distribution of the leaves the server sees (not a property of single behaviours;
how many accesses it sees is, and is checked).
