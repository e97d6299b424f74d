----------------------------- MODULE TieredOMap -----------------------------
(***************************************************************************)
(* The client of TieredOMap in local mode (no TCP channel): two OMAPs that *)
(* map a key to the id of its block in the data ORAM, the client-side      *)
(* cache, and the dynamic maintenance that moves records between the       *)
(* tiers.  The OMAPs and the data ORAM are abstract maps here; the         *)
(* accesses that only hide the access pattern (dummy_access) do not change *)
(* any of this state.                                                      *)
(*                                                                         *)
(* The client is single-threaded.  TieredOMap::access is two steps of that *)
(* thread: an Access action serves the request, then Return takes the      *)
(* staggered maintenance step that is due and hands back the result.       *)
(* Nothing else can happen in between.                                     *)
(***************************************************************************)
EXTENDS Integers, Sequences, FiniteSets

CONSTANTS
    Keys,          \* keys a client may name: non-negative integers
    StoredKeys,    \* the keys of all_data, given to init
    HotKeys,       \* hot_keys, given to init
    BlockOf,       \* the data block id init gives each stored key
    Values,        \* payloads
    NoValue,       \* the empty Bytes
    NoWrite,       \* new_value == nullptr
    NoRef,         \* the empty reference (also what a failed search returns)
    Absent,        \* no entry for the key in an OMAP
    Cut,           \* a payload that lost its last EPOCH_META_SIZE bytes
    NoMeta,        \* a block stored without the epoch trailer
    CacheSize,     \* MaintenanceConfig::cache_size
    ObsWindow,     \* MaintenanceConfig::observation_window
    SwapInterval,  \* MaintenanceConfig::swap_interval
    InitMaint,     \* MaintenanceConfig::enabled at construction
    LateEnable,    \* may the client call enable_maintenance afterwards?
    LongValues,    \* is a payload at least EPOCH_META_SIZE bytes long?
    TailOf,        \* what the last bytes of a long payload read as
    MixMoves,      \* may the client call promote, demote or
                   \* enable_maintenance while maintenance is on?
    DaHot,         \* DA hot backend with piggyback: scan results are queued
    NumPositions,  \* DAORAM positions of a DA hot backend
    PosOf,         \* the position a key hashes to
    MaxAccesses    \* bound on total_accesses_

NoKey == -1        \* INVALID_KEY

Refs  == {BlockOf[k] : k \in StoredKeys}
Slots == Refs \cup {NoRef, Absent}
Metas == [cnt : Int, ep : Int, fp : Int]
Blocks == [val : Values \cup {Cut}, meta : Metas \cup {NoMeta}]
Requests == Values \cup {NoWrite}

ASSUME KeyAssumption ==
    /\ Keys \subseteq Nat
    /\ StoredKeys \subseteq Keys
    /\ HotKeys \subseteq StoredKeys
    /\ IsFiniteSet(Keys)
ASSUME BlockAssumption ==
    /\ BlockOf \in [StoredKeys -> Nat]
    /\ \A j, k \in StoredKeys : BlockOf[j] = BlockOf[k] => j = k
ASSUME MarkAssumption ==
    /\ NoRef \notin Nat /\ Absent \notin Nat /\ NoRef # Absent
    /\ NoValue \notin Values /\ NoWrite \notin Values /\ Cut \notin Values
    /\ NoValue # NoWrite /\ NoMeta \notin Metas
    /\ TailOf \in [Values \cup {Cut} -> Metas]
ASSUME ConfigAssumption ==
    /\ CacheSize \in Nat /\ MaxAccesses \in Nat
    /\ ObsWindow \in Nat \ {0} /\ SwapInterval \in Nat \ {0}
    /\ {InitMaint, LateEnable, LongValues, MixMoves, DaHot} \subseteq BOOLEAN
    /\ NumPositions \in Nat \ {0} /\ PosOf \in [Keys -> 0 .. NumPositions - 1]

VARIABLES
    maint,         \* maint_ != nullptr
    hot, cold,     \* hot_omap_, cold_omap_: key -> reference or Absent
    data,          \* data_oram_: block id -> payload and epoch metadata
    hotKeys,       \* hot_keys_: the logical hot tier
    physHot,       \* phys_hot_keys_: the keys believed to be in hot_omap_
    hotList,       \* hot_key_list_ (kept sorted by the code)
    cache,         \* MaintenanceManager::cache_: key -> fp
    cacheKeys,     \* cache_keys_
    cacheRefs,     \* cache_data_refs_
    pendKey,       \* pending_insert_key_
    pendRef,       \* pending_insert_ref_
    swap,          \* swap_state_
    scanPtr,       \* scan_ptr_
    total,         \* total_accesses_
    daQueue,       \* da_pending_demotions_
    scanPos,       \* DaOstOmap::scan_pos_ of the hot tier
    req,           \* key and new_value of the access being served
    reply,         \* AccessResult::value of that access
    pendSince      \* history: the value of total when swap left "Idle"

tierVars  == <<hot, cold, hotKeys, physHot, hotList>>
cacheVars == <<cache, cacheKeys, cacheRefs>>
swapVars  == <<pendKey, pendRef, swap, pendSince>>
scanVars  == <<scanPtr, daQueue, scanPos>>
callVars  == <<req, reply>>
vars == <<maint, tierVars, data, cacheVars, swapVars, scanVars, total,
          callVars>>

NoRequest == <<NoKey, NoWrite>>      \* no call of access is under way

-----------------------------------------------------------------------------
(* The OMAP interface, as TieredOMap uses it.                              *)

search(omap, k)    == IF omap[k] = Absent THEN NoRef ELSE omap[k]
insert(omap, k, r) == [omap EXCEPT ![k] = r]
remove(omap, k)    == [omap EXCEPT ![k] = Absent]

(* cache_data_refs_[k]: operator[] of a missing key yields the empty ref.  *)
RefAt(refs, k) == IF k \in DOMAIN refs THEN refs[k] ELSE NoRef

With(f, k, v)  == [x \in DOMAIN f \cup {k} |-> IF x = k THEN v ELSE f[x]]
Without(f, k)  == [x \in DOMAIN f \ {k} |-> f[x]]

-----------------------------------------------------------------------------
(* MaintenanceManager.                                                     *)

obs_epoch(t) == t \div ObsWindow

update_meta(m, e) ==
    IF m.ep < e
    THEN [cnt |-> 1, ep |-> e, fp |-> IF m.ep = e - 1 THEN m.cnt ELSE 0]
    ELSE [cnt |-> m.cnt + 1, ep |-> m.ep, fp |-> m.fp]

maxOf(a, b) == IF a > b THEN a ELSE b
phase(t)          == t % SwapInterval
(* Mutant: B3 at the end of the interval, which no phase is.               *)
cold_insert_phase_Whole == maxOf(2, SwapInterval)

hot_insert_phase  == maxOf(1, SwapInterval \div 3)
cold_insert_phase == maxOf(2, (2 * SwapInterval) \div 3)
can_maintain(t)   == t > 0 /\ obs_epoch(t) > 0

should_scan(t)        == can_maintain(t) /\ phase(t) = 0
should_hot_insert(t)  == can_maintain(t) /\ phase(t) = hot_insert_phase
should_cold_insert(t) == can_maintain(t) /\ phase(t) = cold_insert_phase

(* Mutant: a tie promotes. *)
should_promote_Ties(c, fp) == \E x \in DOMAIN c : fp >= c[x]

should_promote(c, fp)      == \E x \in DOMAIN c : fp > c[x]
should_demote_cache(c, fp) == \E x \in DOMAIN c : fp < c[x]

(* cache_admit pushes the new entry at the back and evicts the first entry *)
(* with the extreme fp, so the new entry leaves only if it is strictly     *)
(* extreme.  Which of several equal old entries leaves depends on their    *)
(* age; any of them may be chosen here.                                    *)
Evictable(c, k, fp, fromHot) ==
    LET Beats(a, b) == IF fromHot THEN a > b ELSE a < b
        old == {x \in DOMAIN c : /\ ~Beats(fp, c[x])
                                 /\ \A y \in DOMAIN c : ~Beats(c[y], c[x])}
    IN  IF old = {} THEN {k} ELSE old

(* Mutant: the evicted entry is not erased. *)
cache_admit_NoErase(c, k, fp, evicted) == With(c, k, fp)

cache_admit(c, k, fp, evicted) == Without(With(c, k, fp), evicted)

-----------------------------------------------------------------------------
(* The data ORAM and the epoch trailer.                                    *)

(* decode_epoch of a block without trailer: a short payload is returned as *)
(* it is with default metadata, a long one loses its last bytes to them    *)
(* and its counters are what those bytes read as, whatever that is.        *)
Decode(b) ==
    IF b.meta # NoMeta THEN b
    ELSE IF LongValues THEN [val |-> Cut, meta |-> TailOf[b.val]]
    ELSE [val |-> b.val, meta |-> [cnt |-> 0, ep |-> -1, fp |-> 0]]

Payload(b, w) == IF w = NoWrite THEN b.val ELSE w

(* data_access(blk), update_meta, encode_with_epoch, data_access(blk, wb). *)
Touch(ref, w, e) ==
    LET b == Decode(data[ref])
    IN  [val |-> Payload(b, w), meta |-> update_meta(b.meta, e)]

(* The same through a reference that may be empty: then the data ORAM only *)
(* sees dummy accesses and nothing is stored.                              *)
TouchRef(ref, w, e) ==
    IF ref = NoRef
    THEN /\ data' = data
         /\ reply' = IF w = NoWrite THEN NoValue ELSE w
    ELSE /\ data' = [data EXCEPT ![ref] = Touch(ref, w, e)]
         /\ reply' = Touch(ref, w, e).val

-----------------------------------------------------------------------------
(* TieredOMap::init.  The first extract_count hot keys in key order leave  *)
(* the hot OMAP for the cache.                                             *)

Lowest(S, n) == {k \in S : Cardinality({j \in S : j < k}) < n}

InitialCache == IF InitMaint THEN Lowest(HotKeys, CacheSize) ELSE {}

Init ==
    LET cached == InitialCache IN
    /\ maint = InitMaint
    /\ hot  = [k \in Keys |-> IF k \in HotKeys \ cached
                              THEN BlockOf[k] ELSE Absent]
    /\ cold = [k \in Keys |-> IF k \in StoredKeys \ HotKeys
                              THEN BlockOf[k] ELSE Absent]
    /\ \E v \in Values :
         data = [b \in Refs |->
                   [val  |-> v,
                    meta |-> IF InitMaint THEN [cnt |-> 0, ep |-> 0, fp |-> 0]
                             ELSE NoMeta]]
    /\ hotKeys = HotKeys
    /\ physHot = HotKeys \ cached
    /\ hotList = HotKeys \ cached
    /\ cache = [k \in cached |-> 0]
    /\ cacheKeys = cached
    /\ cacheRefs = [k \in cached |-> BlockOf[k]]
    /\ pendKey = NoKey /\ pendRef = NoRef /\ swap = "Idle" /\ pendSince = 0
    /\ scanPtr = -1 /\ daQueue = <<>> /\ scanPos = 0
    /\ total = 0 /\ req = NoRequest /\ reply = NoValue

-----------------------------------------------------------------------------
(* TieredOMap::access with maintenance: the part before the staggered      *)
(* maintenance.  Every path ticks first and ends with the DA scan.         *)

Begin(k, w) ==
    /\ req = NoRequest /\ maint /\ total < MaxAccesses
    /\ total' = total + 1
    /\ req' = <<k, w>>
    /\ UNCHANGED <<maint, scanPtr>>

(* DaOstOmap::piggyback_scan_step reads the root of the next position's    *)
(* tree; which of the position's keys is the root is left open.  A cold    *)
(* enough key is queued with the fp read now.  Reads cache' and data': the *)
(* scan runs after the request was served.                                 *)
DaScan ==
    IF ~DaHot THEN UNCHANGED <<daQueue, scanPos>>
    ELSE LET there == {k \in Keys : /\ hot[k] # Absent
                                    /\ PosOf[k] = scanPos}
         IN  /\ scanPos' = (scanPos + 1) % NumPositions
             /\ IF there = {} THEN daQueue' = daQueue
                ELSE \E k \in there :
                       IF hot[k] = NoRef THEN daQueue' = daQueue
                       ELSE LET fp == Decode(data'[hot[k]]).meta.fp
                            IN  daQueue' = IF should_demote_cache(cache', fp)
                                           THEN Append(daQueue, <<k, fp>>)
                                           ELSE daQueue

(* The entry waiting for its re-insertion is served from pending_insert_ref_. *)
AccessPending(k, w) ==
    /\ Begin(k, w)
    /\ k = pendKey
    /\ TouchRef(pendRef, w, obs_epoch(total + 1))
    /\ UNCHANGED <<tierVars, cacheVars, swapVars>>
    /\ DaScan

(* Mutant: a cache hit leaves the cached fp as it was. *)
AccessCached_StaleFp(k, w) ==
    /\ Begin(k, w)
    /\ k # pendKey
    /\ k \in cacheKeys
    /\ TouchRef(RefAt(cacheRefs, k), w, obs_epoch(total + 1))
    /\ UNCHANGED <<tierVars, cacheVars, swapVars>>
    /\ DaScan

(* A cache hit also refreshes the cached fp. *)
AccessCached(k, w) ==
    /\ Begin(k, w)
    /\ k # pendKey
    /\ k \in cacheKeys
    /\ LET ref == RefAt(cacheRefs, k)
           fp  == IF ref = NoRef THEN 0
                  ELSE Touch(ref, w, obs_epoch(total + 1)).meta.fp
       IN  /\ TouchRef(ref, w, obs_epoch(total + 1))
           /\ cache' = IF k \in DOMAIN cache THEN [cache EXCEPT ![k] = fp]
                       ELSE cache
    /\ UNCHANGED <<tierVars, cacheKeys, cacheRefs, swapVars>>
    /\ DaScan

(* The reactive promotion of a cold key: it enters the cache and the entry *)
(* the cache evicts waits for the cold insert step.                        *)
PromoteToCache(k, ref, fp) ==
    \E ev \in Evictable(cache, k, fp, FALSE) :
        /\ cold' = remove(cold, k)
        /\ cache' = cache_admit(cache, k, fp, ev)
        /\ pendKey' = ev
        /\ pendRef' = RefAt(cacheRefs, ev)
        /\ cacheKeys' = (cacheKeys \ {ev}) \cup {k}
        /\ cacheRefs' = With(Without(cacheRefs, ev), k, ref)
        /\ hotKeys' = (hotKeys \ {ev}) \cup {k}
        /\ swap' = "ColdPend"
        /\ pendSince' = total'
        /\ UNCHANGED <<hot, physHot, hotList>>

(* Neither pending nor cached: search the tier phys_hot_keys_ names. *)
AccessSequential(k, w) ==
    /\ Begin(k, w)
    /\ k # pendKey
    /\ k \notin cacheKeys
    /\ LET ref == search(IF k \in physHot THEN hot ELSE cold, k)
           fp  == Touch(ref, w, obs_epoch(total + 1)).meta.fp
       IN  /\ TouchRef(ref, w, obs_epoch(total + 1))
           /\ IF /\ k \notin hotKeys /\ ref # NoRef
                 /\ swap = "Idle" /\ should_promote(cache, fp)
              THEN PromoteToCache(k, ref, fp)
              ELSE UNCHANGED <<tierVars, cacheVars, swapVars>>
    /\ DaScan

-----------------------------------------------------------------------------
(* The staggered maintenance steps.                                        *)

(* A scanned hot key enters the cache and the entry the cache evicts waits *)
(* for the hot insert step.                                                *)
DemoteToCache(k, fp) ==
    \E ev \in Evictable(cache, k, fp, TRUE) :
        /\ hot' = remove(hot, k)
        /\ cache' = cache_admit(cache, k, fp, ev)
        /\ pendKey' = ev
        /\ pendRef' = RefAt(cacheRefs, ev)
        /\ physHot' = physHot \ {k}
        /\ hotList' = hotList \ {k}
        /\ cacheKeys' = (cacheKeys \cup {k}) \ {ev}
        /\ cacheRefs' = Without(With(cacheRefs, k, search(hot, k)), ev)
        /\ swap' = "HotPend"
        /\ pendSince' = total
        /\ UNCHANGED <<cold, hotKeys>>

(* std::upper_bound(scan_ptr) with wrap-around. *)
NextScanKey(k) ==
    LET above == {x \in hotList : x > scanPtr}
        from  == IF above = {} THEN hotList ELSE above
    IN  k \in from /\ \A x \in from : k <= x

ScanMeta(ref) == IF ref = NoRef THEN [cnt |-> 0, ep |-> -1, fp |-> 0]
                 ELSE Decode(data[ref]).meta

ScanHotList ==
    \E k \in hotList :
        /\ NextScanKey(k)
        /\ scanPtr' = k
        /\ LET fp == ScanMeta(search(hot, k)).fp
           IN  IF should_demote_cache(cache, fp) THEN DemoteToCache(k, fp)
               ELSE UNCHANGED <<tierVars, cacheVars, swapVars>>
        /\ UNCHANGED daQueue

(* The DA backend demotes the front of the queue its accesses filled. *)
ScanDaQueue ==
    /\ UNCHANGED scanPtr
    /\ IF daQueue = <<>> THEN UNCHANGED <<daQueue, tierVars, cacheVars, swapVars>>
       ELSE /\ daQueue' = Tail(daQueue)
            /\ IF Head(daQueue)[1] \in physHot
               THEN DemoteToCache(Head(daQueue)[1], Head(daQueue)[2])
               ELSE UNCHANGED <<tierVars, cacheVars, swapVars>>

(* Mutant: the scan does not ask whether a swap is still open. *)
do_scan_step_AnyTime ==
    IF ~DaHot /\ hotList = {}
    THEN UNCHANGED <<tierVars, cacheVars, swapVars, scanPtr, daQueue>>
    ELSE IF DaHot THEN ScanDaQueue ELSE ScanHotList

do_scan_step ==
    IF swap # "Idle" \/ (~DaHot /\ hotList = {})
    THEN UNCHANGED <<tierVars, cacheVars, swapVars, scanPtr, daQueue>>
    ELSE IF DaHot THEN ScanDaQueue ELSE ScanHotList

ClearPending == pendKey' = NoKey /\ pendRef' = NoRef /\ swap' = "Idle"

(* Mutant: the pending key is cleared before the key sets are updated. *)
do_hot_insert_step_ClearFirst ==
    /\ IF swap = "HotPend"
       THEN /\ hot' = insert(hot, pendKey, pendRef)
            /\ physHot' = physHot \cup {NoKey}
            /\ hotList' = hotList \cup {NoKey}
            /\ ClearPending
       ELSE UNCHANGED <<hot, physHot, hotList, pendKey, pendRef, swap>>
    /\ UNCHANGED <<cold, hotKeys, cacheVars, pendSince, scanPtr, daQueue>>

do_hot_insert_step ==
    /\ IF swap = "HotPend"
       THEN /\ hot' = insert(hot, pendKey, pendRef)
            /\ physHot' = physHot \cup {pendKey}
            /\ hotList' = hotList \cup {pendKey}
            /\ ClearPending
       ELSE UNCHANGED <<hot, physHot, hotList, pendKey, pendRef, swap>>
    /\ UNCHANGED <<cold, hotKeys, cacheVars, pendSince, scanPtr, daQueue>>

do_cold_insert_step ==
    /\ IF swap = "ColdPend"
       THEN cold' = insert(cold, pendKey, pendRef) /\ ClearPending
       ELSE UNCHANGED <<cold, pendKey, pendRef, swap>>
    /\ UNCHANGED <<hot, hotKeys, physHot, hotList, cacheVars, pendSince,
                   scanPtr, daQueue>>

(* The end of access.  The code tests the three triggers one after the     *)
(* other; AtMostOneTrigger says that no two of them are on together.       *)
Return ==
    /\ req # NoRequest
    /\ \/ maint /\ should_scan(total) /\ do_scan_step
       \/ maint /\ should_hot_insert(total) /\ do_hot_insert_step
       \/ maint /\ should_cold_insert(total) /\ do_cold_insert_step
       \/ /\ maint => /\ ~should_scan(total) /\ ~should_hot_insert(total)
                      /\ ~should_cold_insert(total)
          /\ UNCHANGED <<tierVars, cacheVars, swapVars, scanPtr, daQueue>>
    /\ req' = NoRequest /\ reply' = NoValue
    /\ UNCHANGED <<maint, data, total, scanPos>>

-----------------------------------------------------------------------------
(* Operations outside the dynamic access path.                             *)

(* access without maintenance: a write answers with the payload it         *)
(* replaced, because PathORAM::access returns the old block.               *)
AccessStatic(k, w) ==
    LET ref == search(IF k \in physHot THEN hot ELSE cold, k) IN
    /\ req = NoRequest /\ ~maint
    /\ req' = <<k, w>>
    /\ IF ref = NoRef THEN data' = data /\ reply' = NoValue
       ELSE /\ data' = [data EXCEPT ![ref] = [val  |-> Payload(data[ref], w),
                                              meta |-> data[ref].meta]]
            /\ reply' = data[ref].val
    /\ UNCHANGED <<maint, tierVars, cacheVars, swapVars, scanVars, total>>

(* promote, demote and enable_maintenance look neither at the cache nor at *)
(* the pending entry, and nothing in them tests for maintenance.  MixMoves *)
(* = FALSE is a client that calls them only while maintenance is off, as   *)
(* every caller in the repository does.                                    *)
MayMove == req = NoRequest /\ (MixMoves \/ ~maint)

promote(k) ==
    /\ MayMove /\ k \notin hotKeys
    /\ cold' = remove(cold, k)
    /\ hot' = insert(hot, k, search(cold, k))
    /\ hotKeys' = hotKeys \cup {k}
    /\ physHot' = physHot \cup {k}
    /\ hotList' = hotList \cup {k}
    /\ UNCHANGED <<maint, data, cacheVars, swapVars, scanVars, total, callVars>>

demote(k) ==
    /\ MayMove /\ k \in hotKeys
    /\ hot' = remove(hot, k)
    /\ cold' = insert(cold, k, search(hot, k))
    /\ hotKeys' = hotKeys \ {k}
    /\ physHot' = physHot \ {k}
    /\ hotList' = hotList \ {k}
    /\ UNCHANGED <<maint, data, cacheVars, swapVars, scanVars, total, callVars>>

(* Mutant: the references are looked up after the keys were removed.       *)
enable_maintenance_RefsAfter ==
    LET moved == Lowest(hotList, CacheSize) IN
    /\ MayMove /\ LateEnable
    /\ maint' = TRUE
    /\ hot' = [k \in Keys |-> IF k \in moved THEN Absent ELSE hot[k]]
    /\ physHot' = physHot \ moved
    /\ hotList' = hotList \ moved
    /\ cache' = [k \in moved |-> 0]
    /\ cacheKeys' = cacheKeys \cup moved
    /\ cacheRefs' = [k \in DOMAIN cacheRefs \cup moved |->
                        IF k \in moved THEN search(hot', k) ELSE cacheRefs[k]]
    /\ total' = 0 /\ swap' = "Idle" /\ scanPtr' = -1
    /\ UNCHANGED <<cold, hotKeys, data, pendKey, pendRef, pendSince, daQueue,
                   scanPos, callVars>>

(* A fresh MaintenanceManager counts from zero; the cache is filled as in  *)
(* init.  The blocks keep whatever trailer they have.                      *)
enable_maintenance ==
    LET moved == Lowest(hotList, CacheSize) IN
    /\ MayMove /\ LateEnable
    /\ maint' = TRUE
    /\ hot' = [k \in Keys |-> IF k \in moved THEN Absent ELSE hot[k]]
    /\ physHot' = physHot \ moved
    /\ hotList' = hotList \ moved
    /\ cache' = [k \in moved |-> 0]
    /\ cacheKeys' = cacheKeys \cup moved
    /\ cacheRefs' = [k \in DOMAIN cacheRefs \cup moved |->
                        IF k \in moved THEN search(hot, k) ELSE cacheRefs[k]]
    /\ total' = 0 /\ swap' = "Idle" /\ scanPtr' = -1
    /\ UNCHANGED <<cold, hotKeys, data, pendKey, pendRef, pendSince, daQueue,
                   scanPos, callVars>>

-----------------------------------------------------------------------------
Next ==
    \/ \E k \in Keys, w \in Requests : AccessPending(k, w)
    \/ \E k \in Keys, w \in Requests : AccessCached(k, w)
    \/ \E k \in Keys, w \in Requests : AccessSequential(k, w)
    \/ \E k \in Keys, w \in Requests : AccessStatic(k, w)
    \/ \E k \in Keys : promote(k)
    \/ \E k \in Keys : demote(k)
    \/ enable_maintenance
    \/ Return

Spec == Init /\ [][Next]_vars

-----------------------------------------------------------------------------
(* Properties.                                                             *)

(* Type correctness of the client's state (tiered_omap.h:130-157). *)
TypeOK ==
    /\ maint \in BOOLEAN
    /\ hot \in [Keys -> Slots] /\ cold \in [Keys -> Slots]
    /\ data \in [Refs -> Blocks]
    /\ hotKeys \subseteq Keys /\ physHot \subseteq Keys
    /\ hotList \subseteq Keys /\ cacheKeys \subseteq Keys
    /\ DOMAIN cache \subseteq Keys
    /\ cache \in [DOMAIN cache -> Int]
    /\ DOMAIN cacheRefs \subseteq Keys
    /\ cacheRefs \in [DOMAIN cacheRefs -> Refs \cup {NoRef}]
    /\ pendKey \in Keys \cup {NoKey} /\ pendRef \in Refs \cup {NoRef}
    /\ swap \in {"Idle", "HotPend", "ColdPend"}
    /\ scanPtr \in Keys \cup {-1} /\ scanPos \in 0 .. NumPositions - 1
    /\ daQueue \in Seq(Keys \X Int)
    /\ total \in Nat /\ pendSince \in Nat
    /\ req \in (Keys \X Requests) \cup {NoRequest}
    /\ reply \in Values \cup {NoValue, Cut}

(* The reference access would follow for k, in the order access looks.     *)
RefOf(k) ==
    IF k = pendKey THEN pendRef
    ELSE IF k \in cacheKeys THEN RefAt(cacheRefs, k)
    ELSE search(IF k \in physHot THEN hot ELSE cold, k)

(* Every stored record stays reachable: whatever promotions, demotions,    *)
(* evictions and late insertions happened, an access to the key is led to  *)
(* the data block that init gave it.                                       *)
NoRecordLost == \A k \in StoredKeys : RefOf(k) = BlockOf[k]

(* A key has at most one home: the hot OMAP, the cold OMAP, the cache or   *)
(* the pending slot.  In particular the key about to be inserted is in     *)
(* neither OMAP, which insert relies on (it never overwrites an entry).    *)
InHot(k)  == hot[k] # Absent
InCold(k) == cold[k] # Absent
OneHome ==
    \A k \in Keys :
        /\ ~(InHot(k) /\ InCold(k))
        /\ k \in cacheKeys => ~InHot(k) /\ ~InCold(k) /\ k # pendKey
        /\ k = pendKey => ~InHot(k) /\ ~InCold(k)

(* The client's key sets, which access consults instead of the OMAPs, say  *)
(* what the OMAPs, the manager's cache and the pending slot really hold.   *)
BooksAgree ==
    /\ physHot = {k \in Keys : InHot(k)}
    /\ hotList = physHot
    /\ DOMAIN cache = cacheKeys /\ DOMAIN cacheRefs = cacheKeys
    /\ hotKeys = physHot \cup cacheKeys
                  \cup (IF swap = "HotPend" THEN {pendKey} ELSE {})
    /\ swap = "Idle" <=> pendKey = NoKey

(* Both of them: every key is where the client's key sets say, and only    *)
(* there.                                                                  *)
HomesInOrder == OneHome /\ BooksAgree

(* The fp the manager ranks a cached entry by is the one its data block    *)
(* records, so an eviction never acts on a stale frequency.                *)
CacheFpCurrent ==
    \A k \in DOMAIN cache \cap cacheKeys :
        cache[k] = ScanMeta(RefAt(cacheRefs, k)).fp

(* An evicted entry waits less than one swap interval (of at least 3) for  *)
(* its insertion step: the phases of B2 and B3 come round in time.         *)
PendingInsertedInTime ==
    req = NoRequest /\ swap # "Idle" => total - pendSince < SwapInterval

(* "at most ONE triggers per access" (maintenance.h:50-52). *)
AtMostOneTrigger ==
    /\ ~(should_scan(total) /\ should_hot_insert(total))
    /\ ~(should_scan(total) /\ should_cold_insert(total))
    /\ ~(should_hot_insert(total) /\ should_cold_insert(total))

(* A swap never makes the tiers worse: the key promoted into the cache was *)
(* used strictly more often in the previous window than the entry it       *)
(* pushes out to the cold tier, the key demoted into the cache strictly    *)
(* less than the entry that returns to the hot tier.                       *)
SwapImproves ==
    [][swap = "Idle" /\ swap' # "Idle" =>
         \E k \in DOMAIN cache' \ DOMAIN cache :
            /\ pendKey' \in DOMAIN cache
            /\ IF swap' = "ColdPend" THEN cache'[k] > cache[pendKey']
               ELSE cache'[k] < cache[pendKey']]_vars

(* Maintenance trades keys one for one: the logical hot tier and the cache *)
(* keep their sizes, so the hot OMAP, built for the initial number of hot  *)
(* keys, is never asked to hold more.                                      *)
SizesKept ==
    [][maint => /\ Cardinality(hotKeys') = Cardinality(hotKeys)
                /\ Cardinality(DOMAIN cache') = Cardinality(DOMAIN cache)]_vars

(* The client sees a plain key-value map: every access reads and writes it *)
(* as KeyValueMap says for that request, and the maintenance steps, the    *)
(* moves between the tiers and enable_maintenance are not visible in it.   *)
ValueOf(k) == IF RefOf(k) = NoRef THEN NoValue ELSE data[RefOf(k)].val
KV == INSTANCE KeyValueMap WITH map <- [k \in Keys |-> ValueOf(k)]
RefinesKeyValueMap == KV!KVSpec
=============================================================================
