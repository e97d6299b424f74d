-------------------------- MODULE TieredOMapProofs --------------------------
(***************************************************************************)
(* Theorems about TieredOMap for every value of its constants: types and   *)
(* books; where records are; the plain map that the client sees.           *)
(***************************************************************************)
EXTENDS TieredOMap, FiniteSetTheorems, TLAPS, WellFoundedInduction

(* Every non-empty set of naturals has a least element. *)
LEMMA NatMin ==
    ASSUME NEW T \in SUBSET Nat, T # {}
    PROVE  \E x \in T : \A y \in T : x <= y
<1> DEFINE R == OpToRel(<, Nat)
<1>1. IsWellFoundedOn(R, Nat)
  BY NatLessThanWellFounded
<1> HIDE DEF R
<1>2. PICK x \in T : \A y \in T : ~(<<y, x>> \in R)
  BY <1>1, WFMin
<1>3. ASSUME NEW y \in T PROVE x <= y
  <2>1. <<y, x>> \notin R
    BY <1>2
  <2>2. y < x => <<y, x>> \in R
    BY DEF R, OpToRel
  <2> QED BY <2>1, <2>2
<1> QED BY <1>2, <1>3

(* A non-empty set of integers that is bounded has a least element and a   *)
(* greatest.                                                               *)
LEMMA IntMin ==
    ASSUME NEW T \in SUBSET Int, T # {}, NEW n \in Nat, \A y \in T : -n <= y
    PROVE  \E x \in T : \A y \in T : x <= y
<1> DEFINE U == {y + n : y \in T}
<1>1. U \in SUBSET Nat /\ U # {}
  <2>1. PICK t : t \in T
    OBVIOUS
  <2>2. t + n \in U
    BY <2>1
  <2>3. \A y \in T : y + n \in Nat
    OBVIOUS
  <2> QED BY <2>2, <2>3
<1>2. PICK u \in U : \A v \in U : u <= v
  BY <1>1, NatMin
<1>3. PICK x \in T : u = x + n
  BY <1>2
<1>4. \A y \in T : x + n <= y + n
  BY <1>2, <1>3
<1> QED BY <1>4

LEMMA IntMax ==
    ASSUME NEW T \in SUBSET Int, T # {}, NEW n \in Nat, \A y \in T : y <= n
    PROVE  \E x \in T : \A y \in T : y <= x
<1> DEFINE U == {-y : y \in T}
<1>1. U \in SUBSET Int /\ U # {} /\ \A v \in U : -n <= v
  <2>1. PICK t : t \in T
    OBVIOUS
  <2>2. -t \in U
    BY <2>1
  <2>3. \A y \in T : -y \in Int /\ -n <= -y
    OBVIOUS
  <2> QED BY <2>2, <2>3
<1>2. PICK u \in U : \A v \in U : u <= v
  BY <1>1, IntMin
<1>3. PICK x \in T : u = -x
  BY <1>2
<1>4. \A y \in T : -x <= -y
  BY <1>2, <1>3
<1> QED BY <1>4

-----------------------------------------------------------------------------
(* No two of the staggered triggers fire in the same access, whatever the  *)
(* swap interval (maintenance.h:47-58).                                    *)
LEMMA TriggersDisjoint ==
    ASSUME NEW t \in Nat
    PROVE  /\ ~(should_scan(t) /\ should_hot_insert(t))
           /\ ~(should_scan(t) /\ should_cold_insert(t))
           /\ ~(should_hot_insert(t) /\ should_cold_insert(t))
<1>1. SwapInterval \in Nat \ {0}
  BY ConfigAssumption
<1>2. hot_insert_phase # 0 /\ cold_insert_phase # 0
  BY <1>1 DEF hot_insert_phase, cold_insert_phase, maxOf
<1>3. hot_insert_phase # cold_insert_phase
  BY <1>1 DEF hot_insert_phase, cold_insert_phase, maxOf
<1> QED
  BY <1>2, <1>3 DEF should_scan, should_hot_insert, should_cold_insert

(* The observation epoch is a natural number. *)
LEMMA EpochNat ==
    ASSUME NEW t \in Nat
    PROVE  obs_epoch(t) \in Nat
BY ConfigAssumption DEF obs_epoch

(* update_meta keeps metadata well formed. *)
LEMMA UpdateMetaType ==
    ASSUME NEW m \in Metas, NEW e \in Nat
    PROVE  update_meta(m, e) \in Metas
BY DEF update_meta, Metas

-----------------------------------------------------------------------------
(* Type correctness.                                                       *)

(* Decoding a block yields a payload and proper metadata. *)
LEMMA DecodeType ==
    ASSUME NEW b \in Blocks
    PROVE  /\ Decode(b).val \in Values \cup {Cut}
           /\ Decode(b).meta \in Metas
<1>1. CASE b.meta # NoMeta
  BY <1>1 DEF Decode, Blocks
<1>2. CASE b.meta = NoMeta
  <2>1. b.val \in Values \cup {Cut} /\ TailOf[b.val] \in Metas
    BY MarkAssumption DEF Blocks
  <2> QED BY <1>2, <2>1 DEF Decode, Metas
<1> QED BY <1>1, <1>2

(* What an access writes back is a block with a trailer. *)
LEMMA TouchType ==
    ASSUME data \in [Refs -> Blocks], NEW ref \in Refs, NEW w \in Requests,
           NEW e \in Nat
    PROVE  /\ Touch(ref, w, e) \in Blocks
           /\ Touch(ref, w, e).val \in Values \cup {Cut}
           /\ Touch(ref, w, e).meta \in Metas
<1> DEFINE b == Decode(data[ref])
<1>1. b.val \in Values \cup {Cut} /\ b.meta \in Metas
  BY DecodeType
<1>2. update_meta(b.meta, e) \in Metas
  BY <1>1, UpdateMetaType
<1>3. Payload(b, w) \in Values \cup {Cut}
  BY <1>1 DEF Payload, Requests
<1>4. Touch(ref, w, e) = [val |-> Payload(b, w), meta |-> update_meta(b.meta, e)]
  BY DEF Touch
<1> HIDE DEF b
<1> QED
  BY <1>2, <1>3, <1>4 DEF Blocks

(* Serving a request keeps the types of the data ORAM and the reply. *)
LEMMA TouchRefType ==
    ASSUME data \in [Refs -> Blocks], NEW ref \in Refs \cup {NoRef},
           NEW w \in Requests, NEW e \in Nat, TouchRef(ref, w, e)
    PROVE  /\ data' \in [Refs -> Blocks]
           /\ reply' \in Values \cup {NoValue, Cut}
<1>1. CASE ref = NoRef
  BY <1>1 DEF TouchRef, Requests
<1>2. CASE ref # NoRef
  <2>1. Touch(ref, w, e) \in Blocks /\ Touch(ref, w, e).val \in Values \cup {Cut}
    BY <1>2, TouchType
  <2> QED
    BY <1>2, <2>1 DEF TouchRef
<1> QED BY <1>1, <1>2

(* References are block ids and differ from the marks. *)
LEMMA RefsNat == Refs \subseteq Nat /\ NoRef \notin Refs /\ Absent \notin Refs
BY BlockAssumption, MarkAssumption DEF Refs

(* TypeOK is inductive once an open swap is known to have a pending key. *)
TypeInv == TypeOK /\ (swap # "Idle" => pendKey \in Keys)

(* init establishes the types. *)
LEMMA TypeInit == Init => TypeInv
<1> SUFFICES ASSUME Init PROVE TypeInv
  OBVIOUS
<1> DEFINE cached == InitialCache
<1>1. cached \subseteq HotKeys
  BY DEF InitialCache, Lowest
<1>2. HotKeys \subseteq StoredKeys /\ StoredKeys \subseteq Keys
  BY KeyAssumption
<1>3. \A k \in StoredKeys : BlockOf[k] \in Refs
  BY DEF Refs
<1> HIDE DEF cached
<1>4. hot \in [Keys -> Slots] /\ cold \in [Keys -> Slots]
  BY <1>2, <1>3 DEF Init, Slots, cached
<1>5. data \in [Refs -> Blocks]
  <2>1. PICK v \in Values :
          data = [b \in Refs |->
                    [val  |-> v,
                     meta |-> IF InitMaint THEN [cnt |-> 0, ep |-> 0, fp |-> 0]
                              ELSE NoMeta]]
    BY DEF Init
  <2> QED
    BY <2>1 DEF Blocks, Metas
<1>6. /\ DOMAIN cache = cached /\ cache \in [cached -> Int]
      /\ DOMAIN cacheRefs = cached /\ cacheRefs \in [cached -> Refs]
  BY <1>1, <1>2, <1>3 DEF Init, cached
<1>7. /\ hotKeys \subseteq Keys /\ physHot \subseteq Keys
      /\ hotList \subseteq Keys /\ cacheKeys \subseteq Keys /\ cached \subseteq Keys
  BY <1>1, <1>2 DEF Init, cached
<1>8. scanPos \in 0 .. NumPositions - 1 /\ maint \in BOOLEAN
  BY ConfigAssumption DEF Init
<1> QED
  BY <1>4, <1>5, <1>6, <1>7, <1>8 DEF Init, TypeInv, TypeOK, NoRequest, NoKey

(* A search returns a reference or the empty one. *)
LEMMA SearchType ==
    ASSUME NEW omap \in [Keys -> Slots], NEW k \in Keys
    PROVE  search(omap, k) \in Refs \cup {NoRef}
BY DEF search, Slots

(* cache_admit evicts an old entry or the new one. *)
LEMMA EvictableType ==
    ASSUME NEW c, NEW k, NEW fp, NEW fromHot,
           NEW ev \in Evictable(c, k, fp, fromHot)
    PROVE  ev \in DOMAIN c \cup {k}
BY DEF Evictable

(* cache_admit keeps the type of the cache. *)
LEMMA CacheAdmitType ==
    ASSUME NEW c, DOMAIN c \subseteq Keys, c \in [DOMAIN c -> Int],
           NEW k \in Keys, NEW fp \in Int, NEW ev
    PROVE  /\ DOMAIN cache_admit(c, k, fp, ev) \subseteq Keys
           /\ cache_admit(c, k, fp, ev) \in
                [DOMAIN cache_admit(c, k, fp, ev) -> Int]
BY DEF cache_admit, With, Without

(* A look-up in cache_data_refs_ yields a reference or the empty one. *)
LEMMA RefAtType ==
    ASSUME NEW refs, NEW k, refs \in [DOMAIN refs -> Refs \cup {NoRef}]
    PROVE  RefAt(refs, k) \in Refs \cup {NoRef}
BY DEF RefAt

(* The DA scan queues keys of the hot OMAP with the fp their blocks hold. *)
LEMMA DaScanType ==
    ASSUME TypeOK, data' \in [Refs -> Blocks], DaScan
    PROVE  /\ daQueue' \in Seq(Keys \X Int)
           /\ scanPos' \in 0 .. NumPositions - 1
<1>1. CASE ~DaHot
  BY <1>1 DEF DaScan, TypeOK
<1>2. CASE DaHot
  <2> DEFINE there == {k \in Keys : hot[k] # Absent /\ PosOf[k] = scanPos}
  <2>1. scanPos' = (scanPos + 1) % NumPositions
    BY <1>2 DEF DaScan
  <2>2. scanPos' \in 0 .. NumPositions - 1
    BY <2>1, ConfigAssumption DEF TypeOK
  <2>3. CASE daQueue' = daQueue
    BY <2>2, <2>3 DEF TypeOK
  <2>4. CASE daQueue' # daQueue
    <3>1. PICK k \in there :
            /\ hot[k] # NoRef
            /\ daQueue' = Append(daQueue, <<k, Decode(data'[hot[k]]).meta.fp>>)
      BY <1>2, <2>4 DEF DaScan
    <3>2. hot[k] \in Refs
      BY <3>1 DEF TypeOK, Slots
    <3>3. Decode(data'[hot[k]]).meta \in Metas
      BY <3>2, DecodeType
    <3>4. Decode(data'[hot[k]]).meta.fp \in Int
      BY <3>3 DEF Metas
    <3>5. <<k, Decode(data'[hot[k]]).meta.fp>> \in Keys \X Int
      BY <3>4
    <3> QED
      BY <2>2, <3>1, <3>5 DEF TypeOK
  <2> QED BY <2>3, <2>4
<1> QED BY <1>1, <1>2

(* The parts of TypeInv that a swap of the cache with a tier touches. *)
SwapTypes ==
    /\ hot \in [Keys -> Slots] /\ cold \in [Keys -> Slots]
    /\ hotKeys \subseteq Keys /\ physHot \subseteq Keys
    /\ hotList \subseteq Keys /\ cacheKeys \subseteq Keys
    /\ DOMAIN cache \subseteq Keys
    /\ cache \in [DOMAIN cache -> Int]
    /\ DOMAIN cacheRefs \subseteq Keys
    /\ cacheRefs \in [DOMAIN cacheRefs -> Refs \cup {NoRef}]
    /\ pendKey \in Keys \cup {NoKey} /\ pendRef \in Refs \cup {NoRef}
    /\ swap \in {"Idle", "HotPend", "ColdPend"}
    /\ pendSince \in Nat
    /\ swap # "Idle" => pendKey \in Keys

(* Moving a key into the cache keeps the types, in either direction. *)
LEMMA PromoteToCacheType ==
    ASSUME TypeInv, NEW k \in Keys, NEW ref \in Refs \cup {NoRef}, NEW fp \in Int,
           total' \in Nat, PromoteToCache(k, ref, fp)
    PROVE  SwapTypes'
<1>1. PICK ev \in Evictable(cache, k, fp, FALSE) :
        /\ cold' = remove(cold, k)
        /\ cache' = cache_admit(cache, k, fp, ev)
        /\ pendKey' = ev
        /\ pendRef' = RefAt(cacheRefs, ev)
        /\ cacheKeys' = (cacheKeys \ {ev}) \cup {k}
        /\ cacheRefs' = With(Without(cacheRefs, ev), k, ref)
        /\ hotKeys' = (hotKeys \ {ev}) \cup {k}
        /\ swap' = "ColdPend"
        /\ pendSince' = total'
        /\ UNCHANGED <<hot, physHot, hotList>>
  BY DEF PromoteToCache
<1>2. ev \in Keys
  <2>1. ev \in DOMAIN cache \cup {k}
    BY EvictableType
  <2> QED
    BY <2>1 DEF TypeInv, TypeOK
<1>3. pendRef' \in Refs \cup {NoRef}
  BY <1>1, RefAtType DEF TypeInv, TypeOK
<1>4. DOMAIN cache' \subseteq Keys /\ cache' \in [DOMAIN cache' -> Int]
  BY <1>1, CacheAdmitType DEF TypeInv, TypeOK
<1>5. /\ DOMAIN cacheRefs' \subseteq Keys
      /\ cacheRefs' \in [DOMAIN cacheRefs' -> Refs \cup {NoRef}]
  BY <1>1 DEF With, Without, TypeInv, TypeOK
<1>6. cold' \in [Keys -> Slots]
  BY <1>1 DEF remove, Slots, TypeInv, TypeOK
<1> QED
  BY <1>1, <1>2, <1>3, <1>4, <1>5, <1>6 DEF SwapTypes, TypeInv, TypeOK

(* A demotion into the cache keeps the types. *)
LEMMA DemoteToCacheType ==
    ASSUME TypeInv, NEW k \in Keys, NEW fp \in Int, DemoteToCache(k, fp)
    PROVE  SwapTypes'
<1>1. PICK ev \in Evictable(cache, k, fp, TRUE) :
        /\ hot' = remove(hot, k)
        /\ cache' = cache_admit(cache, k, fp, ev)
        /\ pendKey' = ev
        /\ pendRef' = RefAt(cacheRefs, ev)
        /\ physHot' = physHot \ {k}
        /\ hotList' = hotList \ {k}
        /\ cacheKeys' = (cacheKeys \cup {k}) \ {ev}
        /\ cacheRefs' = Without(With(cacheRefs, k, search(hot, k)), ev)
        /\ swap' = "HotPend"
        /\ pendSince' = total
        /\ UNCHANGED <<cold, hotKeys>>
  BY DEF DemoteToCache
<1>2. ev \in Keys
  <2>1. ev \in DOMAIN cache \cup {k}
    BY EvictableType
  <2> QED
    BY <2>1 DEF TypeInv, TypeOK
<1>3. pendRef' \in Refs \cup {NoRef}
  BY <1>1, RefAtType DEF TypeInv, TypeOK
<1>4. DOMAIN cache' \subseteq Keys /\ cache' \in [DOMAIN cache' -> Int]
  BY <1>1, CacheAdmitType DEF TypeInv, TypeOK
<1>5. search(hot, k) \in Refs \cup {NoRef}
  BY SearchType DEF TypeInv, TypeOK
<1>6. /\ DOMAIN cacheRefs' \subseteq Keys
      /\ cacheRefs' \in [DOMAIN cacheRefs' -> Refs \cup {NoRef}]
  BY <1>1, <1>5 DEF With, Without, TypeInv, TypeOK
<1>7. hot' \in [Keys -> Slots]
  BY <1>1 DEF remove, Slots, TypeInv, TypeOK
<1> QED
  BY <1>1, <1>2, <1>3, <1>4, <1>6, <1>7 DEF SwapTypes, TypeInv, TypeOK

(* Serving a request keeps the types. *)
LEMMA ServeType ==
    ASSUME TypeInv, NEW k \in Keys, NEW w \in Requests, Begin(k, w),
           data' \in [Refs -> Blocks], reply' \in Values \cup {NoValue, Cut},
           SwapTypes', DaScan
    PROVE  TypeInv'
<1>1. total' \in Nat /\ req' \in (Keys \X Requests) \cup {NoRequest}
      /\ maint' \in BOOLEAN /\ scanPtr' \in Keys \cup {-1}
  BY DEF Begin, TypeInv, TypeOK
<1>2. daQueue' \in Seq(Keys \X Int) /\ scanPos' \in 0 .. NumPositions - 1
  BY DaScanType DEF TypeInv
<1> QED
  BY <1>1, <1>2 DEF TypeInv, TypeOK, SwapTypes

(* Serving the pending key keeps the types. *)
LEMMA AccessPendingType ==
    ASSUME TypeInv, NEW k \in Keys, NEW w \in Requests, AccessPending(k, w)
    PROVE  TypeInv'
<1>1. Begin(k, w) /\ DaScan /\ TouchRef(pendRef, w, obs_epoch(total + 1))
      /\ UNCHANGED <<tierVars, cacheVars, swapVars>>
  BY DEF AccessPending
<1>2. obs_epoch(total + 1) \in Nat
  <2>1. total + 1 \in Nat
    BY DEF TypeInv, TypeOK
  <2> QED BY <2>1, EpochNat
<1>3. data' \in [Refs -> Blocks] /\ reply' \in Values \cup {NoValue, Cut}
  BY <1>1, <1>2, TouchRefType DEF TypeInv, TypeOK
<1>4. SwapTypes'
  BY <1>1 DEF SwapTypes, TypeInv, TypeOK, tierVars, cacheVars, swapVars
<1> QED BY <1>1, <1>3, <1>4, ServeType

(* A cache hit keeps the types. *)
LEMMA AccessCachedType ==
    ASSUME TypeInv, NEW k \in Keys, NEW w \in Requests, AccessCached(k, w)
    PROVE  TypeInv'
<1> DEFINE ref == RefAt(cacheRefs, k)
           e   == obs_epoch(total + 1)
           fp  == IF ref = NoRef THEN 0 ELSE Touch(ref, w, e).meta.fp
<1>1. /\ Begin(k, w) /\ DaScan /\ TouchRef(ref, w, e)
      /\ UNCHANGED <<tierVars, cacheKeys, cacheRefs, swapVars>>
      /\ cache' = IF k \in DOMAIN cache THEN [cache EXCEPT ![k] = fp] ELSE cache
  BY DEF AccessCached
<1>2. e \in Nat
  <2>1. total + 1 \in Nat
    BY DEF TypeInv, TypeOK
  <2> QED BY <2>1, EpochNat
<1>3. ref \in Refs \cup {NoRef}
  BY RefAtType DEF TypeInv, TypeOK
<1>4. data' \in [Refs -> Blocks] /\ reply' \in Values \cup {NoValue, Cut}
  BY <1>1, <1>2, <1>3, TouchRefType DEF TypeInv, TypeOK
<1>5. fp \in Int
  BY <1>2, <1>3, TouchType DEF TypeInv, TypeOK, Metas
<1> HIDE DEF ref, e, fp
<1>6. SwapTypes'
  BY <1>1, <1>5 DEF SwapTypes, TypeInv, TypeOK, tierVars, swapVars
<1> QED BY <1>1, <1>4, <1>6, ServeType

(* A search of the tiers keeps the types. *)
LEMMA AccessSequentialType ==
    ASSUME TypeInv, NEW k \in Keys, NEW w \in Requests, AccessSequential(k, w)
    PROVE  TypeInv'
<1> DEFINE ref == search(IF k \in physHot THEN hot ELSE cold, k)
           e   == obs_epoch(total + 1)
           fp  == Touch(ref, w, e).meta.fp
<1>1. /\ Begin(k, w) /\ DaScan /\ TouchRef(ref, w, e)
      /\ \/ ref # NoRef /\ PromoteToCache(k, ref, fp)
         \/ UNCHANGED <<tierVars, cacheVars, swapVars>>
  BY DEF AccessSequential
<1>2. e \in Nat
  <2>1. total + 1 \in Nat
    BY DEF TypeInv, TypeOK
  <2> QED BY <2>1, EpochNat
<1>3. ref \in Refs \cup {NoRef}
  BY SearchType DEF TypeInv, TypeOK
<1>4. data' \in [Refs -> Blocks] /\ reply' \in Values \cup {NoValue, Cut}
  BY <1>1, <1>2, <1>3, TouchRefType DEF TypeInv, TypeOK
<1>5. ref # NoRef => fp \in Int
  BY <1>2, <1>3, TouchType DEF TypeInv, TypeOK, Metas
<1>6. total' \in Nat
  BY <1>1 DEF Begin, TypeInv, TypeOK
<1> HIDE DEF ref, e, fp
<1>7. CASE ref # NoRef /\ PromoteToCache(k, ref, fp)
  <2>1. SwapTypes'
    BY <1>3, <1>5, <1>6, <1>7, PromoteToCacheType
  <2> QED BY <1>1, <1>4, <2>1, ServeType
<1>8. CASE UNCHANGED <<tierVars, cacheVars, swapVars>>
  <2>1. SwapTypes'
    BY <1>8 DEF SwapTypes, TypeInv, TypeOK, tierVars, cacheVars, swapVars
  <2> QED BY <1>1, <1>4, <2>1, ServeType
<1> QED BY <1>1, <1>7, <1>8

(* The three staggered steps keep the types. *)
LEMMA ScanStepType ==
    ASSUME TypeInv, do_scan_step
    PROVE  SwapTypes' /\ scanPtr' \in Keys \cup {-1} /\ daQueue' \in Seq(Keys \X Int)
<1>1. CASE UNCHANGED <<tierVars, cacheVars, swapVars, scanPtr, daQueue>>
  BY <1>1 DEF SwapTypes, TypeInv, TypeOK, tierVars, cacheVars, swapVars
<1>2. CASE ScanHotList
  <2>1. PICK k \in hotList :
          /\ scanPtr' = k /\ daQueue' = daQueue
          /\ \/ DemoteToCache(k, ScanMeta(search(hot, k)).fp)
             \/ UNCHANGED <<tierVars, cacheVars, swapVars>>
    BY <1>2 DEF ScanHotList
  <2>2. k \in Keys
    BY DEF TypeInv, TypeOK
  <2>3. ScanMeta(search(hot, k)).fp \in Int
    <3>1. search(hot, k) \in Refs \cup {NoRef}
      BY <2>2, SearchType DEF TypeInv, TypeOK
    <3>2. CASE search(hot, k) = NoRef
      BY <3>2 DEF ScanMeta
    <3>3. CASE search(hot, k) # NoRef
      <4>1. Decode(data[search(hot, k)]).meta \in Metas
        BY <3>1, <3>3, DecodeType DEF TypeInv, TypeOK
      <4> QED
        BY <3>3, <4>1 DEF ScanMeta, Metas
    <3> QED BY <3>2, <3>3
  <2>4. CASE DemoteToCache(k, ScanMeta(search(hot, k)).fp)
    <3>1. SwapTypes'
      BY <2>2, <2>3, <2>4, DemoteToCacheType
    <3> QED
      BY <2>1, <2>2, <3>1 DEF TypeInv, TypeOK
  <2>5. CASE UNCHANGED <<tierVars, cacheVars, swapVars>>
    BY <2>1, <2>2, <2>5 DEF SwapTypes, TypeInv, TypeOK, tierVars, cacheVars, swapVars
  <2> QED BY <2>1, <2>4, <2>5
<1>3. CASE ScanDaQueue
  <2>1. scanPtr' = scanPtr
    BY <1>3 DEF ScanDaQueue
  <2>2. CASE daQueue = <<>>
    BY <1>3, <2>2 DEF ScanDaQueue, SwapTypes, TypeInv, TypeOK, tierVars,
                      cacheVars, swapVars
  <2>3. CASE daQueue # <<>>
    <3>1. /\ daQueue' = Tail(daQueue)
          /\ \/ DemoteToCache(Head(daQueue)[1], Head(daQueue)[2])
             \/ UNCHANGED <<tierVars, cacheVars, swapVars>>
      BY <1>3, <2>3 DEF ScanDaQueue
    <3>2. Head(daQueue) \in Keys \X Int /\ daQueue' \in Seq(Keys \X Int)
      BY <2>3, <3>1 DEF TypeInv, TypeOK
    <3>3. CASE DemoteToCache(Head(daQueue)[1], Head(daQueue)[2])
      <4>1. Head(daQueue)[1] \in Keys /\ Head(daQueue)[2] \in Int
        BY <3>2
      <4>2. SwapTypes'
        BY <3>3, <4>1, DemoteToCacheType
      <4> QED
        BY <2>1, <3>2, <4>2 DEF TypeInv, TypeOK
    <3>4. CASE UNCHANGED <<tierVars, cacheVars, swapVars>>
      BY <2>1, <3>2, <3>4 DEF SwapTypes, TypeInv, TypeOK, tierVars, cacheVars,
                              swapVars
    <3> QED BY <3>1, <3>3, <3>4
  <2> QED BY <2>2, <2>3
<1> QED BY <1>1, <1>2, <1>3 DEF do_scan_step

(* The insert steps keep the types. *)
LEMMA InsertStepsType ==
    ASSUME TypeInv, do_hot_insert_step \/ do_cold_insert_step
    PROVE  SwapTypes' /\ scanPtr' \in Keys \cup {-1} /\ daQueue' \in Seq(Keys \X Int)
<1> USE DEF TypeInv, TypeOK, SwapTypes, Slots, insert, ClearPending, cacheVars, NoKey
<1>1. CASE do_hot_insert_step
  BY <1>1 DEF do_hot_insert_step
<1>2. CASE do_cold_insert_step
  BY <1>2 DEF do_cold_insert_step
<1> QED BY <1>1, <1>2

(* The end of access keeps the types. *)
LEMMA ReturnType ==
    ASSUME TypeInv, Return
    PROVE  TypeInv'
<1>1. SwapTypes' /\ scanPtr' \in Keys \cup {-1} /\ daQueue' \in Seq(Keys \X Int)
  <2>1. CASE do_scan_step
    BY <2>1, ScanStepType
  <2>2. CASE do_hot_insert_step \/ do_cold_insert_step
    BY <2>2, InsertStepsType
  <2>3. CASE UNCHANGED <<tierVars, cacheVars, swapVars, scanPtr, daQueue>>
    BY <2>3 DEF SwapTypes, TypeInv, TypeOK, tierVars, cacheVars, swapVars
  <2> QED BY <2>1, <2>2, <2>3 DEF Return
<1>2. /\ req' = NoRequest /\ reply' = NoValue
      /\ UNCHANGED <<maint, data, total, scanPos>>
  BY DEF Return
<1> QED
  BY <1>1, <1>2 DEF TypeInv, TypeOK, SwapTypes

(* An access without maintenance keeps the types. *)
LEMMA AccessStaticType ==
    ASSUME TypeInv, NEW k \in Keys, NEW w \in Requests, AccessStatic(k, w)
    PROVE  TypeInv'
<1> DEFINE ref == search(IF k \in physHot THEN hot ELSE cold, k)
<1>1. ref \in Refs \cup {NoRef}
  BY SearchType DEF TypeInv, TypeOK
<1>2. data' \in [Refs -> Blocks] /\ reply' \in Values \cup {NoValue, Cut}
  <2>1. CASE ref = NoRef
    BY <2>1 DEF AccessStatic, TypeInv, TypeOK
  <2>2. CASE ref # NoRef
    <3> HIDE DEF ref
    <3>1. data[ref] \in Blocks
      BY <1>1, <2>2 DEF TypeInv, TypeOK
    <3>2. [val |-> Payload(data[ref], w), meta |-> data[ref].meta] \in Blocks
      BY <3>1 DEF Blocks, Payload, Requests
    <3>3. /\ data' = [data EXCEPT ![ref] = [val |-> Payload(data[ref], w),
                                            meta |-> data[ref].meta]]
          /\ reply' = data[ref].val
      BY <2>2 DEF AccessStatic, ref
    <3> QED
      BY <3>1, <3>2, <3>3 DEF Blocks, TypeInv, TypeOK
  <2> QED BY <2>1, <2>2
<1>3. /\ req' = <<k, w>>
      /\ UNCHANGED <<maint, tierVars, cacheVars, swapVars, scanVars, total>>
  BY DEF AccessStatic
<1> QED
  BY <1>2, <1>3 DEF TypeInv, TypeOK, tierVars, cacheVars, swapVars, scanVars

(* promote and demote keep the types. *)
LEMMA MoveType ==
    ASSUME TypeInv, NEW k \in Keys, promote(k) \/ demote(k)
    PROVE  TypeInv'
<1>1. search(hot, k) \in Slots /\ search(cold, k) \in Slots
  BY SearchType DEF TypeInv, TypeOK, Slots
<1>2. Absent \in Slots
  BY DEF Slots
<1> USE DEF TypeInv, TypeOK, insert, remove, cacheVars, swapVars, scanVars, callVars
<1>3. CASE promote(k)
  BY <1>1, <1>2, <1>3 DEF promote
<1>4. CASE demote(k)
  BY <1>1, <1>2, <1>4 DEF demote
<1> QED BY <1>3, <1>4

(* enable_maintenance keeps the types. *)
LEMMA EnableType ==
    ASSUME TypeInv, enable_maintenance
    PROVE  TypeInv'
<1> DEFINE moved == Lowest(hotList, CacheSize)
<1>1. moved \subseteq hotList
  BY DEF Lowest
<1>2. moved \subseteq Keys
  BY <1>1 DEF TypeInv, TypeOK
<1>3. \A k \in moved : search(hot, k) \in Refs \cup {NoRef}
  BY <1>2, SearchType DEF TypeInv, TypeOK
<1>4. /\ maint' = TRUE
      /\ hot' = [k \in Keys |-> IF k \in moved THEN Absent ELSE hot[k]]
      /\ physHot' = physHot \ moved
      /\ hotList' = hotList \ moved
      /\ cache' = [k \in moved |-> 0]
      /\ cacheKeys' = cacheKeys \cup moved
      /\ cacheRefs' = [k \in DOMAIN cacheRefs \cup moved |->
                          IF k \in moved THEN search(hot, k) ELSE cacheRefs[k]]
      /\ total' = 0 /\ swap' = "Idle" /\ scanPtr' = -1
      /\ UNCHANGED <<cold, hotKeys, data, pendKey, pendRef, pendSince, daQueue,
                     scanPos, callVars>>
  BY DEF enable_maintenance
<1> HIDE DEF moved
<1>5. hot' \in [Keys -> Slots]
  BY <1>4 DEF TypeInv, TypeOK, Slots
<1>6. /\ DOMAIN cacheRefs' \subseteq Keys
      /\ cacheRefs' \in [DOMAIN cacheRefs' -> Refs \cup {NoRef}]
  BY <1>2, <1>3, <1>4 DEF TypeInv, TypeOK
<1>7. DOMAIN cache' \subseteq Keys /\ cache' \in [DOMAIN cache' -> Int]
  BY <1>2, <1>4
<1> QED
  BY <1>2, <1>4, <1>5, <1>6, <1>7 DEF TypeInv, TypeOK, callVars

(* Every step keeps the types. *)
LEMMA TypeStep == TypeInv /\ [Next]_vars => TypeInv'
<1> SUFFICES ASSUME TypeInv, [Next]_vars PROVE TypeInv'
  OBVIOUS
<1>1. CASE UNCHANGED vars
  BY <1>1 DEF vars, tierVars, cacheVars, swapVars, scanVars, callVars, TypeInv,
              TypeOK
<1>2. ASSUME NEW k \in Keys, NEW w \in Requests,
             AccessPending(k, w) \/ AccessCached(k, w) \/ AccessSequential(k, w)
               \/ AccessStatic(k, w)
      PROVE  TypeInv'
  BY <1>2, AccessPendingType, AccessCachedType, AccessSequentialType,
     AccessStaticType
<1>3. ASSUME NEW k \in Keys, promote(k) \/ demote(k) PROVE TypeInv'
  BY <1>3, MoveType
<1>4. CASE enable_maintenance
  BY <1>4, EnableType
<1>5. CASE Return
  BY <1>5, ReturnType
<1> QED BY <1>1, <1>2, <1>3, <1>4, <1>5 DEF Next

(* Type correctness holds in every configuration, the DA backend and moves *)
(* under maintenance included.                                             *)
THEOREM TypeCorrect == Spec => []TypeOK
<1>1. TypeInv => TypeOK
  BY DEF TypeInv
<1> QED BY <1>1, TypeInit, TypeStep, PTL DEF Spec

(* "at most ONE triggers per access" (maintenance.h:47-49), for every swap *)
(* interval.                                                               *)
THEOREM OneTrigger == Spec => []AtMostOneTrigger
<1>1. TypeInv => AtMostOneTrigger
  BY TriggersDisjoint DEF TypeInv, TypeOK, AtMostOneTrigger
<1> QED BY <1>1, TypeInit, TypeStep, PTL DEF Spec

(***************************************************************************)
(* No record is lost: the proof that the promotions, demotions, evictions  *)
(* and late insertions of TieredOMap keep every key in exactly one place   *)
(* with its own reference, for a hot backend without the DA queue and a    *)
(* client that moves keys only while maintenance is off.                   *)
(***************************************************************************)


(* The reference init gave the key. *)
HomeRef(k) == IF k \in StoredKeys THEN BlockOf[k] ELSE NoRef

(* Wherever a key is kept, it is kept with its own reference, and a stored *)
(* key is kept somewhere.                                                  *)
Placed ==
    /\ \A k \in Keys : /\ hot[k] \in {Absent, HomeRef(k)}
                       /\ cold[k] \in {Absent, HomeRef(k)}
    /\ \A k \in DOMAIN cacheRefs : cacheRefs[k] = HomeRef(k)
    /\ pendKey # NoKey => pendRef = HomeRef(pendKey)
    /\ \A k \in StoredKeys : InHot(k) \/ InCold(k) \/ k \in cacheKeys \/ k = pendKey

(* Before maintenance nothing is cached and no block has a trailer; a map  *)
(* built with maintenance has it on and all trailers.  The bound gives the *)
(* cache an entry of least and one of greatest fp.                         *)
CacheWithin(c, n) == \A x \in DOMAIN c : -n <= c[x] /\ c[x] <= n
Metered ==
    /\ ~maint => /\ cacheKeys = {} /\ swap = "Idle"
                 /\ \A b \in Refs : data[b].meta = NoMeta
    /\ maint => InitMaint \/ LateEnable
    /\ InitMaint => maint /\ \A b \in Refs : data[b].meta # NoMeta
    /\ \E n \in Nat : CacheWithin(cache, n)

(* The three ways to keep decode_epoch off a block that has no trailer but *)
(* is long enough to seem to have one.                                     *)
TrailersAgree == InitMaint \/ ~LateEnable \/ ~LongValues

(* Then the trailers hold counts, and the cached fp is the one recorded    *)
(* with the key's block.                                                   *)
FpRecorded ==
    TrailersAgree =>
      /\ \A b \in Refs : data[b].meta # NoMeta =>
           data[b].meta.cnt \in Nat /\ data[b].meta.fp \in Nat
      /\ \A k \in DOMAIN cache : cache[k] = ScanMeta(HomeRef(k)).fp

PlaceInv == TypeInv /\ Placed /\ OneHome /\ BooksAgree /\ Metered /\ FpRecorded

-----------------------------------------------------------------------------
(* Facts about the definitions.                                            *)

(* What HomeRef is worth in each home of a key. *)
LEMMA HomeRefFacts ==
    /\ \A k \in Keys : HomeRef(k) \in Refs \cup {NoRef}
    /\ \A k \in StoredKeys : HomeRef(k) \in Refs
    /\ \A k : HomeRef(k) # Absent
    /\ \A j, k \in Keys : HomeRef(j) = HomeRef(k) /\ HomeRef(j) # NoRef => j = k
<1>1. \A k \in StoredKeys : BlockOf[k] \in Refs
  BY DEF Refs
<1>2. NoRef # Absent
  BY MarkAssumption
<1> QED
  BY <1>1, <1>2, RefsNat, BlockAssumption DEF HomeRef

(* INVALID_KEY is no key. *)
LEMMA NoKeyNotKey == NoKey \notin Keys
BY KeyAssumption DEF NoKey

(* access finds every key's own reference, whichever place it is led to. *)
LEMMA RefOfHome ==
    ASSUME PlaceInv, NEW k \in Keys
    PROVE  RefOf(k) = HomeRef(k)
<1> USE DEF PlaceInv
<1>1. CASE k = pendKey
  BY <1>1, NoKeyNotKey DEF RefOf, Placed
<1>2. CASE k # pendKey /\ k \in cacheKeys
  BY <1>2 DEF RefOf, RefAt, Placed, BooksAgree
<1>3. CASE k # pendKey /\ k \notin cacheKeys /\ k \in physHot
  <2>1. hot[k] # Absent
    BY <1>3 DEF BooksAgree, InHot
  <2> QED
    BY <1>3, <2>1 DEF RefOf, Placed, search
<1>4. CASE k # pendKey /\ k \notin cacheKeys /\ k \notin physHot
  <2>1. hot[k] = Absent
    BY <1>4 DEF BooksAgree, InHot
  <2>2. CASE cold[k] = Absent
    <3>1. k \notin StoredKeys
      BY <1>4, <2>1, <2>2 DEF Placed, InHot, InCold
    <3> QED
      BY <1>4, <2>2, <3>1 DEF RefOf, search, HomeRef
  <2>3. CASE cold[k] # Absent
    BY <1>4, <2>3 DEF RefOf, Placed, search
  <2> QED BY <2>2, <2>3
<1> QED BY <1>1, <1>2, <1>3, <1>4

(* A promoted key pushes out an old entry that was used strictly less. *)
LEMMA PromoteEvicts ==
    ASSUME NEW c, c \in [DOMAIN c -> Int], NEW k, NEW fp \in Int,
           NEW n \in Nat, CacheWithin(c, n),
           should_promote(c, fp), NEW ev \in Evictable(c, k, fp, FALSE)
    PROVE  ev \in DOMAIN c /\ c[ev] < fp
<1> DEFINE T == {c[x] : x \in DOMAIN c}
<1>1. PICK x \in DOMAIN c : fp > c[x]
  BY DEF should_promote
<1>2. T \in SUBSET Int /\ T # {} /\ \A y \in T : -n <= y
  BY <1>1 DEF CacheWithin
<1>3. PICK m \in T : \A y \in T : m <= y
  BY <1>2, IntMin
<1>4. PICK z \in DOMAIN c : m = c[z]
  BY <1>3
<1>5. \A y \in DOMAIN c : c[z] <= c[y]
  BY <1>3, <1>4
<1> DEFINE old == {v \in DOMAIN c : /\ ~(fp < c[v])
                                    /\ \A y \in DOMAIN c : ~(c[y] < c[v])}
<1>6. z \in old
  BY <1>1, <1>5
<1>7. ev \in old
  BY <1>6 DEF Evictable
<1>8. c[ev] \in Int /\ c[x] \in Int /\ ~(c[x] < c[ev])
  BY <1>7
<1> QED BY <1>1, <1>7, <1>8

(* A demoted key sends back an old entry that was used strictly more. *)
LEMMA DemoteEvicts ==
    ASSUME NEW c, c \in [DOMAIN c -> Int], NEW k, NEW fp \in Int,
           NEW n \in Nat, CacheWithin(c, n),
           should_demote_cache(c, fp), NEW ev \in Evictable(c, k, fp, TRUE)
    PROVE  ev \in DOMAIN c /\ c[ev] > fp
<1> DEFINE T == {c[x] : x \in DOMAIN c}
<1>1. PICK x \in DOMAIN c : fp < c[x]
  BY DEF should_demote_cache
<1>2. T \in SUBSET Int /\ T # {} /\ \A y \in T : y <= n
  BY <1>1 DEF CacheWithin
<1>3. PICK m \in T : \A y \in T : y <= m
  BY <1>2, IntMax
<1>4. PICK z \in DOMAIN c : m = c[z]
  BY <1>3
<1>5. \A y \in DOMAIN c : c[y] <= c[z]
  BY <1>3, <1>4
<1> DEFINE old == {v \in DOMAIN c : /\ ~(fp > c[v])
                                    /\ \A y \in DOMAIN c : ~(c[y] > c[v])}
<1>6. z \in old
  BY <1>1, <1>5
<1>7. ev \in old
  BY <1>6 DEF Evictable
<1>8. c[ev] \in Int /\ c[x] \in Int /\ ~(c[x] > c[ev])
  BY <1>7
<1> QED BY <1>1, <1>7, <1>8

(* A cache that gets one new fp stays bounded. *)
LEMMA StaysWithin ==
    ASSUME NEW c, c \in [DOMAIN c -> Int], NEW d, NEW k,
           \E n \in Nat : CacheWithin(c, n), d[k] \in Int,
           DOMAIN d \subseteq DOMAIN c \cup {k},
           \A j \in DOMAIN d \ {k} : d[j] = c[j]
    PROVE  \E n \in Nat : CacheWithin(d, n)
<1>1. PICK n \in Nat : CacheWithin(c, n)
  OBVIOUS
<1> DEFINE m == IF d[k] < 0 THEN n - d[k] ELSE n + d[k]
<1>2. m \in Nat /\ m >= n /\ -m <= d[k] /\ d[k] <= m
  OBVIOUS
<1> HIDE DEF m
<1>3. ASSUME NEW j \in DOMAIN d PROVE -m <= d[j] /\ d[j] <= m
  <2>1. CASE j = k
    BY <1>2, <2>1
  <2>2. CASE j # k
    <3>1. j \in DOMAIN c /\ d[j] = c[j] /\ c[j] \in Int
      BY <2>2
    <3> QED BY <1>1, <1>2, <3>1 DEF CacheWithin
  <2> QED BY <2>1, <2>2
<1>4. CacheWithin(d, m)
  BY <1>3 DEF CacheWithin
<1> QED BY <1>2, <1>4

(* With maintenance on, a block without trailer is short. *)
LEMMA Trailed ==
    ASSUME PlaceInv, TrailersAgree, maint, NEW r \in Refs
    PROVE  data[r].meta # NoMeta \/ ~LongValues
BY DEF PlaceInv, Metered, TrailersAgree

(* What is read from a block then counts accesses. *)
LEMMA DecodeCounts ==
    ASSUME PlaceInv, TrailersAgree, maint, NEW r \in Refs
    PROVE  Decode(data[r]).meta.cnt \in Nat /\ Decode(data[r]).meta.fp \in Nat
BY Trailed DEF PlaceInv, FpRecorded, Decode

(* So does what the cache holds. *)
LEMMA CacheCounts ==
    ASSUME PlaceInv, TrailersAgree
    PROVE  cache \in [DOMAIN cache -> Nat]
<1>1. cache \in [DOMAIN cache -> Int] /\ DOMAIN cache \subseteq Keys
  BY DEF PlaceInv, TypeInv, TypeOK
<1>2. ASSUME NEW k \in DOMAIN cache PROVE cache[k] \in Nat
  <2>1. maint /\ cache[k] = ScanMeta(HomeRef(k)).fp
    BY DEF PlaceInv, Metered, BooksAgree, FpRecorded
  <2>2. HomeRef(k) = NoRef \/ HomeRef(k) \in Refs
    BY <1>1, HomeRefFacts
  <2> QED BY <2>1, <2>2, DecodeCounts DEF ScanMeta
<1> QED BY <1>1, <1>2

-----------------------------------------------------------------------------
(* The initial state.                                                      *)

(* init places every stored key once. *)
LEMMA PlaceInit == Init => PlaceInv
<1> SUFFICES ASSUME Init PROVE PlaceInv
  OBVIOUS
<1> DEFINE cached == InitialCache
<1>1. TypeInv
  BY TypeInit
<1>2. /\ cached \subseteq HotKeys /\ HotKeys \subseteq StoredKeys
      /\ StoredKeys \subseteq Keys /\ (~InitMaint => cached = {})
  BY KeyAssumption DEF InitialCache, Lowest
<1>3. /\ maint = InitMaint
      /\ hot  = [k \in Keys |-> IF k \in HotKeys \ cached
                                THEN BlockOf[k] ELSE Absent]
      /\ cold = [k \in Keys |-> IF k \in StoredKeys \ HotKeys
                                THEN BlockOf[k] ELSE Absent]
      /\ hotKeys = HotKeys
      /\ physHot = HotKeys \ cached
      /\ hotList = HotKeys \ cached
      /\ cache = [k \in cached |-> 0]
      /\ cacheKeys = cached
      /\ cacheRefs = [k \in cached |-> BlockOf[k]]
      /\ pendKey = NoKey /\ pendRef = NoRef /\ swap = "Idle"
      /\ total = 0
  BY DEF Init
<1>4. PICK v \in Values :
        data = [b \in Refs |->
                  [val  |-> v,
                   meta |-> IF InitMaint THEN [cnt |-> 0, ep |-> 0, fp |-> 0]
                            ELSE NoMeta]]
  BY DEF Init
<1> HIDE DEF cached
<1>5. \A k \in StoredKeys : BlockOf[k] # Absent /\ HomeRef(k) = BlockOf[k]
  BY HomeRefFacts DEF HomeRef
<1>6. Placed
  BY <1>2, <1>3, <1>5 DEF Placed, InHot, InCold
<1>7. OneHome
  BY <1>2, <1>3, <1>5, NoKeyNotKey DEF OneHome, InHot, InCold
<1>8. BooksAgree
  BY <1>2, <1>3, <1>5 DEF BooksAgree, InHot
<1>9. Metered
  <2>1. CacheWithin(cache, 0)
    BY <1>3 DEF CacheWithin
  <2>2. [cnt |-> 0, ep |-> 0, fp |-> 0] # NoMeta
    BY MarkAssumption DEF Metas
  <2> QED BY <1>2, <1>3, <1>4, <2>1, <2>2 DEF Metered
<1>10. FpRecorded
  <2>1. ASSUME NEW b \in Refs, data[b].meta # NoMeta
        PROVE  data[b].meta = [cnt |-> 0, ep |-> 0, fp |-> 0]
    BY <1>4, <2>1
  <2>2. ASSUME NEW k \in cached PROVE ScanMeta(HomeRef(k)).fp = 0
    <3>1. HomeRef(k) \in Refs /\ HomeRef(k) # NoRef /\ InitMaint
      BY <1>2, HomeRefFacts, RefsNat
    <3>2. data[HomeRef(k)].meta # NoMeta
      BY <1>9, <3>1 DEF Metered
    <3> QED BY <2>1, <3>1, <3>2 DEF ScanMeta, Decode
  <2> QED BY <1>3, <2>1, <2>2 DEF FpRecorded
<1> QED BY <1>1, <1>6, <1>7, <1>8, <1>9, <1>10 DEF PlaceInv

-----------------------------------------------------------------------------
(* Serving a request.                                                      *)

(* The write-back of an access counts accesses too. *)
LEMMA TouchCounts ==
    ASSUME PlaceInv, TrailersAgree, maint, NEW r \in Refs, NEW w \in Requests,
           NEW e \in Nat
    PROVE  Touch(r, w, e).meta.cnt \in Nat /\ Touch(r, w, e).meta.fp \in Nat
<1> DEFINE m == Decode(data[r]).meta
<1>1. m.cnt \in Nat /\ m.fp \in Nat
  BY DecodeCounts
<1>2. Touch(r, w, e).meta = update_meta(m, e)
  BY DEF Touch
<1> HIDE DEF m
<1> QED BY <1>1, <1>2 DEF update_meta

(* What serving a request does to the data ORAM, whatever it answers. *)
Stores(ref, w, e) ==
    data' = IF ref = NoRef THEN data ELSE [data EXCEPT ![ref] = Touch(ref, w, e)]

(* TouchRef writes the block back. *)
LEMMA TouchStores ==
    ASSUME NEW ref, NEW w, NEW e, TouchRef(ref, w, e)
    PROVE  Stores(ref, w, e)
BY DEF TouchRef, Stores

(* Serving a request rewrites one block and leaves the references alone. *)
LEMMA Touched ==
    ASSUME PlaceInv, maint, NEW k \in Keys, NEW w \in Requests, NEW e \in Nat,
           Stores(HomeRef(k), w, e)
    PROVE  /\ TrailersAgree => \A b \in Refs : data'[b].meta # NoMeta =>
                data'[b].meta.cnt \in Nat /\ data'[b].meta.fp \in Nat
           /\ \A b \in Refs : data[b].meta # NoMeta => data'[b].meta # NoMeta
           /\ \A j \in Keys \ {k} : ScanMeta(HomeRef(j))' = ScanMeta(HomeRef(j))
           /\ HomeRef(k) # NoRef => /\ ScanMeta(HomeRef(k))' = Touch(HomeRef(k), w, e).meta
                                    /\ Touch(HomeRef(k), w, e).meta.fp \in Int
<1> DEFINE r == HomeRef(k)
<1>1. data \in [Refs -> Blocks]
  BY DEF PlaceInv, TypeInv, TypeOK
<1>2. TrailersAgree => \A b \in Refs : data[b].meta # NoMeta =>
        data[b].meta.cnt \in Nat /\ data[b].meta.fp \in Nat
  BY DEF PlaceInv, FpRecorded
<1>3. CASE r = NoRef
  <2>1. data' = data
    BY <1>3 DEF Stores
  <2> QED BY <1>2, <1>3, <2>1 DEF ScanMeta
<1>4. CASE r # NoRef
  <2>1. r \in Refs
    BY <1>4, HomeRefFacts
  <2>2. data' = [data EXCEPT ![r] = Touch(r, w, e)]
    BY <1>4 DEF Stores
  <2>3. Touch(r, w, e).meta \in Metas
    BY <1>1, <2>1, TouchType
  <2>4. TrailersAgree => Touch(r, w, e).meta.cnt \in Nat /\ Touch(r, w, e).meta.fp \in Nat
    BY <2>1, TouchCounts
  <2>5. Touch(r, w, e).meta # NoMeta /\ Touch(r, w, e).meta.fp \in Int
    BY <2>3, MarkAssumption DEF Metas
  <2>6. data'[r] = Touch(r, w, e) /\ \A b \in Refs \ {r} : data'[b] = data[b]
    BY <1>1, <2>1, <2>2
  <2>7. ASSUME NEW j \in Keys \ {k}
        PROVE  ScanMeta(HomeRef(j))' = ScanMeta(HomeRef(j))
    <3>1. HomeRef(j) = NoRef \/ HomeRef(j) \in Refs \ {r}
      BY <1>4, HomeRefFacts
    <3> QED
      BY <2>6, <3>1 DEF ScanMeta
  <2>8. ScanMeta(r)' = Touch(r, w, e).meta
    BY <1>4, <2>5, <2>6 DEF ScanMeta, Decode
  <2>9. TrailersAgree => \A b \in Refs : data'[b].meta # NoMeta =>
          data'[b].meta.cnt \in Nat /\ data'[b].meta.fp \in Nat
    BY <1>2, <2>4, <2>6
  <2>10. \A b \in Refs : data[b].meta # NoMeta => data'[b].meta # NoMeta
    BY <2>5, <2>6
  <2> QED BY <2>5, <2>7, <2>8, <2>9, <2>10
<1> QED BY <1>3, <1>4

(* Serving the pending key moves no key. *)
LEMMA AccessPendingPlace ==
    ASSUME PlaceInv, TypeInv', NEW k \in Keys, NEW w \in Requests,
           AccessPending(k, w)
    PROVE  PlaceInv'
<1> DEFINE e == obs_epoch(total + 1)
<1>1. /\ maint /\ maint' = maint /\ total' = total + 1 /\ k = pendKey
      /\ TouchRef(pendRef, w, e) /\ UNCHANGED <<tierVars, cacheVars, swapVars>>
  BY DEF AccessPending, Begin
<1>2. total + 1 \in Nat /\ DOMAIN cache \subseteq Keys
  BY DEF PlaceInv, TypeInv, TypeOK
<1>3. e \in Nat
  BY <1>2, EpochNat
<1>4. pendRef = HomeRef(k)
  BY <1>1, NoKeyNotKey DEF PlaceInv, Placed
<1> HIDE DEF e
<1>5. /\ TrailersAgree => \A b \in Refs : data'[b].meta # NoMeta =>
           data'[b].meta.cnt \in Nat /\ data'[b].meta.fp \in Nat
      /\ \A b \in Refs : data[b].meta # NoMeta => data'[b].meta # NoMeta
      /\ \A j \in Keys \ {k} : ScanMeta(HomeRef(j))' = ScanMeta(HomeRef(j))
  BY <1>1, <1>3, <1>4, Touched, TouchStores
<1>6. Placed' /\ OneHome' /\ BooksAgree'
  BY <1>1 DEF PlaceInv, Placed, OneHome, BooksAgree, InHot, InCold, tierVars,
              cacheVars, swapVars
<1>7. Metered'
  BY <1>1, <1>2, <1>5 DEF PlaceInv, Metered, cacheVars
<1>8. k \notin DOMAIN cache
  BY <1>1 DEF PlaceInv, OneHome, BooksAgree
<1>9. FpRecorded'
  BY <1>1, <1>2, <1>5, <1>8 DEF PlaceInv, FpRecorded, cacheVars
<1> QED BY <1>6, <1>7, <1>9 DEF PlaceInv

(* A cache hit moves no key and keeps the cached fp current. *)
LEMMA AccessCachedPlace ==
    ASSUME PlaceInv, TypeInv', NEW k \in Keys, NEW w \in Requests,
           AccessCached(k, w)
    PROVE  PlaceInv'
<1> DEFINE e  == obs_epoch(total + 1)
           r  == HomeRef(k)
           fp == IF r = NoRef THEN 0 ELSE Touch(r, w, e).meta.fp
<1>0. k \in cacheKeys /\ k \in DOMAIN cache
  BY DEF AccessCached, PlaceInv, BooksAgree
<1>1. RefAt(cacheRefs, k) = r
  BY <1>0 DEF PlaceInv, Placed, BooksAgree, RefAt
<1>2. /\ maint /\ maint' = maint /\ total' = total + 1
      /\ TouchRef(r, w, e) /\ UNCHANGED <<tierVars, cacheKeys, cacheRefs, swapVars>>
      /\ cache' = [cache EXCEPT ![k] = fp]
  BY <1>0, <1>1 DEF AccessCached, Begin
<1>3. total + 1 \in Nat /\ cache \in [DOMAIN cache -> Int]
      /\ DOMAIN cache \subseteq Keys
  BY DEF PlaceInv, TypeInv, TypeOK
<1>4. e \in Nat
  BY <1>3, EpochNat
<1>5. /\ TrailersAgree => \A b \in Refs : data'[b].meta # NoMeta =>
           data'[b].meta.cnt \in Nat /\ data'[b].meta.fp \in Nat
      /\ \A b \in Refs : data[b].meta # NoMeta => data'[b].meta # NoMeta
      /\ \A j \in Keys \ {k} : ScanMeta(HomeRef(j))' = ScanMeta(HomeRef(j))
      /\ r # NoRef => /\ ScanMeta(r)' = Touch(r, w, e).meta
                      /\ Touch(r, w, e).meta.fp \in Int
  BY <1>2, <1>4, Touched, TouchStores
<1>6. fp \in Int
  BY <1>5
<1>7. ScanMeta(r)'.fp = fp
  <2>1. CASE r = NoRef
    BY <2>1 DEF ScanMeta
  <2>2. CASE r # NoRef
    BY <1>5, <2>2
  <2> QED BY <2>1, <2>2
<1> HIDE DEF e, fp
<1>8. DOMAIN cache' = DOMAIN cache /\ cache'[k] = fp
      /\ \A j \in DOMAIN cache \ {k} : cache'[j] = cache[j]
  BY <1>0, <1>2
<1>9. Placed' /\ OneHome' /\ BooksAgree'
  BY <1>2, <1>8 DEF PlaceInv, Placed, OneHome, BooksAgree, InHot, InCold,
                    tierVars, swapVars
<1>10. Metered'
  <2>1. \E n \in Nat : CacheWithin(cache', n)
    BY <1>3, <1>6, <1>8, StaysWithin DEF PlaceInv, Metered
  <2> QED
    BY <1>2, <1>5, <2>1 DEF PlaceInv, Metered, CacheWithin
<1>11. FpRecorded'
  <2> SUFFICES ASSUME TrailersAgree, NEW j \in DOMAIN cache
               PROVE  cache'[j] = ScanMeta(HomeRef(j))'.fp
    BY <1>5, <1>8 DEF FpRecorded
  <2>1. CASE j = k
    BY <1>7, <1>8, <2>1
  <2>2. CASE j # k
    BY <1>3, <1>5, <1>8, <2>2 DEF PlaceInv, FpRecorded
  <2> QED BY <2>1, <2>2
<1> QED BY <1>9, <1>10, <1>11 DEF PlaceInv

(* The bookkeeping of a promotion keeps every key in one place.            *)
LEMMA PromotePlaced ==
    ASSUME PlaceInv, NEW k \in Keys, k # pendKey, k \notin cacheKeys,
           k \notin hotKeys, swap = "Idle", cold[k] = HomeRef(k),
           NEW ev \in DOMAIN cache, NEW fp,
           cold' = remove(cold, k),
           cache' = cache_admit(cache, k, fp, ev),
           pendKey' = ev,
           pendRef' = RefAt(cacheRefs, ev),
           cacheKeys' = (cacheKeys \ {ev}) \cup {k},
           cacheRefs' = With(Without(cacheRefs, ev), k, HomeRef(k)),
           hotKeys' = (hotKeys \ {ev}) \cup {k},
           swap' = "ColdPend",
           UNCHANGED <<hot, physHot, hotList>>
    PROVE  /\ Placed' /\ OneHome' /\ BooksAgree'
           /\ DOMAIN cache' = (DOMAIN cache \ {ev}) \cup {k}
           /\ cache'[k] = fp
           /\ \A j \in DOMAIN cache \ {ev} : cache'[j] = cache[j]
<1>1. /\ DOMAIN cache = cacheKeys /\ DOMAIN cacheRefs = cacheKeys
      /\ cacheKeys \subseteq Keys /\ hot \in [Keys -> Slots]
      /\ cold \in [Keys -> Slots] /\ pendKey = NoKey
  BY DEF PlaceInv, BooksAgree, TypeInv, TypeOK
<1>2. ev \in Keys /\ ev # k /\ ev # NoKey
  BY <1>1, NoKeyNotKey
<1>3. /\ DOMAIN cache' = (DOMAIN cache \ {ev}) \cup {k}
      /\ cache'[k] = fp
      /\ \A j \in DOMAIN cache \ {ev} : cache'[j] = cache[j]
  BY <1>1, <1>2 DEF cache_admit, With, Without
<1>4. /\ DOMAIN cacheRefs' = (cacheKeys \ {ev}) \cup {k}
      /\ cacheRefs'[k] = HomeRef(k)
      /\ \A j \in cacheKeys \ {ev} : cacheRefs'[j] = cacheRefs[j]
  BY <1>1, <1>2 DEF With, Without
<1>5. pendRef' = HomeRef(ev)
  BY <1>1 DEF RefAt, PlaceInv, Placed
<1>6. \A j \in Keys : cold'[j] = IF j = k THEN Absent ELSE cold[j]
  BY <1>1 DEF remove
<1>7. hot[k] = Absent /\ hot[ev] = Absent /\ cold[ev] = Absent
  BY <1>1, <1>2 DEF PlaceInv, OneHome, BooksAgree, InHot, InCold
<1>8. Placed'
  <2>1. \A j \in DOMAIN cacheRefs' : cacheRefs'[j] = HomeRef(j)
    BY <1>1, <1>4 DEF PlaceInv, Placed
  <2>2. \A j \in Keys : /\ hot'[j] \in {Absent, HomeRef(j)}
                        /\ cold'[j] \in {Absent, HomeRef(j)}
    BY <1>6 DEF PlaceInv, Placed
  <2>3. \A j \in StoredKeys : hot'[j] # Absent \/ cold'[j] # Absent
                                \/ j \in cacheKeys' \/ j = pendKey'
    BY <1>1, <1>6, NoKeyNotKey, KeyAssumption DEF PlaceInv, Placed, InHot, InCold
  <2> QED
    BY <1>5, <2>1, <2>2, <2>3 DEF Placed, InHot, InCold
<1>9. OneHome'
  BY <1>1, <1>2, <1>6, <1>7 DEF PlaceInv, OneHome, InHot, InCold
<1>10. BooksAgree'
  BY <1>1, <1>2, <1>3, <1>4, <1>7 DEF PlaceInv, BooksAgree, InHot
<1> QED BY <1>3, <1>8, <1>9, <1>10

(* A search of the tiers with the promotion that may follow, apart from    *)
(* the answer.  Which searches decline to promote does not matter here.    *)
SearchTiers(k, w) ==
    LET ref == search(IF k \in physHot THEN hot ELSE cold, k)
        fp  == Touch(ref, w, obs_epoch(total + 1)).meta.fp
    IN  /\ maint /\ maint' = maint /\ total' = total + 1
        /\ k # pendKey /\ k \notin cacheKeys
        /\ Stores(ref, w, obs_epoch(total + 1))
        /\ \/ /\ k \notin hotKeys /\ ref # NoRef
              /\ swap = "Idle" /\ should_promote(cache, fp)
              /\ PromoteToCache(k, ref, fp)
           \/ UNCHANGED <<tierVars, cacheVars, swapVars>>

(* The local access searches the tiers one after the other. *)
LEMMA SequentialSearches ==
    ASSUME NEW k, NEW w, AccessSequential(k, w)
    PROVE  SearchTiers(k, w)
BY TouchStores DEF AccessSequential, SearchTiers, Begin

(* A search of the tiers, with or without a promotion, loses no key. *)
LEMMA SearchPlace ==
    ASSUME PlaceInv, TypeInv', NEW k \in Keys, NEW w \in Requests,
           SearchTiers(k, w)
    PROVE  PlaceInv'
<1> DEFINE e  == obs_epoch(total + 1)
           r  == HomeRef(k)
           fp == Touch(r, w, e).meta.fp
<1>1. k # pendKey /\ k \notin cacheKeys
  BY DEF SearchTiers
<1>2. search(IF k \in physHot THEN hot ELSE cold, k) = r
  BY <1>1, RefOfHome DEF RefOf
<1>3. /\ maint /\ maint' = maint /\ total' = total + 1 /\ Stores(r, w, e)
      /\ \/ /\ k \notin hotKeys /\ r # NoRef /\ swap = "Idle"
            /\ should_promote(cache, fp) /\ PromoteToCache(k, r, fp)
         \/ UNCHANGED <<tierVars, cacheVars, swapVars>>
  BY <1>2 DEF SearchTiers
<1>4. total + 1 \in Nat /\ cache \in [DOMAIN cache -> Int]
      /\ DOMAIN cache \subseteq Keys /\ DOMAIN cache = cacheKeys
  BY DEF PlaceInv, TypeInv, TypeOK, BooksAgree
<1>5. e \in Nat
  BY <1>4, EpochNat
<1>6. /\ TrailersAgree => \A b \in Refs : data'[b].meta # NoMeta =>
           data'[b].meta.cnt \in Nat /\ data'[b].meta.fp \in Nat
      /\ \A b \in Refs : data[b].meta # NoMeta => data'[b].meta # NoMeta
      /\ \A j \in Keys \ {k} : ScanMeta(HomeRef(j))' = ScanMeta(HomeRef(j))
      /\ r # NoRef => ScanMeta(r)' = Touch(r, w, e).meta /\ fp \in Int
  BY <1>3, <1>5, Touched
<1>7. CASE UNCHANGED <<tierVars, cacheVars, swapVars>>
  <2>1. Placed' /\ OneHome' /\ BooksAgree'
    BY <1>7 DEF PlaceInv, Placed, OneHome, BooksAgree, InHot, InCold, tierVars,
                cacheVars, swapVars
  <2>2. Metered'
    BY <1>3, <1>4, <1>6, <1>7 DEF PlaceInv, Metered, cacheVars
  <2>3. FpRecorded'
    BY <1>1, <1>4, <1>6, <1>7 DEF PlaceInv, FpRecorded, cacheVars
  <2> QED BY <2>1, <2>2, <2>3 DEF PlaceInv
<1>8. CASE /\ k \notin hotKeys /\ r # NoRef /\ swap = "Idle"
           /\ should_promote(cache, fp) /\ PromoteToCache(k, r, fp)
  <2>1. fp \in Int /\ \E n \in Nat : CacheWithin(cache, n)
    BY <1>6, <1>8 DEF PlaceInv, Metered
  <2> HIDE DEF e, r, fp
  <2>2. PICK ev \in Evictable(cache, k, fp, FALSE) :
        /\ cold' = remove(cold, k)
        /\ cache' = cache_admit(cache, k, fp, ev)
        /\ pendKey' = ev
        /\ pendRef' = RefAt(cacheRefs, ev)
        /\ cacheKeys' = (cacheKeys \ {ev}) \cup {k}
        /\ cacheRefs' = With(Without(cacheRefs, ev), k, r)
        /\ hotKeys' = (hotKeys \ {ev}) \cup {k}
        /\ swap' = "ColdPend"
        /\ UNCHANGED <<hot, physHot, hotList>>
    BY <1>8 DEF PromoteToCache
  <2>3. ev \in DOMAIN cache
    BY <1>4, <1>8, <2>1, PromoteEvicts
  <2>4. k \notin physHot
    BY <1>8 DEF PlaceInv, BooksAgree
  <2>5. cold[k] = r
    BY <1>2, <1>8, <2>4 DEF search
  <2>6. /\ Placed' /\ OneHome' /\ BooksAgree'
        /\ DOMAIN cache' = (DOMAIN cache \ {ev}) \cup {k}
        /\ cache'[k] = fp
        /\ \A j \in DOMAIN cache \ {ev} : cache'[j] = cache[j]
    BY <1>1, <1>8, <2>2, <2>3, <2>5, PromotePlaced DEF r
  <2>7. Metered'
    <3>1. \E n \in Nat : CacheWithin(cache', n)
      BY <1>4, <2>1, <2>6, StaysWithin
    <3> QED
      BY <1>3, <1>6, <3>1 DEF PlaceInv, Metered, CacheWithin
  <2>8. FpRecorded'
    <3> SUFFICES ASSUME TrailersAgree, NEW j \in DOMAIN cache'
                 PROVE  cache'[j] = ScanMeta(HomeRef(j))'.fp
      BY <1>6 DEF FpRecorded
    <3>1. CASE j = k
      BY <1>6, <1>8, <2>6, <3>1 DEF r, fp
    <3>2. CASE j # k
      BY <1>4, <1>6, <2>6, <3>2 DEF PlaceInv, FpRecorded
    <3> QED BY <3>1, <3>2
  <2> QED BY <2>6, <2>7, <2>8 DEF PlaceInv
<1> QED BY <1>3, <1>7, <1>8

-----------------------------------------------------------------------------
(* The staggered maintenance steps.                                        *)

(* A demotion into the cache leaves every key with one home. *)
LEMMA DemotePlaced ==
    ASSUME PlaceInv, NEW k \in hotList, swap = "Idle",
           NEW ev \in DOMAIN cache, NEW fp,
           hot' = remove(hot, k),
           cache' = cache_admit(cache, k, fp, ev),
           pendKey' = ev,
           pendRef' = RefAt(cacheRefs, ev),
           physHot' = physHot \ {k},
           hotList' = hotList \ {k},
           cacheKeys' = (cacheKeys \cup {k}) \ {ev},
           cacheRefs' = Without(With(cacheRefs, k, search(hot, k)), ev),
           swap' = "HotPend",
           UNCHANGED <<cold, hotKeys>>
    PROVE  /\ Placed' /\ OneHome' /\ BooksAgree'
           /\ DOMAIN cache' = (DOMAIN cache \ {ev}) \cup {k}
           /\ cache'[k] = fp
           /\ \A j \in DOMAIN cache \ {ev} : cache'[j] = cache[j]
<1>1. /\ DOMAIN cache = cacheKeys /\ DOMAIN cacheRefs = cacheKeys
      /\ cacheKeys \subseteq Keys /\ hot \in [Keys -> Slots]
      /\ cold \in [Keys -> Slots] /\ pendKey = NoKey /\ hotList = physHot
      /\ physHot \subseteq Keys
  BY DEF PlaceInv, BooksAgree, TypeInv, TypeOK
<1>2. k \in Keys /\ hot[k] # Absent
  BY <1>1 DEF PlaceInv, BooksAgree, InHot
<1>3. hot[k] = HomeRef(k) /\ cold[k] = Absent /\ k \notin cacheKeys
  BY <1>2 DEF PlaceInv, Placed, OneHome, InHot, InCold
<1>4. search(hot, k) = HomeRef(k)
  BY <1>2, <1>3 DEF search
<1>5. ev \in Keys /\ ev # k /\ ev # NoKey
  BY <1>1, <1>3, NoKeyNotKey
<1>6. hot[ev] = Absent /\ cold[ev] = Absent
  BY <1>1, <1>5 DEF PlaceInv, OneHome, InHot, InCold
<1>7. /\ DOMAIN cache' = (DOMAIN cache \ {ev}) \cup {k}
      /\ cache'[k] = fp
      /\ \A j \in DOMAIN cache \ {ev} : cache'[j] = cache[j]
  BY <1>1, <1>3, <1>5 DEF cache_admit, With, Without
<1>8. /\ DOMAIN cacheRefs' = (cacheKeys \ {ev}) \cup {k}
      /\ cacheRefs'[k] = HomeRef(k)
      /\ \A j \in cacheKeys \ {ev} : cacheRefs'[j] = cacheRefs[j]
  BY <1>1, <1>3, <1>4, <1>5 DEF With, Without
<1>9. pendRef' = HomeRef(ev)
  BY <1>1 DEF RefAt, PlaceInv, Placed
<1>10. \A j \in Keys : hot'[j] = IF j = k THEN Absent ELSE hot[j]
  BY <1>1 DEF remove
<1>11. Placed'
  <2>1. \A j \in DOMAIN cacheRefs' : cacheRefs'[j] = HomeRef(j)
    BY <1>1, <1>8 DEF PlaceInv, Placed
  <2>2. \A j \in Keys : /\ hot'[j] \in {Absent, HomeRef(j)}
                        /\ cold'[j] \in {Absent, HomeRef(j)}
    BY <1>10 DEF PlaceInv, Placed
  <2>3. \A j \in StoredKeys : hot'[j] # Absent \/ cold'[j] # Absent
                                \/ j \in cacheKeys' \/ j = pendKey'
    BY <1>1, <1>5, <1>10, NoKeyNotKey, KeyAssumption
       DEF PlaceInv, Placed, InHot, InCold
  <2> QED
    BY <1>9, <2>1, <2>2, <2>3 DEF Placed, InHot, InCold
<1>12. OneHome'
  BY <1>1, <1>3, <1>5, <1>6, <1>10 DEF PlaceInv, OneHome, InHot, InCold
<1>13. BooksAgree'
  <2>1. physHot' = {j \in Keys : hot'[j] # Absent} /\ hotList' = physHot'
    BY <1>1, <1>10 DEF PlaceInv, BooksAgree, InHot
  <2>2. hotKeys' = physHot' \cup cacheKeys' \cup {pendKey'}
    BY <1>1, <1>5 DEF PlaceInv, BooksAgree
  <2>3. DOMAIN cache' = cacheKeys' /\ DOMAIN cacheRefs' = cacheKeys'
    BY <1>1, <1>5, <1>7, <1>8
  <2> QED
    BY <1>5, <2>1, <2>2, <2>3 DEF BooksAgree, InHot
<1> QED BY <1>7, <1>11, <1>12, <1>13

(* The scan step loses no key. *)
LEMMA ScanPlace ==
    ASSUME PlaceInv, TypeInv', ~DaHot, maint, maint' = maint, total' = total,
           data' = data, do_scan_step
    PROVE  PlaceInv'
<1>1. CASE UNCHANGED <<tierVars, cacheVars, swapVars>>
  BY <1>1 DEF PlaceInv, Placed, OneHome, BooksAgree, Metered, FpRecorded,
              ScanMeta, InHot, InCold, tierVars, cacheVars, swapVars
<1>2. CASE ~UNCHANGED <<tierVars, cacheVars, swapVars>>
  <2>1. swap = "Idle" /\ ScanHotList
    BY <1>2 DEF do_scan_step
  <2>2. PICK k \in hotList :
          /\ should_demote_cache(cache, ScanMeta(search(hot, k)).fp)
          /\ DemoteToCache(k, ScanMeta(search(hot, k)).fp)
    BY <1>2, <2>1 DEF ScanHotList
  <2> DEFINE fp == ScanMeta(HomeRef(k)).fp
  <2>3. k \in Keys /\ search(hot, k) = HomeRef(k)
    <3>1. k \in Keys /\ hot[k] # Absent
      BY DEF PlaceInv, BooksAgree, InHot
    <3> QED
      BY <3>1 DEF PlaceInv, Placed, search
  <2>4. cache \in [DOMAIN cache -> Int] /\ DOMAIN cache \subseteq Keys
        /\ \E n \in Nat : CacheWithin(cache, n)
    BY DEF PlaceInv, TypeInv, TypeOK, Metered
  <2>5. fp \in Int
    <3>1. CASE HomeRef(k) = NoRef
      BY <3>1 DEF ScanMeta
    <3>2. CASE HomeRef(k) # NoRef
      <4>1. data[HomeRef(k)] \in Blocks
        BY <2>3, <3>2, HomeRefFacts DEF PlaceInv, TypeInv, TypeOK
      <4>2. Decode(data[HomeRef(k)]).meta \in Metas
        BY <4>1, DecodeType
      <4> QED
        BY <3>2, <4>2 DEF ScanMeta, Metas
    <3> QED BY <3>1, <3>2
  <2> HIDE DEF fp
  <2>6. PICK ev \in Evictable(cache, k, fp, TRUE) :
        /\ hot' = remove(hot, k)
        /\ cache' = cache_admit(cache, k, fp, ev)
        /\ pendKey' = ev
        /\ pendRef' = RefAt(cacheRefs, ev)
        /\ physHot' = physHot \ {k}
        /\ hotList' = hotList \ {k}
        /\ cacheKeys' = (cacheKeys \cup {k}) \ {ev}
        /\ cacheRefs' = Without(With(cacheRefs, k, search(hot, k)), ev)
        /\ swap' = "HotPend"
        /\ UNCHANGED <<cold, hotKeys>>
    BY <2>2, <2>3 DEF DemoteToCache, fp
  <2>7. should_demote_cache(cache, fp)
    BY <2>2, <2>3 DEF fp
  <2>8. ev \in DOMAIN cache /\ cache[ev] > fp
    BY <2>4, <2>5, <2>7, DemoteEvicts
  <2>9. /\ Placed' /\ OneHome' /\ BooksAgree'
        /\ DOMAIN cache' = (DOMAIN cache \ {ev}) \cup {k}
        /\ cache'[k] = fp
        /\ \A j \in DOMAIN cache \ {ev} : cache'[j] = cache[j]
    BY <2>1, <2>6, <2>8, DemotePlaced
  <2>10. Metered'
    <3>1. \E n \in Nat : CacheWithin(cache', n)
      BY <2>4, <2>5, <2>9, StaysWithin
    <3> QED
      BY <3>1 DEF PlaceInv, Metered, CacheWithin
  <2>11. FpRecorded'
    <3> SUFFICES ASSUME TrailersAgree, NEW j \in DOMAIN cache'
                 PROVE  cache'[j] = ScanMeta(HomeRef(j)).fp
      BY DEF PlaceInv, FpRecorded, ScanMeta
    <3>1. CASE j = k
      BY <2>9, <3>1 DEF fp
    <3>2. CASE j # k
      BY <2>9, <3>2 DEF PlaceInv, FpRecorded
    <3> QED BY <3>1, <3>2
  <2> QED BY <2>9, <2>10, <2>11 DEF PlaceInv
<1> QED BY <1>1, <1>2

(* The insert steps give the pending key its home. *)
LEMMA InsertPlace ==
    ASSUME PlaceInv, TypeInv', maint, maint' = maint, total' = total,
           data' = data, do_hot_insert_step \/ do_cold_insert_step
    PROVE  PlaceInv'
<1>1. /\ hot \in [Keys -> Slots] /\ cold \in [Keys -> Slots]
      /\ (swap # "Idle" => pendKey \in Keys /\ pendKey # NoKey)
      /\ pendKey \notin cacheKeys
  <2>1. pendKey \notin cacheKeys
    BY DEF PlaceInv, OneHome, TypeInv, TypeOK
  <2> QED
    BY <2>1, NoKeyNotKey DEF PlaceInv, TypeInv, TypeOK
<1>2. swap # "Idle" => /\ pendRef = HomeRef(pendKey) /\ pendRef # Absent
                       /\ hot[pendKey] = Absent /\ cold[pendKey] = Absent
  BY <1>1, HomeRefFacts DEF PlaceInv, Placed, OneHome, InHot, InCold
<1>3. UNCHANGED cacheVars
  BY DEF do_hot_insert_step, do_cold_insert_step
<1>4. Metered' /\ FpRecorded'
  <2>1. swap = "Idle" => swap' = "Idle"
    BY DEF do_hot_insert_step, do_cold_insert_step
  <2> QED
    BY <1>3, <2>1 DEF PlaceInv, Metered, FpRecorded, ScanMeta, cacheVars
<1>5. Placed' /\ OneHome' /\ BooksAgree'
  <2>1. CASE UNCHANGED <<tierVars, pendKey, pendRef, swap>>
    BY <1>3, <2>1 DEF PlaceInv, Placed, OneHome, BooksAgree, InHot, InCold,
                      tierVars, cacheVars
  <2>2. CASE swap = "HotPend" /\ do_hot_insert_step
    <3>1. /\ hot' = insert(hot, pendKey, pendRef)
          /\ physHot' = physHot \cup {pendKey} /\ hotList' = hotList \cup {pendKey}
          /\ pendKey' = NoKey /\ pendRef' = NoRef /\ swap' = "Idle"
          /\ UNCHANGED <<cold, hotKeys>>
      BY <2>2 DEF do_hot_insert_step, ClearPending
    <3>2. \A j \in Keys : hot'[j] = IF j = pendKey THEN pendRef ELSE hot[j]
      BY <1>1, <3>1 DEF insert
    <3>3. Placed'
      BY <1>2, <1>3, <2>2, <3>1, <3>2, KeyAssumption
         DEF PlaceInv, Placed, InHot, InCold, cacheVars
    <3>4. OneHome'
      BY <1>1, <1>2, <1>3, <2>2, <3>1, <3>2, NoKeyNotKey
         DEF PlaceInv, OneHome, InHot, InCold, cacheVars
    <3>5. BooksAgree'
      BY <1>1, <1>2, <1>3, <2>2, <3>1, <3>2 DEF PlaceInv, BooksAgree, InHot, cacheVars
    <3> QED BY <3>3, <3>4, <3>5
  <2>3. CASE swap = "ColdPend" /\ do_cold_insert_step
    <3>1. /\ cold' = insert(cold, pendKey, pendRef)
          /\ pendKey' = NoKey /\ pendRef' = NoRef /\ swap' = "Idle"
          /\ UNCHANGED <<hot, hotKeys, physHot, hotList>>
      BY <2>3 DEF do_cold_insert_step, ClearPending
    <3>2. \A j \in Keys : cold'[j] = IF j = pendKey THEN pendRef ELSE cold[j]
      BY <1>1, <3>1 DEF insert
    <3>3. Placed'
      BY <1>2, <1>3, <2>3, <3>1, <3>2, KeyAssumption
         DEF PlaceInv, Placed, InHot, InCold, cacheVars
    <3>4. OneHome'
      BY <1>1, <1>2, <1>3, <2>3, <3>1, <3>2, NoKeyNotKey
         DEF PlaceInv, OneHome, InHot, InCold, cacheVars
    <3>5. BooksAgree'
      BY <1>1, <1>2, <1>3, <2>3, <3>1, <3>2 DEF PlaceInv, BooksAgree, InHot, cacheVars
    <3> QED BY <3>3, <3>4, <3>5
  <2> QED BY <2>1, <2>2, <2>3 DEF do_hot_insert_step, do_cold_insert_step, tierVars
<1> QED BY <1>4, <1>5 DEF PlaceInv

(* The end of access loses no key. *)
LEMMA ReturnPlace ==
    ASSUME PlaceInv, TypeInv', ~DaHot, Return
    PROVE  PlaceInv'
<1>1. maint' = maint /\ total' = total /\ data' = data
  BY DEF Return
<1>2. CASE maint /\ do_scan_step
  BY <1>1, <1>2, ScanPlace
<1>3. CASE maint /\ (do_hot_insert_step \/ do_cold_insert_step)
  BY <1>1, <1>3, InsertPlace
<1>4. CASE UNCHANGED <<tierVars, cacheVars, swapVars, scanPtr, daQueue>>
  BY <1>1, <1>4 DEF PlaceInv, Placed, OneHome, BooksAgree, Metered, FpRecorded,
                    ScanMeta, InHot, InCold, tierVars, cacheVars, swapVars
<1> QED BY <1>2, <1>3, <1>4 DEF Return

-----------------------------------------------------------------------------
(* Operations outside the dynamic access path.                             *)

(* An access without maintenance, apart from the answer. *)
StoresStatic(k, w) ==
    LET ref == search(IF k \in physHot THEN hot ELSE cold, k)
    IN  /\ ~maint /\ UNCHANGED <<maint, tierVars, cacheVars, swapVars, total>>
        /\ data' = IF ref = NoRef THEN data
                   ELSE [data EXCEPT ![ref] = [val  |-> Payload(data[ref], w),
                                               meta |-> data[ref].meta]]

(* The local access without maintenance is one. *)
LEMMA StaticStores ==
    ASSUME NEW k, NEW w, AccessStatic(k, w)
    PROVE  StoresStatic(k, w)
BY DEF AccessStatic, StoresStatic

(* An access without maintenance moves no key. *)
LEMMA AccessStaticPlace ==
    ASSUME PlaceInv, TypeInv', NEW k \in Keys, NEW w \in Requests,
           StoresStatic(k, w)
    PROVE  PlaceInv'
<1>1. /\ ~maint /\ UNCHANGED <<maint, tierVars, cacheVars, swapVars, total>>
  BY DEF StoresStatic
<1>2. cacheKeys = {} /\ DOMAIN cache = {} /\ data \in [Refs -> Blocks]
      /\ \A b \in Refs : data[b].meta = NoMeta
  BY <1>1 DEF PlaceInv, Metered, BooksAgree, TypeInv, TypeOK
<1>3. \A b \in Refs : data'[b].meta = NoMeta
  <2> DEFINE ref == search(IF k \in physHot THEN hot ELSE cold, k)
  <2>1. CASE data' = data
    BY <1>2, <2>1
  <2>2. CASE data' = [data EXCEPT ![ref] = [val  |-> Payload(data[ref], w),
                                            meta |-> data[ref].meta]]
    BY <1>2, <2>2
  <2> QED BY <2>1, <2>2 DEF StoresStatic
<1>4. Placed' /\ OneHome' /\ BooksAgree'
  BY <1>1 DEF PlaceInv, Placed, OneHome, BooksAgree, InHot, InCold, tierVars,
              cacheVars, swapVars
<1>5. Metered' /\ FpRecorded'
  BY <1>1, <1>2, <1>3 DEF PlaceInv, Metered, FpRecorded, cacheVars, swapVars
<1> QED BY <1>4, <1>5 DEF PlaceInv

(* promote and demote move one key while maintenance is off. *)
LEMMA MovePlace ==
    ASSUME PlaceInv, TypeInv', ~MixMoves, NEW k \in Keys, promote(k) \/ demote(k)
    PROVE  PlaceInv'
<1>1. ~maint /\ UNCHANGED <<maint, data, cacheVars, swapVars, total>>
  BY DEF promote, demote, MayMove, scanVars
<1>2. /\ cacheKeys = {} /\ DOMAIN cache = {} /\ DOMAIN cacheRefs = {}
      /\ swap = "Idle" /\ pendKey = NoKey /\ hotKeys = physHot /\ hotList = physHot
      /\ hot \in [Keys -> Slots] /\ cold \in [Keys -> Slots]
  BY <1>1 DEF PlaceInv, Metered, BooksAgree, TypeInv, TypeOK
<1>3. Metered' /\ FpRecorded'
  BY <1>1, <1>2 DEF PlaceInv, Metered, FpRecorded, cacheVars, swapVars
<1>4. RefOf(k) = HomeRef(k) /\ RefOf(k) = search(IF k \in physHot THEN hot ELSE cold, k)
  BY <1>2, RefOfHome, NoKeyNotKey DEF RefOf
<1>5. HomeRef(k) # Absent
  BY HomeRefFacts
<1>6. CASE promote(k)
  <2>1. /\ k \notin physHot /\ cold' = remove(cold, k)
        /\ hot' = insert(hot, k, HomeRef(k))
        /\ hotKeys' = hotKeys \cup {k} /\ physHot' = physHot \cup {k}
        /\ hotList' = hotList \cup {k}
    BY <1>2, <1>4, <1>6 DEF promote
  <2>2. \A j \in Keys : /\ hot'[j] = IF j = k THEN HomeRef(k) ELSE hot[j]
                        /\ cold'[j] = IF j = k THEN Absent ELSE cold[j]
    BY <1>2, <2>1 DEF insert, remove
  <2>3. Placed'
    BY <1>1, <1>2, <1>5, <2>2, KeyAssumption
       DEF PlaceInv, Placed, InHot, InCold, cacheVars, swapVars
  <2>4. OneHome'
    BY <1>1, <1>2, <1>5, <2>2, NoKeyNotKey
       DEF PlaceInv, OneHome, InHot, InCold, cacheVars, swapVars
  <2>5. BooksAgree'
    BY <1>1, <1>2, <1>5, <2>1, <2>2
       DEF PlaceInv, BooksAgree, InHot, cacheVars, swapVars
  <2> QED BY <1>3, <2>3, <2>4, <2>5 DEF PlaceInv
<1>7. CASE demote(k)
  <2>1. /\ k \in physHot /\ hot' = remove(hot, k)
        /\ cold' = insert(cold, k, HomeRef(k))
        /\ hotKeys' = hotKeys \ {k} /\ physHot' = physHot \ {k}
        /\ hotList' = hotList \ {k}
    BY <1>2, <1>4, <1>7 DEF demote
  <2>2. \A j \in Keys : /\ cold'[j] = IF j = k THEN HomeRef(k) ELSE cold[j]
                        /\ hot'[j] = IF j = k THEN Absent ELSE hot[j]
    BY <1>2, <2>1 DEF insert, remove
  <2>3. Placed'
    BY <1>1, <1>2, <1>5, <2>2, KeyAssumption
       DEF PlaceInv, Placed, InHot, InCold, cacheVars, swapVars
  <2>4. OneHome'
    BY <1>1, <1>2, <1>5, <2>2, NoKeyNotKey
       DEF PlaceInv, OneHome, InHot, InCold, cacheVars, swapVars
  <2>5. BooksAgree'
    BY <1>1, <1>2, <1>5, <2>1, <2>2
       DEF PlaceInv, BooksAgree, InHot, cacheVars, swapVars
  <2> QED BY <1>3, <2>3, <2>4, <2>5 DEF PlaceInv
<1> QED BY <1>6, <1>7

(* enable_maintenance moves the lowest hot keys to the cache. *)
LEMMA EnablePlace ==
    ASSUME PlaceInv, TypeInv', ~MixMoves, enable_maintenance
    PROVE  PlaceInv'
<1> DEFINE moved == Lowest(hotList, CacheSize)
<1>1. /\ ~maint /\ maint' = TRUE
      /\ hot' = [k \in Keys |-> IF k \in moved THEN Absent ELSE hot[k]]
      /\ physHot' = physHot \ moved /\ hotList' = hotList \ moved
      /\ cache' = [k \in moved |-> 0]
      /\ cacheKeys' = cacheKeys \cup moved
      /\ cacheRefs' = [k \in DOMAIN cacheRefs \cup moved |->
                          IF k \in moved THEN search(hot, k) ELSE cacheRefs[k]]
      /\ total' = 0 /\ swap' = "Idle"
      /\ UNCHANGED <<cold, hotKeys, data, pendKey, pendRef>>
  BY DEF enable_maintenance, MayMove
<1>2. /\ cacheKeys = {} /\ DOMAIN cacheRefs = {} /\ pendKey = NoKey
      /\ hotKeys = physHot /\ hotList = physHot /\ physHot \subseteq Keys
      /\ hot \in [Keys -> Slots] /\ \A b \in Refs : data[b].meta = NoMeta
      /\ \A k \in Keys : k \in physHot <=> hot[k] # Absent
  BY <1>1 DEF PlaceInv, Metered, BooksAgree, InHot, TypeInv, TypeOK
<1>3. moved \subseteq physHot
  BY <1>2 DEF Lowest
<1>4. \A k \in moved : search(hot, k) = HomeRef(k)
  BY <1>2, <1>3 DEF PlaceInv, Placed, search
<1> HIDE DEF moved
<1>5. DOMAIN cacheRefs' = moved /\ \A k \in moved : cacheRefs'[k] = HomeRef(k)
  BY <1>1, <1>2, <1>4
<1>6. \A j \in Keys : hot'[j] = IF j \in moved THEN Absent ELSE hot[j]
  BY <1>1
<1>7. Placed'
  <2>1. \A j \in StoredKeys : hot'[j] # Absent \/ cold'[j] # Absent
                                \/ j \in cacheKeys' \/ j = pendKey'
    BY <1>1, <1>6, KeyAssumption DEF PlaceInv, Placed, InHot, InCold
  <2> QED
    BY <1>1, <1>2, <1>5, <1>6, <2>1 DEF PlaceInv, Placed, InHot, InCold
<1>8. OneHome'
  <2>1. \A j \in moved : cold[j] = Absent
    BY <1>2, <1>3 DEF PlaceInv, OneHome, InHot, InCold
  <2> QED
    BY <1>1, <1>2, <1>3, <1>6, <2>1, NoKeyNotKey DEF PlaceInv, OneHome, InHot, InCold
<1>9. BooksAgree'
  BY <1>1, <1>2, <1>3, <1>5, <1>6 DEF BooksAgree, InHot
<1>10. Metered'
  <2>1. CacheWithin(cache', 0)
    BY <1>1 DEF CacheWithin
  <2>2. LateEnable /\ ~InitMaint
    BY <1>1 DEF enable_maintenance, PlaceInv, Metered
  <2> QED BY <1>1, <1>2, <2>1, <2>2 DEF Metered, CacheWithin
<1>11. FpRecorded'
  <2> SUFFICES ASSUME TrailersAgree, NEW k \in moved PROVE ScanMeta(HomeRef(k)).fp = 0
    BY <1>1, <1>2 DEF FpRecorded, ScanMeta
  <2>0. ~LongValues
    BY <1>1 DEF TrailersAgree, enable_maintenance, PlaceInv, Metered
  <2>1. k \in Keys
    BY <1>2, <1>3
  <2>2. CASE HomeRef(k) = NoRef
    BY <2>2 DEF ScanMeta
  <2>3. CASE HomeRef(k) \in Refs
    BY <1>2, <2>0, <2>3, RefsNat DEF ScanMeta, Decode
  <2> QED BY <2>1, <2>2, <2>3, HomeRefFacts
<1> QED BY <1>7, <1>8, <1>9, <1>10, <1>11 DEF PlaceInv

-----------------------------------------------------------------------------
(* Every step keeps the placement invariant. *)
LEMMA PlaceStep ==
    ASSUME ~DaHot, ~MixMoves, PlaceInv, [Next]_vars
    PROVE  PlaceInv'
<1>1. TypeInv'
  BY TypeStep DEF PlaceInv
<1>2. CASE UNCHANGED vars
  BY <1>1, <1>2 DEF vars, tierVars, cacheVars, swapVars, scanVars, PlaceInv,
                    Placed, OneHome, BooksAgree, Metered, FpRecorded, ScanMeta,
                    InHot, InCold
<1>3. ASSUME NEW k \in Keys, NEW w \in Requests,
             AccessPending(k, w) \/ AccessCached(k, w) \/ AccessSequential(k, w)
               \/ AccessStatic(k, w)
      PROVE  PlaceInv'
  BY <1>1, <1>3, AccessPendingPlace, AccessCachedPlace, SequentialSearches,
     SearchPlace, StaticStores, AccessStaticPlace
<1>4. ASSUME NEW k \in Keys, promote(k) \/ demote(k) PROVE PlaceInv'
  BY <1>1, <1>4, MovePlace
<1>5. CASE enable_maintenance
  BY <1>1, <1>5, EnablePlace
<1>6. CASE Return
  BY <1>1, <1>6, ReturnPlace
<1> QED BY <1>2, <1>3, <1>4, <1>5, <1>6 DEF Next

(* The placement invariant holds in every reachable state. *)
LEMMA PlaceAlways ==
    ASSUME ~DaHot, ~MixMoves
    PROVE  Spec => []PlaceInv
<1>1. PlaceInv /\ [Next]_vars => PlaceInv'
  BY PlaceStep
<1> QED BY <1>1, PlaceInit, PTL DEF Spec

(* No promotion, demotion, eviction or late insertion loses a record: an   *)
(* access is always led to the block that init gave the key.               *)
THEOREM NoRecordIsLost ==
    ASSUME ~DaHot, ~MixMoves
    PROVE  Spec => []NoRecordLost
<1>1. PlaceInv => NoRecordLost
  BY RefOfHome, KeyAssumption DEF NoRecordLost, HomeRef
<1> QED BY <1>1, PlaceAlways, PTL

(* A key is never in two of hot OMAP, cold OMAP, cache and pending slot.   *)
THEOREM KeysHaveOneHome ==
    ASSUME ~DaHot, ~MixMoves
    PROVE  Spec => []OneHome
<1>1. PlaceInv => OneHome
  BY DEF PlaceInv
<1> QED BY <1>1, PlaceAlways, PTL

(* The client's key sets, which access consults instead of the OMAPs, say  *)
(* what the OMAPs, the manager's cache and the pending slot hold.          *)
THEOREM KeySetsAgree ==
    ASSUME ~DaHot, ~MixMoves
    PROVE  Spec => []BooksAgree
<1>1. PlaceInv => BooksAgree
  BY DEF PlaceInv
<1> QED BY <1>1, PlaceAlways, PTL

(* The manager ranks cached entries by the fp their blocks record, if no   *)
(* payload is read as a trailer: enable_maintenance caches with fp 0,      *)
(* whatever the last bytes of a long block are.                            *)
THEOREM CachedFpIsCurrent ==
    ASSUME ~DaHot, ~MixMoves, TrailersAgree
    PROVE  Spec => []CacheFpCurrent
<1>1. PlaceInv => CacheFpCurrent
  BY DEF PlaceInv, CacheFpCurrent, FpRecorded, Placed, BooksAgree, RefAt
<1> QED BY <1>1, PlaceAlways, PTL

-----------------------------------------------------------------------------
(* Swaps move frequently used keys up and seldom used keys down.           *)

(* The new cache entry of a swap and the entry it pushed out. *)
Improves ==
    swap = "Idle" /\ swap' # "Idle" =>
      \E k \in DOMAIN cache' \ DOMAIN cache :
         /\ pendKey' \in DOMAIN cache
         /\ IF swap' = "ColdPend" THEN cache'[k] > cache[pendKey']
            ELSE cache'[k] < cache[pendKey']

(* A promotion evicts an entry with a smaller fp. *)
LEMMA PromoteImproves ==
    ASSUME PlaceInv, NEW k \in Keys, NEW w \in Requests, SearchTiers(k, w)
    PROVE  Improves
<1> DEFINE e  == obs_epoch(total + 1)
           r  == search(IF k \in physHot THEN hot ELSE cold, k)
           fp == Touch(r, w, e).meta.fp
<1>1. CASE UNCHANGED <<tierVars, cacheVars, swapVars>>
  BY <1>1 DEF Improves, swapVars
<1>2. CASE /\ r # NoRef /\ should_promote(cache, fp)
           /\ PromoteToCache(k, r, fp) /\ k \notin cacheKeys
  <2>1. /\ total + 1 \in Nat /\ cache \in [DOMAIN cache -> Int]
        /\ DOMAIN cache = cacheKeys /\ \E n \in Nat : CacheWithin(cache, n)
    BY DEF PlaceInv, TypeInv, TypeOK, BooksAgree, Metered
  <2>2. e \in Nat
    BY <2>1, EpochNat
  <2>3. r \in Refs
    BY <1>2, SearchType DEF PlaceInv, TypeInv, TypeOK
  <2>4. fp \in Int
    BY <2>2, <2>3, TouchType DEF Metas, PlaceInv, TypeInv, TypeOK
  <2> HIDE DEF e, r, fp
  <2>5. PICK ev \in Evictable(cache, k, fp, FALSE) :
          /\ cache' = cache_admit(cache, k, fp, ev)
          /\ pendKey' = ev /\ swap' = "ColdPend"
    BY <1>2 DEF PromoteToCache
  <2>6. ev \in DOMAIN cache /\ cache[ev] < fp
    BY <1>2, <2>1, <2>4, PromoteEvicts
  <2>7. k \in DOMAIN cache' \ DOMAIN cache /\ cache'[k] = fp
    BY <1>2, <2>1, <2>5, <2>6 DEF cache_admit, With, Without
  <2> QED
    BY <2>1, <2>4, <2>5, <2>6, <2>7 DEF Improves
<1> QED BY <1>1, <1>2 DEF SearchTiers

(* The scan of a hot key sends back an old entry that was used strictly    *)
(* more often than the key.                                                *)
LEMMA ScanEvicts ==
    ASSUME PlaceInv, NEW k \in hotList,
           should_demote_cache(cache, ScanMeta(search(hot, k)).fp),
           NEW ev \in Evictable(cache, k, ScanMeta(search(hot, k)).fp, TRUE)
    PROVE  /\ ev \in DOMAIN cache
           /\ ScanMeta(search(hot, k)).fp \in Int
           /\ cache[ev] > ScanMeta(search(hot, k)).fp
<1> DEFINE fp == ScanMeta(search(hot, k)).fp
<1>1. /\ cache \in [DOMAIN cache -> Int] /\ k \in Keys
      /\ \E n \in Nat : CacheWithin(cache, n)
  BY DEF PlaceInv, TypeInv, TypeOK, Metered
<1>2. fp \in Int
  <2>1. search(hot, k) \in Refs \cup {NoRef}
    BY <1>1, SearchType DEF PlaceInv, TypeInv, TypeOK
  <2>2. CASE search(hot, k) = NoRef
    BY <2>2 DEF ScanMeta
  <2>3. CASE search(hot, k) # NoRef
    <3>1. Decode(data[search(hot, k)]).meta \in Metas
      BY <2>1, <2>3, DecodeType DEF PlaceInv, TypeInv, TypeOK
    <3> QED
      BY <2>3, <3>1 DEF ScanMeta, Metas
  <2> QED BY <2>2, <2>3
<1>3. should_demote_cache(cache, fp) /\ ev \in Evictable(cache, k, fp, TRUE)
  OBVIOUS
<1> HIDE DEF fp
<1>4. ev \in DOMAIN cache /\ cache[ev] > fp
  BY <1>1, <1>2, <1>3, DemoteEvicts
<1> QED BY <1>2, <1>4 DEF fp

(* A demotion evicts an entry with a larger fp. *)
LEMMA DemoteImproves ==
    ASSUME PlaceInv, ~DaHot, do_scan_step
    PROVE  Improves
<1>1. CASE UNCHANGED <<tierVars, cacheVars, swapVars>>
  BY <1>1 DEF Improves, swapVars
<1>2. CASE ~UNCHANGED <<tierVars, cacheVars, swapVars>>
  <2>1. ScanHotList
    BY <1>2 DEF do_scan_step
  <2>2. PICK k \in hotList :
          /\ should_demote_cache(cache, ScanMeta(search(hot, k)).fp)
          /\ DemoteToCache(k, ScanMeta(search(hot, k)).fp)
    BY <1>2, <2>1 DEF ScanHotList
  <2> DEFINE fp == ScanMeta(search(hot, k)).fp
  <2>3. cache \in [DOMAIN cache -> Int] /\ k \notin DOMAIN cache
    BY DEF PlaceInv, TypeInv, TypeOK, OneHome, BooksAgree
  <2>4. PICK ev \in Evictable(cache, k, fp, TRUE) :
          /\ cache' = cache_admit(cache, k, fp, ev)
          /\ pendKey' = ev /\ swap' = "HotPend"
    BY <2>2 DEF DemoteToCache
  <2>5. ev \in DOMAIN cache /\ fp \in Int /\ cache[ev] > fp
    BY <2>2, <2>4, ScanEvicts
  <2> HIDE DEF fp
  <2>6. k \in DOMAIN cache' \ DOMAIN cache /\ cache'[k] = fp
    BY <2>3, <2>4, <2>5 DEF cache_admit, With, Without
  <2> QED
    BY <2>3, <2>4, <2>5, <2>6 DEF Improves
<1> QED BY <1>1, <1>2

(* A step that opens a swap improves the tiers. *)
LEMMA ImprovesStep ==
    ASSUME ~DaHot, PlaceInv, [Next]_vars
    PROVE  [Improves]_vars
<1> SUFFICES ASSUME Next PROVE Improves
  OBVIOUS
<1>1. ASSUME swap' = swap \/ swap' = "Idle" PROVE Improves
  BY <1>1 DEF Improves
<1>2. ASSUME NEW k \in Keys, NEW w \in Requests, AccessSequential(k, w)
      PROVE  Improves
  BY <1>2, SequentialSearches, PromoteImproves
<1>3. CASE Return
  <2>1. CASE do_scan_step
    BY <2>1, DemoteImproves
  <2>2. CASE do_hot_insert_step \/ do_cold_insert_step
    BY <1>1, <2>2 DEF do_hot_insert_step, do_cold_insert_step, ClearPending
  <2>3. CASE UNCHANGED swapVars
    BY <1>1, <2>3 DEF swapVars
  <2> QED BY <1>3, <2>1, <2>2, <2>3 DEF Return
<1>4. ASSUME NEW k \in Keys, NEW w \in Requests,
             AccessPending(k, w) \/ AccessCached(k, w) \/ AccessStatic(k, w)
      PROVE  Improves
  BY <1>1, <1>4 DEF AccessPending, AccessCached, AccessStatic, swapVars
<1>5. ASSUME NEW k \in Keys, promote(k) \/ demote(k) PROVE Improves
  BY <1>1, <1>5 DEF promote, demote, swapVars
<1>6. CASE enable_maintenance
  BY <1>1, <1>6 DEF enable_maintenance
<1> QED BY <1>2, <1>3, <1>4, <1>5, <1>6 DEF Next

(* A key enters the cache only past an entry that was used strictly less   *)
(* (from the cold tier) or strictly more (from the hot tier).              *)
THEOREM SwapsImprove ==
    ASSUME ~DaHot, ~MixMoves
    PROVE  Spec => SwapImproves
<1>1. PlaceInv /\ [Next]_vars => [Improves]_vars
  BY ImprovesStep
<1>2. Spec => [][Improves]_vars
  BY <1>1, PlaceAlways, PTL DEF Spec
<1> QED BY <1>2, PTL DEF SwapImproves, Improves
-----------------------------------------------------------------------------
(* Maintenance trades keys one for one.                                    *)

(* Exchanging one element keeps the size of a finite set. *)
LEMMA ExchangeSize ==
    ASSUME NEW S, IsFiniteSet(S), NEW x \in S, NEW y, y \notin S
    PROVE  Cardinality((S \ {x}) \cup {y}) = Cardinality(S)
<1>1. /\ IsFiniteSet(S \ {x}) /\ Cardinality(S \ {x}) = Cardinality(S) - 1
      /\ Cardinality(S) \in Nat
  BY FS_RemoveElement, FS_CardinalityType
<1>2. Cardinality((S \ {x}) \cup {y}) = Cardinality(S \ {x}) + 1
  BY <1>1, FS_AddElement
<1> QED BY <1>1, <1>2

(* What a step with maintenance on does to the logical hot tier and the    *)
(* cache.                                                                  *)
Trades ==
    maint => /\ Cardinality(hotKeys') = Cardinality(hotKeys)
             /\ Cardinality(DOMAIN cache') = Cardinality(DOMAIN cache)

(* The key sets are finite, and the cached keys belong to the hot tier. *)
LEMMA KeySetsFinite ==
    ASSUME PlaceInv
    PROVE  /\ IsFiniteSet(hotKeys) /\ IsFiniteSet(DOMAIN cache)
           /\ DOMAIN cache \subseteq hotKeys
<1>1. hotKeys \subseteq Keys /\ DOMAIN cache \subseteq hotKeys
  BY DEF PlaceInv, TypeInv, TypeOK, BooksAgree
<1> QED BY <1>1, KeyAssumption, FS_Subset

(* A promotion exchanges the evicted entry for the promoted key, in the    *)
(* hot tier and in the cache.                                              *)
LEMMA SearchTrades ==
    ASSUME PlaceInv, NEW k \in Keys, NEW w \in Requests, SearchTiers(k, w)
    PROVE  Trades
<1> DEFINE e  == obs_epoch(total + 1)
           r  == search(IF k \in physHot THEN hot ELSE cold, k)
           fp == Touch(r, w, e).meta.fp
<1>1. CASE UNCHANGED <<tierVars, cacheVars, swapVars>>
  BY <1>1 DEF Trades, tierVars, cacheVars
<1>2. CASE /\ r # NoRef /\ should_promote(cache, fp) /\ k \notin hotKeys
           /\ PromoteToCache(k, r, fp)
  <2>1. total + 1 \in Nat /\ cache \in [DOMAIN cache -> Int]
        /\ \E n \in Nat : CacheWithin(cache, n)
    BY DEF PlaceInv, TypeInv, TypeOK, Metered
  <2>2. e \in Nat
    BY <2>1, EpochNat
  <2>3. r \in Refs
    BY <1>2, SearchType DEF PlaceInv, TypeInv, TypeOK
  <2>4. fp \in Int
    BY <2>2, <2>3, TouchType DEF Metas, PlaceInv, TypeInv, TypeOK
  <2> HIDE DEF e, r, fp
  <2>5. PICK ev \in Evictable(cache, k, fp, FALSE) :
          /\ cache' = cache_admit(cache, k, fp, ev)
          /\ hotKeys' = (hotKeys \ {ev}) \cup {k}
    BY <1>2 DEF PromoteToCache
  <2>6. ev \in DOMAIN cache
    BY <1>2, <2>1, <2>4, PromoteEvicts
  <2>7. k \notin DOMAIN cache /\ ev \in hotKeys
    BY <1>2, <2>6, KeySetsFinite
  <2>8. DOMAIN cache' = (DOMAIN cache \ {ev}) \cup {k}
    BY <2>5, <2>6, <2>7 DEF cache_admit, With, Without
  <2>9. Cardinality(DOMAIN cache') = Cardinality(DOMAIN cache)
    BY <2>6, <2>7, <2>8, KeySetsFinite, ExchangeSize
  <2>10. Cardinality(hotKeys') = Cardinality(hotKeys)
    BY <1>2, <2>5, <2>7, KeySetsFinite, ExchangeSize
  <2> QED BY <2>9, <2>10 DEF Trades
<1> QED BY <1>1, <1>2 DEF SearchTiers

(* A demotion exchanges two cache entries and leaves the hot tier alone. *)
LEMMA ScanTrades ==
    ASSUME PlaceInv, ~DaHot, do_scan_step
    PROVE  Trades
<1>1. CASE UNCHANGED <<tierVars, cacheVars, swapVars>>
  BY <1>1 DEF Trades, tierVars, cacheVars
<1>2. CASE ~UNCHANGED <<tierVars, cacheVars, swapVars>>
  <2>1. ScanHotList
    BY <1>2 DEF do_scan_step
  <2>2. PICK k \in hotList :
          /\ should_demote_cache(cache, ScanMeta(search(hot, k)).fp)
          /\ DemoteToCache(k, ScanMeta(search(hot, k)).fp)
    BY <1>2, <2>1 DEF ScanHotList
  <2>3. PICK ev :
          /\ cache' = cache_admit(cache, k, ScanMeta(search(hot, k)).fp, ev)
          /\ ev \in Evictable(cache, k, ScanMeta(search(hot, k)).fp, TRUE)
          /\ hotKeys' = hotKeys
    BY <2>2 DEF DemoteToCache
  <2>4. ev \in DOMAIN cache
    BY <2>2, <2>3, ScanEvicts
  <2>5. k \notin DOMAIN cache
    BY DEF PlaceInv, TypeInv, TypeOK, OneHome, BooksAgree
  <2>6. DOMAIN cache' = (DOMAIN cache \ {ev}) \cup {k}
    BY <2>3, <2>4, <2>5 DEF cache_admit, With, Without
  <2>7. Cardinality(DOMAIN cache') = Cardinality(DOMAIN cache)
    BY <2>4, <2>5, <2>6, KeySetsFinite, ExchangeSize
  <2> QED BY <2>3, <2>7 DEF Trades
<1> QED BY <1>1, <1>2

(* The end of access trades one for one. *)
LEMMA ReturnTrades ==
    ASSUME PlaceInv, ~DaHot, Return
    PROVE  Trades
<1>1. CASE do_scan_step
  BY <1>1, ScanTrades
<1>2. CASE do_hot_insert_step \/ do_cold_insert_step
  BY <1>2 DEF do_hot_insert_step, do_cold_insert_step, cacheVars, Trades
<1>3. CASE UNCHANGED <<tierVars, cacheVars, swapVars, scanPtr, daQueue>>
  BY <1>3 DEF tierVars, cacheVars, Trades
<1> QED BY <1>1, <1>2, <1>3 DEF Return

(* Serving a pending or a cached key adds and removes no entry. *)
LEMMA HitTrades ==
    ASSUME NEW k, NEW w, AccessPending(k, w) \/ AccessCached(k, w)
    PROVE  Trades
<1>1. hotKeys' = hotKeys /\ DOMAIN cache' = DOMAIN cache
  BY DEF AccessPending, AccessCached, tierVars, cacheVars
<1> QED BY <1>1 DEF Trades

(* Every step trades one for one. *)
LEMMA TradesStep ==
    ASSUME ~DaHot, ~MixMoves, PlaceInv, [Next]_vars
    PROVE  [Trades]_vars
<1> SUFFICES ASSUME Next PROVE Trades
  OBVIOUS
<1>1. ASSUME ~maint PROVE Trades
  BY <1>1 DEF Trades
<1>2. ASSUME NEW k \in Keys, NEW w \in Requests, AccessSequential(k, w)
      PROVE  Trades
  BY <1>2, SequentialSearches, SearchTrades
<1>3. ASSUME NEW k \in Keys, NEW w \in Requests,
             AccessPending(k, w) \/ AccessCached(k, w)
      PROVE  Trades
  BY <1>3, HitTrades
<1>4. ASSUME NEW k \in Keys, NEW w \in Requests, AccessStatic(k, w)
      PROVE  Trades
  BY <1>1, <1>4 DEF AccessStatic
<1>5. ASSUME NEW k \in Keys, promote(k) \/ demote(k) PROVE Trades
  BY <1>1, <1>5 DEF promote, demote, MayMove
<1>6. CASE enable_maintenance
  BY <1>1, <1>6 DEF enable_maintenance, MayMove
<1>7. CASE Return
  BY <1>7, ReturnTrades
<1> QED BY <1>2, <1>3, <1>4, <1>5, <1>6, <1>7 DEF Next

(* With maintenance on, the hot tier and the cache keep their sizes.       *)
THEOREM TradesKeepSizes ==
    ASSUME ~DaHot, ~MixMoves
    PROVE  Spec => SizesKept
<1>1. PlaceInv /\ [Next]_vars => [Trades]_vars
  BY TradesStep
<1>2. Spec => [][Trades]_vars
  BY <1>1, PlaceAlways, PTL DEF Spec
<1> QED BY <1>2, PTL DEF SizesKept, Trades
-----------------------------------------------------------------------------
(* An evicted entry is inserted within one swap interval.                  *)

(* A remainder is determined by its range. *)
LEMMA Remainder ==
    ASSUME NEW n \in Nat \ {0}, NEW q \in Nat, NEW p \in 0 .. n - 1
    PROVE  (q * n + p) % n = p
<1> DEFINE a == q * n + p
           d == a \div n
           m == a % n
<1>1. a \in Nat
  OBVIOUS
<1>2. d \in Int /\ m \in 0 .. n - 1 /\ q * n + p = n * d + m
  BY <1>1
<1> HIDE DEF d, m
<1>3. n * (q - d) = m - p
  BY <1>2
<1>4. q - d < 1
  <2>1. q - d >= 1 => n * (q - d) >= n
    BY <1>2
  <2> QED BY <1>2, <1>3, <2>1
<1>5. q - d > -1
  <2>1. q - d <= -1 => n * (q - d) <= -n
    BY <1>2
  <2> QED BY <1>2, <1>3, <2>1
<1>6. q = d
  BY <1>2, <1>4, <1>5
<1> QED BY <1>2, <1>6 DEF m

(* Every phase comes round once in n accesses. *)
LEMMA PhaseComesRound ==
    ASSUME NEW n \in Nat \ {0}, NEW p \in 0 .. n - 1, NEW a \in Nat
    PROVE  \E t \in a .. a + n - 1 : t % n = p
<1> DEFINE q == a \div n
           r == a % n
<1>1. q \in Nat /\ r \in 0 .. n - 1 /\ a = q * n + r
  OBVIOUS
<1> HIDE DEF q, r
<1>2. CASE r <= p
  <2>1. q * n + p \in a .. a + n - 1
    BY <1>1, <1>2
  <2> QED BY <1>1, <2>1, Remainder
<1>3. CASE r > p
  <2>1. (q + 1) * n + p \in a .. a + n - 1
    BY <1>1, <1>3
  <2>2. q + 1 \in Nat
    BY <1>1
  <2> QED BY <2>1, <2>2, Remainder
<1> QED BY <1>1, <1>2, <1>3

(* Maintenance steps are taken once the first window is over. *)
LEMMA MaintainsAfterWindow ==
    ASSUME NEW t \in Nat
    PROVE  /\ obs_epoch(t) > 0 <=> t >= ObsWindow
           /\ can_maintain(t) <=> t >= ObsWindow
<1>1. ASSUME NEW n \in Nat \ {0} PROVE t \div n > 0 <=> t >= n
  OBVIOUS
<1> QED BY <1>1, ConfigAssumption DEF obs_epoch, can_maintain

(* The phase at which the open swap is closed. *)
InsertPhase == IF swap = "HotPend" THEN hot_insert_phase ELSE cold_insert_phase

(* A frequency is recorded only after the first window. *)
Epochs ==
    \A b \in Refs : data[b].meta # NoMeta =>
        data[b].meta.ep >= 0 /\ (data[b].meta.fp > 0 => total >= ObsWindow)

(* A swap is opened when maintenance steps are taken, and its phase has    *)
(* not come since; for the access under way it may still come.             *)
Waiting ==
    swap # "Idle" =>
      /\ pendSince >= ObsWindow /\ pendSince <= total
      /\ \A t \in pendSince + 1 .. total :
            t < total \/ req = NoRequest => phase(t) # InsertPhase

Timely == Epochs /\ Waiting

(* The write-back of an access records a frequency only after the first    *)
(* window.                                                                 *)
LEMMA TouchEpoch ==
    ASSUME PlaceInv, TrailersAgree, maint, Epochs, NEW r \in Refs, NEW w \in Requests
    PROVE  LET m == Touch(r, w, obs_epoch(total + 1)).meta
           IN  m.ep >= 0 /\ (m.fp > 0 => total + 1 >= ObsWindow)
<1> DEFINE m == Decode(data[r]).meta
           e == obs_epoch(total + 1)
<1>1. total \in Nat /\ total + 1 \in Nat /\ data[r] \in Blocks
      /\ ObsWindow \in Nat
  BY ConfigAssumption DEF PlaceInv, TypeInv, TypeOK
<1>2. m \in Metas
  BY <1>1, DecodeType
<1>3. /\ m.ep >= 0 \/ (m.ep = -1 /\ m.cnt = 0)
      /\ m.fp > 0 => total >= ObsWindow
  BY <1>1, Trailed DEF Epochs, Decode
<1>4. e \in Nat /\ (e > 0 => total + 1 >= ObsWindow)
  BY <1>1, EpochNat, MaintainsAfterWindow
<1>5. Touch(r, w, e).meta = update_meta(m, e)
  BY DEF Touch
<1>6. m.ep \in Int /\ m.cnt \in Nat /\ m.fp \in Nat
  BY <1>2, DecodeCounts DEF Metas
<1> HIDE DEF m, e
<1>7. update_meta(m, e).ep >= 0
  BY <1>3, <1>4, <1>6 DEF update_meta
<1>8. update_meta(m, e).fp > 0 => total + 1 >= ObsWindow
  BY <1>1, <1>3, <1>4, <1>6 DEF update_meta
<1> QED BY <1>5, <1>7, <1>8 DEF e

(* Serving a request keeps the epochs in order. *)
LEMMA StoreEpochs ==
    ASSUME PlaceInv, TrailersAgree, maint, Epochs,
           NEW r \in Refs \cup {NoRef}, NEW w \in Requests,
           Stores(r, w, obs_epoch(total + 1)), total' = total + 1
    PROVE  Epochs'
<1>1. total \in Nat /\ data \in [Refs -> Blocks] /\ ObsWindow \in Nat
  BY ConfigAssumption DEF PlaceInv, TypeInv, TypeOK
<1>2. \A b \in Refs : data[b].meta # NoMeta =>
        data[b].meta.ep >= 0 /\ (data[b].meta.fp > 0 => total' >= ObsWindow)
  BY <1>1 DEF Epochs
<1>3. CASE r = NoRef
  BY <1>2, <1>3 DEF Stores, Epochs
<1>4. CASE r # NoRef
  <2> DEFINE new == Touch(r, w, obs_epoch(total + 1))
  <2>1. new.meta.ep >= 0 /\ (new.meta.fp > 0 => total' >= ObsWindow)
    BY <1>4, TouchEpoch
  <2>2. data' = [data EXCEPT ![r] = new]
    BY <1>4 DEF Stores
  <2> HIDE DEF new
  <2> QED
    BY <1>1, <1>2, <2>1, <2>2 DEF Epochs
<1> QED BY <1>3, <1>4

(* An access that leaves the swap alone: the phase of the access before    *)
(* it is past, its own is still to come.                                   *)
LEMMA WaitGoesOn ==
    ASSUME PlaceInv, Waiting, req = NoRequest, req' # NoRequest,
           total' = total + 1, swap' = swap, pendSince' = pendSince
    PROVE  Waiting'
<1>1. total \in Nat /\ pendSince \in Nat
  BY DEF PlaceInv, TypeInv, TypeOK
<1>2. InsertPhase' = InsertPhase
  BY DEF InsertPhase
<1> SUFFICES ASSUME swap # "Idle"
             PROVE  /\ pendSince >= ObsWindow /\ pendSince <= total + 1
                    /\ \A t \in pendSince + 1 .. total + 1 :
                          t < total + 1 => phase(t) # InsertPhase
  BY <1>2 DEF Waiting
<1>3. /\ pendSince >= ObsWindow /\ pendSince <= total
      /\ \A t \in pendSince + 1 .. total : phase(t) # InsertPhase
  BY DEF Waiting
<1> QED BY <1>1, <1>3

(* A swap opened by this step has missed no phase. *)
LEMMA WaitBegins ==
    ASSUME total' \in Nat, pendSince' = total', total' >= ObsWindow
    PROVE  Waiting'
<1>1. pendSince' <= total' /\ pendSince' >= ObsWindow
  OBVIOUS
<1>2. \A t \in pendSince' + 1 .. total' : FALSE
  <2>1. \A n \in Nat : n + 1 .. n = {}
    OBVIOUS
  <2> QED BY <2>1
<1> QED BY <1>1, <1>2 DEF Waiting

(* A request is not the empty one. *)
LEMMA RequestNamesKey ==
    ASSUME NEW k \in Keys, NEW w
    PROVE  <<k, w>> # NoRequest
BY NoKeyNotKey DEF NoRequest

(* A search of the tiers keeps the times. *)
LEMMA SearchTimely ==
    ASSUME PlaceInv, TrailersAgree, Timely, NEW k \in Keys, NEW w \in Requests,
           req = NoRequest, req' = <<k, w>>, SearchTiers(k, w)
    PROVE  Timely'
<1> DEFINE r  == search(IF k \in physHot THEN hot ELSE cold, k)
           fp == Touch(r, w, obs_epoch(total + 1)).meta.fp
<1>1. total \in Nat /\ total + 1 \in Nat /\ cache \in [DOMAIN cache -> Nat]
      /\ total' = total + 1 /\ maint
  BY CacheCounts DEF PlaceInv, TypeInv, TypeOK, SearchTiers
<1>2. r \in Refs \cup {NoRef}
  BY SearchType DEF PlaceInv, TypeInv, TypeOK
<1>3. Epochs'
  <2>1. Stores(r, w, obs_epoch(total + 1))
    BY DEF SearchTiers
  <2> HIDE DEF r
  <2> QED BY <1>1, <1>2, <2>1, StoreEpochs DEF Timely
<1>4. CASE UNCHANGED <<tierVars, cacheVars, swapVars>>
  <2>1. Waiting'
    BY <1>1, <1>4, WaitGoesOn, RequestNamesKey DEF Timely, swapVars
  <2> QED BY <1>3, <2>1 DEF Timely
<1>5. CASE /\ r # NoRef /\ should_promote(cache, fp) /\ PromoteToCache(k, r, fp)
  <2>1. fp \in Nat /\ (fp > 0 => total + 1 >= ObsWindow)
    <3>1. r \in Refs
      BY <1>2, <1>5
    <3>2. fp \in Nat
      BY <1>1, <3>1, EpochNat, TouchCounts
    <3>3. fp > 0 => total + 1 >= ObsWindow
      BY <1>1, <3>1, TouchEpoch DEF Timely
    <3> QED BY <3>2, <3>3
  <2>2. pendSince' = total'
    BY <1>5 DEF PromoteToCache
  <2> HIDE DEF r, fp
  <2>3. fp > 0
    <3>1. PICK x \in DOMAIN cache : fp > cache[x]
      BY <1>5 DEF should_promote
    <3> QED BY <1>1, <2>1, <3>1
  <2>4. Waiting'
    BY <1>1, <2>1, <2>2, <2>3, WaitBegins
  <2> QED BY <1>3, <2>4 DEF Timely
<1> QED BY <1>4, <1>5 DEF SearchTiers

(* Serving a pending or a cached key keeps the times. *)
LEMMA HitTimely ==
    ASSUME PlaceInv, TrailersAgree, Timely, NEW k \in Keys, NEW w \in Requests,
           AccessPending(k, w) \/ AccessCached(k, w)
    PROVE  Timely'
<1> DEFINE r == RefOf(k)
<1>1. /\ req = NoRequest /\ req' = <<k, w>> /\ total' = total + 1 /\ maint
      /\ UNCHANGED swapVars /\ Stores(r, w, obs_epoch(total + 1))
  BY TouchStores DEF AccessPending, AccessCached, Begin, RefOf
<1>2. r \in Refs \cup {NoRef}
  BY RefOfHome, HomeRefFacts
<1> HIDE DEF r
<1>3. Epochs'
  BY <1>1, <1>2, StoreEpochs DEF Timely
<1>4. Waiting'
  BY <1>1, WaitGoesOn, RequestNamesKey DEF Timely, swapVars
<1> QED BY <1>3, <1>4 DEF Timely

(* The end of access closes the open swap when its phase has come. *)
LEMMA ReturnTimely ==
    ASSUME PlaceInv, Timely, ~DaHot, Return
    PROVE  Timely'
<1>1. /\ data' = data /\ total' = total /\ req # NoRequest /\ req' = NoRequest
  BY DEF Return
<1>2. /\ total \in Nat /\ pendSince \in Nat /\ ObsWindow \in Nat
      /\ swap \in {"Idle", "HotPend", "ColdPend"}
  BY ConfigAssumption DEF PlaceInv, TypeInv, TypeOK
<1>3. Epochs'
  BY <1>1 DEF Timely, Epochs
<1> SUFFICES Waiting'
  BY <1>3 DEF Timely
<1>4. ASSUME swap' = "Idle" PROVE Waiting'
  BY <1>4 DEF Waiting
<1>5. ASSUME swap' = swap, pendSince' = pendSince,
             swap # "Idle" => phase(total) # InsertPhase
      PROVE  Waiting'
  <2>1. InsertPhase' = InsertPhase
    BY <1>5 DEF InsertPhase
  <2>2. swap # "Idle" =>
          /\ pendSince >= ObsWindow /\ pendSince <= total
          /\ \A t \in pendSince + 1 .. total : t < total => phase(t) # InsertPhase
    BY DEF Timely, Waiting
  <2>3. swap # "Idle" => \A t \in pendSince + 1 .. total : phase(t) # InsertPhase
    BY <1>2, <1>5, <2>2
  <2> QED BY <1>1, <1>5, <2>1, <2>2, <2>3 DEF Waiting
<1>6. /\ hot_insert_phase # 0 /\ cold_insert_phase # 0
      /\ hot_insert_phase # cold_insert_phase
  BY ConfigAssumption DEF hot_insert_phase, cold_insert_phase, maxOf
<1>7. CASE should_scan(total) /\ do_scan_step
  <2>1. CASE UNCHANGED <<tierVars, cacheVars, swapVars>>
    BY <1>5, <1>6, <1>7, <2>1 DEF should_scan, InsertPhase, swapVars
  <2>2. CASE ~UNCHANGED <<tierVars, cacheVars, swapVars>>
    <3>1. ScanHotList
      BY <1>7, <2>2 DEF do_scan_step
    <3>2. pendSince' = total
      BY <2>2, <3>1 DEF ScanHotList, DemoteToCache
    <3>3. total >= ObsWindow
      BY <1>2, <1>7, MaintainsAfterWindow DEF should_scan
    <3> QED BY <1>1, <1>2, <3>2, <3>3, WaitBegins
  <2> QED BY <2>1, <2>2
<1>8. CASE should_hot_insert(total) /\ do_hot_insert_step
  <2>1. CASE swap = "HotPend"
    BY <1>4, <1>8, <2>1 DEF do_hot_insert_step, ClearPending
  <2>2. CASE swap # "HotPend"
    BY <1>5, <1>6, <1>8, <2>2
       DEF do_hot_insert_step, should_hot_insert, InsertPhase
  <2> QED BY <2>1, <2>2
<1>9. CASE should_cold_insert(total) /\ do_cold_insert_step
  <2>1. CASE swap = "ColdPend"
    BY <1>4, <1>9, <2>1 DEF do_cold_insert_step, ClearPending
  <2>2. CASE swap # "ColdPend"
    BY <1>2, <1>5, <1>6, <1>9, <2>2
       DEF do_cold_insert_step, should_cold_insert, InsertPhase
  <2> QED BY <2>1, <2>2
<1>10. CASE /\ maint => /\ ~should_hot_insert(total) /\ ~should_cold_insert(total)
            /\ UNCHANGED swapVars
  <2>1. ASSUME swap # "Idle" PROVE phase(total) # InsertPhase
    <3>1. maint
      BY <2>1 DEF PlaceInv, Metered
    <3>2. total >= ObsWindow
      BY <1>2, <2>1 DEF Timely, Waiting
    <3>3. can_maintain(total)
      BY <1>2, <3>2, MaintainsAfterWindow
    <3> QED
      BY <1>10, <3>1, <3>3 DEF should_hot_insert, should_cold_insert, InsertPhase
  <2> QED BY <1>5, <1>10, <2>1 DEF swapVars
<1> QED BY <1>7, <1>8, <1>9, <1>10 DEF Return

(* While maintenance is off there is nothing to time. *)
LEMMA OffTimely ==
    ASSUME PlaceInv', ~maint'
    PROVE  Timely'
BY DEF PlaceInv, Metered, Timely, Epochs, Waiting

(* The times hold initially and after every step. *)
LEMMA TimelyInit == Init => Timely
<1> SUFFICES ASSUME Init PROVE Timely
  OBVIOUS
<1>1. PICK v \in Values :
        data = [b \in Refs |->
                  [val  |-> v,
                   meta |-> IF InitMaint THEN [cnt |-> 0, ep |-> 0, fp |-> 0]
                            ELSE NoMeta]]
  BY DEF Init
<1>2. Epochs
  BY <1>1 DEF Epochs
<1>3. Waiting
  BY DEF Init, Waiting
<1> QED BY <1>2, <1>3 DEF Timely

(* enable_maintenance starts to count from zero. *)
LEMMA EnableTimely ==
    ASSUME PlaceInv, ~MixMoves, enable_maintenance
    PROVE  Timely'
<1>1. ~maint /\ data' = data /\ swap' = "Idle"
  BY DEF enable_maintenance, MayMove
<1>2. \A b \in Refs : data[b].meta = NoMeta
  BY <1>1 DEF PlaceInv, Metered
<1> QED BY <1>1, <1>2 DEF Timely, Epochs, Waiting

(* Every step keeps the times. *)
LEMMA TimelyStep ==
    ASSUME ~DaHot, ~MixMoves, TrailersAgree, PlaceInv, PlaceInv', Timely, [Next]_vars
    PROVE  Timely'
<1>1. CASE UNCHANGED vars
  BY <1>1 DEF vars, swapVars, callVars, Timely, Epochs, Waiting, InsertPhase
<1>2. ASSUME NEW k \in Keys, NEW w \in Requests,
             AccessPending(k, w) \/ AccessCached(k, w)
      PROVE  Timely'
  BY <1>2, HitTimely
<1>3. ASSUME NEW k \in Keys, NEW w \in Requests, AccessSequential(k, w)
      PROVE  Timely'
  <2>1. req = NoRequest /\ req' = <<k, w>>
    BY <1>3 DEF AccessSequential, Begin
  <2> QED BY <1>3, <2>1, SequentialSearches, SearchTimely
<1>4. ASSUME NEW k \in Keys, NEW w \in Requests, AccessStatic(k, w)
      PROVE  Timely'
  BY <1>4, OffTimely DEF AccessStatic
<1>5. ASSUME NEW k \in Keys, promote(k) \/ demote(k) PROVE Timely'
  BY <1>5, OffTimely DEF promote, demote, MayMove
<1>6. CASE enable_maintenance
  BY <1>6, EnableTimely
<1>7. CASE Return
  BY <1>7, ReturnTimely
<1> QED BY <1>1, <1>2, <1>3, <1>4, <1>5, <1>6, <1>7 DEF Next

(* With intervals of at least 3 both phases lie within the interval, so an *)
(* interval without them has fewer accesses.                               *)
LEMMA TimelyInTime ==
    ASSUME SwapInterval >= 3, TypeInv, Timely
    PROVE  PendingInsertedInTime
<1> SUFFICES ASSUME req = NoRequest, swap # "Idle",
                    total - pendSince >= SwapInterval
             PROVE  FALSE
  BY ConfigAssumption DEF PendingInsertedInTime, TypeInv, TypeOK
<1>1. SwapInterval \in Nat \ {0} /\ total \in Nat /\ pendSince \in Nat
  BY ConfigAssumption DEF TypeInv, TypeOK
<1>2. InsertPhase \in 0 .. SwapInterval - 1
  BY <1>1 DEF InsertPhase, hot_insert_phase, cold_insert_phase, maxOf
<1>3. PICK t \in pendSince + 1 .. pendSince + 1 + SwapInterval - 1 :
        t % SwapInterval = InsertPhase
  <2>1. pendSince + 1 \in Nat
    BY <1>1
  <2> QED BY <1>1, <1>2, <2>1, PhaseComesRound
<1>4. t \in pendSince + 1 .. total
  BY <1>1, <1>3
<1> QED BY <1>3, <1>4 DEF Timely, Waiting, phase

(* An evicted entry waits less than one swap interval for its insertion.   *)
(* For intervals below 3 a phase lies outside the interval and is never    *)
(* reached; with payloads read as trailers a swap can be opened before the *)
(* first window, in which no insert step is taken.                         *)
THEOREM InsertedInTime ==
    ASSUME ~DaHot, ~MixMoves, SwapInterval >= 3, TrailersAgree
    PROVE  Spec => []PendingInsertedInTime
<1>1. Timely /\ PlaceInv /\ PlaceInv' /\ [Next]_vars => Timely'
  BY TimelyStep
<1>2. Timely /\ PlaceInv => PendingInsertedInTime
  BY TimelyInTime DEF PlaceInv
<1> QED BY <1>1, <1>2, TimelyInit, PlaceAlways, PTL DEF Spec

(***************************************************************************)
(* TieredOMap implements KeyValueMap: what its client reads and writes is  *)
(* a plain map, whatever the tiers, the cache and the maintenance do.      *)
(***************************************************************************)


(* No payload has lost its end. *)
Whole == \A b \in Refs : data[b].val \in Values

RefInv == PlaceInv /\ Whole

(* The value the client sees for a key, read off its own block. *)
Seen(k) == IF HomeRef(k) = NoRef THEN NoValue ELSE data[HomeRef(k)].val
MapIsSeen == \A k \in Keys : ValueOf(k) = Seen(k)

(* The client sees, for each key, the payload of its block. *)
LEMMA SeenValue == PlaceInv => MapIsSeen
BY RefOfHome DEF ValueOf, Seen, MapIsSeen

(* Decoding a whole block yields its payload. *)
LEMMA DecodeWhole ==
    ASSUME RefInv, TrailersAgree, maint, NEW r \in Refs
    PROVE  Decode(data[r]).val = data[r].val
<1>1. data[r].meta # NoMeta \/ ~LongValues
  BY Trailed DEF RefInv
<1> QED BY <1>1 DEF Decode

(* With whole blocks an access writes back the payload it read or the new  *)
(* one.                                                                    *)
LEMMA TouchValue ==
    ASSUME RefInv, TrailersAgree, maint, NEW r \in Refs, NEW w, NEW e
    PROVE  Touch(r, w, e).val = IF w = NoWrite THEN data[r].val ELSE w
<1>1. Touch(r, w, e).val = Payload(Decode(data[r]), w)
  BY DEF Touch
<1>2. Decode(data[r]).val = data[r].val
  BY DecodeWhole
<1> QED BY <1>1, <1>2 DEF Payload

(* What an access may answer: a read the payload, a write the payload or   *)
(* the one it replaced.                                                    *)
MayAnswer(k, w) == reply' \in IF w = NoWrite THEN {Seen(k)} ELSE {Seen(k), w}

(* Serving a request through the key's own reference, with such an answer, *)
(* is an access of the abstract map.                                       *)
LEMMA ServeRefines ==
    ASSUME RefInv, TrailersAgree, MapIsSeen, MapIsSeen',
           NEW k \in Keys, NEW w \in Requests, NEW e \in Nat,
           maint, maint' = maint, req = NoRequest, req' = <<k, w>>,
           Stores(HomeRef(k), w, e), MayAnswer(k, w)
    PROVE  KV!Access(k, w) /\ Whole'
<1> DEFINE r == HomeRef(k)
<1>1. /\ data \in [Refs -> Blocks] /\ r \in Refs \cup {NoRef}
      /\ \A b \in Refs : data[b].val \in Values
      /\ NoValue \notin Values /\ NoWrite \notin Values
  BY HomeRefFacts, MarkAssumption DEF RefInv, Whole, PlaceInv, TypeInv, TypeOK
<1>2. CASE r = NoRef
  <2>1. data' = data /\ reply' \in IF w = NoWrite THEN {NoValue} ELSE {NoValue, w}
    BY <1>2 DEF Stores, MayAnswer, Seen
  <2>2. Whole'
    BY <2>1 DEF RefInv, Whole
  <2>3. \A j \in Keys : ValueOf(j)' = ValueOf(j)
    BY <2>1 DEF MapIsSeen, Seen
  <2>4. ValueOf(k) = NoValue
    BY <1>2 DEF MapIsSeen, Seen
  <2> QED
    BY <2>1, <2>2, <2>3, <2>4 DEF KV!Access
<1>3. CASE r # NoRef
  <2> DEFINE v == IF w = NoWrite THEN data[r].val ELSE w
  <2>1. r \in Refs
    BY <1>1, <1>3
  <2>2. /\ data' = [data EXCEPT ![r] = Touch(r, w, e)]
        /\ reply' \in IF w = NoWrite THEN {data[r].val} ELSE {data[r].val, w}
    BY <1>3 DEF Stores, MayAnswer, Seen
  <2>3. Touch(r, w, e).val = v
    BY <2>1, TouchValue
  <2>4. Touch(r, w, e).meta # NoMeta
    BY <1>1, <2>1, TouchType, MarkAssumption
  <2>5. data'[r].val = v /\ data'[r].meta # NoMeta
        /\ \A b \in Refs \ {r} : data'[b] = data[b]
    BY <1>1, <2>1, <2>2, <2>3, <2>4
  <2>6. v \in Values
    BY <1>1, <2>1 DEF Requests
  <2>7. Whole'
    BY <2>5, <2>6 DEF RefInv, Whole
  <2>8. ValueOf(k) = data[r].val /\ ValueOf(k)' = v /\ ValueOf(k) \in Values
    BY <1>1, <1>3, <2>1, <2>5 DEF MapIsSeen, Seen
  <2>9. \A j \in Keys \ {k} : ValueOf(j)' = ValueOf(j)
    <3> SUFFICES ASSUME NEW j \in Keys \ {k} PROVE Seen(j)' = Seen(j)
      BY DEF MapIsSeen
    <3>1. HomeRef(j) = NoRef \/ HomeRef(j) \in Refs \ {r}
      BY <1>3, HomeRefFacts
    <3> QED BY <2>5, <3>1 DEF Seen
  <2> HIDE DEF r, v
  <2>10. [j \in Keys |-> ValueOf(j)]' =
           IF w = NoWrite THEN [j \in Keys |-> ValueOf(j)]
           ELSE [[j \in Keys |-> ValueOf(j)] EXCEPT ![k] = w]
    BY <2>8, <2>9 DEF v
  <2> QED
    BY <1>1, <2>2, <2>7, <2>8, <2>10 DEF KV!Access
<1> QED BY <1>2, <1>3

(* A step that leaves the blocks and the call alone is not visible. *)
LEMMA HiddenStep ==
    ASSUME MapIsSeen, MapIsSeen', Whole, data' = data
    PROVE  /\ [j \in Keys |-> ValueOf(j)]' = [j \in Keys |-> ValueOf(j)]
           /\ Whole'
<1>1. \A j \in Keys : ValueOf(j)' = ValueOf(j)
  BY DEF MapIsSeen, Seen
<1> QED BY <1>1 DEF Whole

(* An access with maintenance is an access of the key-value map. *)
LEMMA AccessRefines ==
    ASSUME RefInv, TrailersAgree, MapIsSeen, MapIsSeen',
           NEW k \in Keys, NEW w \in Requests,
           AccessPending(k, w) \/ AccessCached(k, w) \/ AccessSequential(k, w)
    PROVE  KV!Access(k, w) /\ Whole'
<1> DEFINE e == obs_epoch(total + 1)
<1>1. /\ req = NoRequest /\ req' = <<k, w>> /\ maint /\ maint' = maint
      /\ TouchRef(RefOf(k), w, e)
  <2>1. CASE AccessPending(k, w)
    BY <2>1 DEF AccessPending, Begin, RefOf
  <2>2. CASE AccessCached(k, w)
    BY <2>2 DEF AccessCached, Begin, RefOf
  <2>3. CASE AccessSequential(k, w)
    BY <2>3 DEF AccessSequential, Begin, RefOf
  <2> QED BY <2>1, <2>2, <2>3
<1>2. e \in Nat
  <2>1. total + 1 \in Nat
    BY DEF RefInv, PlaceInv, TypeInv, TypeOK
  <2> QED BY <2>1, EpochNat
<1>3. RefOf(k) = HomeRef(k)
  BY RefOfHome DEF RefInv
<1> HIDE DEF e
<1>4. MayAnswer(k, w)
  BY <1>1, <1>3, HomeRefFacts, TouchValue DEF TouchRef, MayAnswer, Seen
<1> QED BY <1>1, <1>2, <1>3, <1>4, TouchStores, ServeRefines

(* Without maintenance the search leads to the key's own block. *)
LEMMA StaticSearch ==
    ASSUME RefInv, ~maint, NEW k \in Keys
    PROVE  search(IF k \in physHot THEN hot ELSE cold, k) = HomeRef(k)
<1>1. k # pendKey /\ k \notin cacheKeys
  BY NoKeyNotKey DEF RefInv, PlaceInv, Metered, BooksAgree
<1>2. RefOf(k) = HomeRef(k)
  BY RefOfHome DEF RefInv
<1> QED BY <1>1, <1>2 DEF RefOf

(* An access without maintenance is an access of the key-value map. *)
LEMMA StaticRefines ==
    ASSUME RefInv, MapIsSeen, MapIsSeen', NEW k \in Keys, NEW w \in Requests,
           StoresStatic(k, w), req = NoRequest, req' = <<k, w>>, MayAnswer(k, w)
    PROVE  KV!Access(k, w) /\ Whole'
<1> DEFINE r == HomeRef(k)
<1>1. /\ data \in [Refs -> Blocks] /\ r \in Refs \cup {NoRef}
      /\ \A b \in Refs : data[b].val \in Values
      /\ NoValue \notin Values /\ NoWrite \notin Values
  BY HomeRefFacts, MarkAssumption DEF RefInv, Whole, PlaceInv, TypeInv, TypeOK
<1>2. ~maint /\ maint' = maint
  BY DEF StoresStatic
<1>3. search(IF k \in physHot THEN hot ELSE cold, k) = r
  BY <1>2, StaticSearch
<1>4. CASE r = NoRef
  <2>1. data' = data /\ reply' \in IF w = NoWrite THEN {NoValue} ELSE {NoValue, w}
    BY <1>3, <1>4 DEF StoresStatic, MayAnswer, Seen
  <2>2. \A j \in Keys : ValueOf(j)' = ValueOf(j)
    BY <2>1 DEF MapIsSeen, Seen
  <2>3. ValueOf(k) = NoValue
    BY <1>4 DEF MapIsSeen, Seen
  <2>4. Whole'
    BY <1>2, <2>1 DEF RefInv, Whole
  <2> QED
    BY <1>2, <2>1, <2>2, <2>3, <2>4 DEF KV!Access
<1>5. CASE r # NoRef
  <2> DEFINE v == IF w = NoWrite THEN data[r].val ELSE w
  <2>1. r \in Refs
    BY <1>1, <1>5
  <2>2. /\ data' = [data EXCEPT ![r] = [val |-> v, meta |-> data[r].meta]]
        /\ reply' \in IF w = NoWrite THEN {data[r].val} ELSE {data[r].val, w}
    <3>1. data' = [data EXCEPT ![r] = [val |-> v, meta |-> data[r].meta]]
      <4>1. Payload(data[r], w) = v
        BY DEF Payload
      <4>2. data' = [data EXCEPT ![r] = [val  |-> Payload(data[r], w),
                                         meta |-> data[r].meta]]
        <5> HIDE DEF r
        <5> QED BY <1>3, <1>5 DEF StoresStatic
      <4> QED BY <4>1, <4>2
    <3>2. Seen(k) = data[r].val
      BY <1>5 DEF Seen
    <3> QED BY <3>1, <3>2 DEF MayAnswer
  <2>3. data'[r].val = v /\ data'[r].meta = data[r].meta
        /\ \A b \in Refs \ {r} : data'[b] = data[b]
    BY <1>1, <2>1, <2>2
  <2>4. v \in Values
    BY <1>1, <2>1 DEF Requests
  <2>5. Whole'
    BY <1>2, <2>3, <2>4 DEF RefInv, Whole
  <2>6. ValueOf(k) = data[r].val /\ ValueOf(k)' = v /\ ValueOf(k) \in Values
    BY <1>1, <1>5, <2>1, <2>3 DEF MapIsSeen, Seen
  <2>7. \A j \in Keys \ {k} : ValueOf(j)' = ValueOf(j)
    <3> SUFFICES ASSUME NEW j \in Keys \ {k} PROVE Seen(j)' = Seen(j)
      BY DEF MapIsSeen
    <3>1. HomeRef(j) = NoRef \/ HomeRef(j) \in Refs \ {r}
      BY <1>5, HomeRefFacts
    <3> QED BY <2>3, <3>1 DEF Seen
  <2> HIDE DEF r, v
  <2>8. [j \in Keys |-> ValueOf(j)]' =
          IF w = NoWrite THEN [j \in Keys |-> ValueOf(j)]
          ELSE [[j \in Keys |-> ValueOf(j)] EXCEPT ![k] = w]
    BY <2>6, <2>7 DEF v
  <2> QED
    BY <1>1, <1>2, <2>2, <2>5, <2>6, <2>8 DEF KV!Access
<1> QED BY <1>4, <1>5

(* init is an initial state of the key-value map. *)
LEMMA RefInit == Init => KV!KVInit /\ Whole
<1> SUFFICES ASSUME Init PROVE KV!KVInit /\ Whole
  OBVIOUS
<1>1. PlaceInv
  BY PlaceInit
<1>2. PICK v \in Values :
        data = [b \in Refs |->
                  [val  |-> v,
                   meta |-> IF InitMaint THEN [cnt |-> 0, ep |-> 0, fp |-> 0]
                            ELSE NoMeta]]
  BY DEF Init
<1>3. [cnt |-> 0, ep |-> 0, fp |-> 0] # NoMeta
  <2>1. [cnt |-> 0, ep |-> 0, fp |-> 0] \in Metas
    BY DEF Metas
  <2> QED BY <2>1, MarkAssumption
<1>4. Whole
  BY <1>2, <1>3 DEF Init, Whole
<1>5. \A k \in Keys : ValueOf(k) \in Values \cup {NoValue}
  <2>1. MapIsSeen
    BY <1>1, SeenValue
  <2> QED
    BY <1>4, <2>1, HomeRefFacts DEF MapIsSeen, Seen, Whole
<1> QED
  BY <1>4, <1>5 DEF KV!KVInit, Init

(* Every step is a step of the key-value map or invisible in it. *)
LEMMA RefStep ==
    ASSUME TrailersAgree, ~MixMoves, RefInv, MapIsSeen, MapIsSeen', [Next]_vars
    PROVE  [KV!KVNext]_(KV!kvVars) /\ Whole'
<1>1. ASSUME NEW k \in Keys, NEW w \in Requests, KV!Access(k, w), Whole'
      PROVE  [KV!KVNext]_(KV!kvVars) /\ Whole'
  BY <1>1 DEF KV!KVNext, Requests
<1>2. ASSUME data' = data, UNCHANGED <<req, reply>>
      PROVE  [KV!KVNext]_(KV!kvVars) /\ Whole'
  BY <1>2, HiddenStep DEF RefInv, KV!kvVars
<1>3. ASSUME NEW k \in Keys, NEW w \in Requests,
             AccessPending(k, w) \/ AccessCached(k, w) \/ AccessSequential(k, w)
      PROVE  [KV!KVNext]_(KV!kvVars) /\ Whole'
  <2>1. KV!Access(k, w) /\ Whole'
    BY <1>3, AccessRefines
  <2> QED BY <1>1, <2>1
<1>4. ASSUME NEW k \in Keys, NEW w \in Requests, AccessStatic(k, w)
      PROVE  [KV!KVNext]_(KV!kvVars) /\ Whole'
  <2>1. search(IF k \in physHot THEN hot ELSE cold, k) = HomeRef(k)
    BY <1>4, StaticSearch DEF AccessStatic
  <2>2. req = NoRequest /\ req' = <<k, w>> /\ MayAnswer(k, w)
    BY <1>4, <2>1 DEF AccessStatic, MayAnswer, Seen
  <2>3. KV!Access(k, w) /\ Whole'
    BY <1>4, <2>2, StaticStores, StaticRefines
  <2> QED BY <1>1, <2>3
<1>5. ASSUME NEW k \in Keys, promote(k) \/ demote(k)
      PROVE  [KV!KVNext]_(KV!kvVars) /\ Whole'
  BY <1>2, <1>5 DEF promote, demote, callVars
<1>6. CASE enable_maintenance
  BY <1>2, <1>6 DEF enable_maintenance, callVars
<1>7. CASE Return
  <2>1. /\ data' = data /\ maint' = maint /\ req # NoRequest
        /\ req' = NoRequest /\ reply' = NoValue
    BY <1>7 DEF Return
  <2>2. /\ [j \in Keys |-> ValueOf(j)]' = [j \in Keys |-> ValueOf(j)]
        /\ Whole'
    BY <2>1, HiddenStep DEF RefInv
  <2>3. KV!AccessReturn
    BY <2>1, <2>2 DEF KV!AccessReturn
  <2> QED BY <2>2, <2>3 DEF KV!KVNext
<1>8. CASE UNCHANGED vars
  BY <1>2, <1>8 DEF vars, callVars
<1> QED BY <1>3, <1>4, <1>5, <1>6, <1>7, <1>8 DEF Next

(* The client sees a plain key-value map: each access reads and writes it  *)
(* as the request says, and no promotion, demotion, eviction, insertion or *)
(* enabling of maintenance shows.                                          *)
THEOREM ImplementsKeyValueMap ==
    ASSUME ~DaHot, ~MixMoves, TrailersAgree
    PROVE  Spec => RefinesKeyValueMap
<1>1. Init => KV!KVInit /\ Whole
  BY RefInit
<1>2. RefInv /\ MapIsSeen /\ MapIsSeen' /\ [Next]_vars =>
        [KV!KVNext]_(KV!kvVars) /\ Whole'
  BY RefStep
<1>3. PlaceInv => MapIsSeen
  BY SeenValue
<1>4. Spec => []PlaceInv
  BY PlaceAlways
<1>5. RefInv <=> PlaceInv /\ Whole
  BY DEF RefInv
<1>6. Spec => KV!KVInit /\ [][KV!KVNext]_(KV!kvVars)
  BY <1>1, <1>2, <1>3, <1>4, <1>5, PTL DEF Spec
<1> QED BY <1>6, PTL DEF RefinesKeyValueMap, KV!KVSpec
=============================================================================
