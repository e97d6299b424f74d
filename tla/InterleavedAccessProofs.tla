---------------------- MODULE InterleavedAccessProofs ----------------------
(***************************************************************************)
(* Theorems about InterleavedAccess, for any set of clients.  Without the  *)
(* piggyback option an interleaved access does to the tiers, the cache and *)
(* the pending slot what a local one does, so that everything proved about *)
(* TieredOMap holds over a TCP channel too.                                *)
(***************************************************************************)
EXTENDS InterleavedAccess, TieredOMapProofs

-----------------------------------------------------------------------------
(* Type correctness, for every client.                                     *)

(* Maps on some of the keys. *)
PartialMaps(V) == UNION {[S -> V] : S \in SUBSET Keys}

(* The client's fields that maintenance changes. *)
FieldRecords ==
    [hot : [Keys -> Slots], cold : [Keys -> Slots], hotKeys : SUBSET Keys,
     physHot : SUBSET Keys, hotList : SUBSET Keys, cache : PartialMaps(Int),
     cacheKeys : SUBSET Keys, cacheRefs : PartialMaps(Refs \cup {NoRef}),
     pendKey : Keys \cup {NoKey}, pendRef : Refs \cup {NoRef},
     swap : {"Idle", "HotPend", "ColdPend"}]

FieldsOK(t) == t \in FieldRecords /\ (t.swap # "Idle" => t.pendKey \in Keys)

(* A map on some of the keys is one on its domain. *)
LEMMA PartialMapFacts ==
    ASSUME NEW V, NEW f
    PROVE  f \in PartialMaps(V) <=> DOMAIN f \subseteq Keys /\ f \in [DOMAIN f -> V]
BY DEF PartialMaps

(* Adding and removing an entry. *)
LEMMA PartialMapUpdates ==
    ASSUME NEW V, NEW f \in PartialMaps(V)
    PROVE  /\ \A k \in Keys, v \in V : With(f, k, v) \in PartialMaps(V)
           /\ \A k : Without(f, k) \in PartialMaps(V)
<1>1. DOMAIN f \subseteq Keys /\ f \in [DOMAIN f -> V]
  BY PartialMapFacts
<1>2. ASSUME NEW k \in Keys, NEW v \in V PROVE With(f, k, v) \in PartialMaps(V)
  <2>1. /\ DOMAIN With(f, k, v) \subseteq Keys
        /\ With(f, k, v) \in [DOMAIN With(f, k, v) -> V]
    BY <1>1 DEF With
  <2> QED BY <2>1, PartialMapFacts
<1>3. ASSUME NEW k PROVE Without(f, k) \in PartialMaps(V)
  <2>1. /\ DOMAIN Without(f, k) \subseteq Keys
        /\ Without(f, k) \in [DOMAIN Without(f, k) -> V]
    BY <1>1 DEF Without
  <2> QED BY <2>1, PartialMapFacts
<1> QED BY <1>2, <1>3

(* The fields of a well-typed state. *)
LEMMA FieldsTyped ==
    ASSUME TypeInv
    PROVE  FieldsOK(Fields)
<1>1. cache \in PartialMaps(Int) /\ cacheRefs \in PartialMaps(Refs \cup {NoRef})
  BY PartialMapFacts DEF TypeInv, TypeOK
<1> QED BY <1>1 DEF TypeInv, TypeOK, Fields, FieldsOK, FieldRecords

(* Storing well-typed fields gives a well-typed state. *)
LEMMA SetFieldsTyped ==
    ASSUME TypeInv, NEW t, FieldsOK(t), SetFields(t), total' \in Nat
    PROVE  SwapTypes'
<1>1. /\ t.cache \in PartialMaps(Int)
      /\ t.cacheRefs \in PartialMaps(Refs \cup {NoRef})
  BY DEF FieldsOK, FieldRecords
<1>2. /\ DOMAIN cache' \subseteq Keys /\ cache' \in [DOMAIN cache' -> Int]
      /\ DOMAIN cacheRefs' \subseteq Keys
      /\ cacheRefs' \in [DOMAIN cacheRefs' -> Refs \cup {NoRef}]
  BY <1>1, PartialMapFacts DEF SetFields
<1>3. pendSince' \in Nat
  BY DEF SetFields, TypeInv, TypeOK
<1>4. /\ hot' \in [Keys -> Slots] /\ cold' \in [Keys -> Slots]
      /\ hotKeys' \subseteq Keys /\ physHot' \subseteq Keys
      /\ hotList' \subseteq Keys /\ cacheKeys' \subseteq Keys
      /\ pendKey' \in Keys \cup {NoKey} /\ pendRef' \in Refs \cup {NoRef}
      /\ swap' \in {"Idle", "HotPend", "ColdPend"}
      /\ (swap' # "Idle" => pendKey' \in Keys)
  BY DEF SetFields, FieldsOK, FieldRecords
<1> QED BY <1>2, <1>3, <1>4 DEF SwapTypes

(* A demoted scan key keeps the types. *)
LEMMA DemotedTyped ==
    ASSUME NEW t, FieldsOK(t), NEW k, NEW s \in Keys, NEW ref \in Refs \cup {NoRef},
           NEW fp \in Int, NEW ev \in Evictable(t.cache, s, fp, TRUE)
    PROVE  FieldsOK(Demoted(t, k, s, ref, fp, ev))
<1>1. t \in FieldRecords /\ t.cache \in PartialMaps(Int)
      /\ t.cacheRefs \in PartialMaps(Refs \cup {NoRef}) /\ t.hot \in [Keys -> Slots]
  BY DEF FieldsOK, FieldRecords
<1>2. ev \in Keys
  <2>1. DOMAIN t.cache \subseteq Keys
    BY <1>1, PartialMapFacts
  <2>2. ev \in DOMAIN t.cache \cup {s}
    BY EvictableType
  <2> QED BY <2>1, <2>2
<1>3. cache_admit(t.cache, s, fp, ev) \in PartialMaps(Int)
  BY <1>1, PartialMapUpdates DEF cache_admit
<1>4. /\ Without(With(t.cacheRefs, s, ref), ev) \in PartialMaps(Refs \cup {NoRef})
      /\ RefAt(t.cacheRefs, ev) \in Refs \cup {NoRef}
  BY <1>1, PartialMapUpdates, PartialMapFacts, RefAtType
<1>5. (IF Backend = "BPlus" /\ k \notin physHot THEN remove(t.hot, s) ELSE t.hot)
         \in [Keys -> Slots]
  BY <1>1 DEF remove, Slots
<1> QED
  BY <1>1, <1>2, <1>3, <1>4, <1>5 DEF Demoted, FieldsOK, FieldRecords

(* A promoted key keeps the types. *)
LEMMA PromotedTyped ==
    ASSUME NEW t, FieldsOK(t), NEW k \in Keys, NEW ref \in Refs \cup {NoRef},
           NEW fp \in Int, NEW ev \in Evictable(t.cache, k, fp, FALSE)
    PROVE  FieldsOK(Promoted(t, k, ref, fp, ev))
<1>1. t \in FieldRecords /\ t.cache \in PartialMaps(Int)
      /\ t.cacheRefs \in PartialMaps(Refs \cup {NoRef})
  BY DEF FieldsOK, FieldRecords
<1>2. ev \in Keys
  <2>1. DOMAIN t.cache \subseteq Keys
    BY <1>1, PartialMapFacts
  <2>2. ev \in DOMAIN t.cache \cup {k}
    BY EvictableType
  <2> QED BY <2>1, <2>2
<1>3. cache_admit(t.cache, k, fp, ev) \in PartialMaps(Int)
  BY <1>1, PartialMapUpdates DEF cache_admit
<1>4. /\ With(Without(t.cacheRefs, ev), k, ref) \in PartialMaps(Refs \cup {NoRef})
      /\ RefAt(t.cacheRefs, ev) \in Refs \cup {NoRef}
  BY <1>1, PartialMapUpdates, PartialMapFacts, RefAtType
<1> QED
  BY <1>1, <1>2, <1>3, <1>4 DEF Promoted, FieldsOK, FieldRecords

(* What a walk leaves of an OMAP maps keys to references. *)
LEMMA RemainsTyped ==
    ASSUME NEW omap \in [Keys -> Slots], NEW m \in Remains(omap)
    PROVE  m \in [Keys -> Slots]
BY DEF Remains, Slots

(* So does an insert that rides along. *)
LEMMA InsertedBesideTyped ==
    ASSUME NEW omap \in [Keys -> Slots], NEW j \in Keys, NEW r \in Slots,
           NEW searched, NEW m \in InsertedBeside(omap, j, r, searched)
    PROVE  m \in [Keys -> Slots]
<1>1. insert(omap, j, r) \in [Keys -> Slots]
  BY DEF insert
<1> QED BY <1>1, RemainsTyped DEF InsertedBeside

(* Inserting the pending key keeps the types. *)
LEMMA InsertedTyped ==
    ASSUME NEW t, FieldsOK(t), t.swap # "Idle", NEW k \in Keys,
           NEW u \in HotInserted(t, k) \cup ColdInserted(t, k)
    PROVE  FieldsOK(u)
<1>1. t \in FieldRecords /\ t.pendKey \in Keys
      /\ t.hot \in [Keys -> Slots] /\ t.cold \in [Keys -> Slots]
      /\ t.pendRef \in Slots
  BY DEF FieldsOK, FieldRecords, Slots
<1>2. ASSUME u \in HotInserted(t, k) PROVE FieldsOK(u)
  <2>1. PICK m \in IF HotCarries(k)
                   THEN InsertedBeside(t.hot, t.pendKey, t.pendRef, k \in physHot)
                   ELSE {t.hot} :
          u = NotPending([t EXCEPT !.hot = m, !.physHot = @ \cup {t.pendKey},
                                   !.hotList = @ \cup {t.pendKey}])
    BY <1>2 DEF HotInserted
  <2>2. m \in [Keys -> Slots]
    BY <1>1, <2>1, InsertedBesideTyped
  <2> QED BY <1>1, <2>1, <2>2 DEF NotPending, FieldsOK, FieldRecords
<1>3. ASSUME u \in ColdInserted(t, k) PROVE FieldsOK(u)
  <2>1. PICK m \in IF ColdCarries(k)
                   THEN InsertedBeside(t.cold, t.pendKey, t.pendRef, k \notin physHot)
                   ELSE {t.cold} :
          u = NotPending([t EXCEPT !.cold = m])
    BY <1>3 DEF ColdInserted
  <2>2. m \in [Keys -> Slots]
    BY <1>1, <2>1, InsertedBesideTyped
  <2> QED BY <1>1, <2>1, <2>2 DEF NotPending, FieldsOK, FieldRecords
<1> QED BY <1>2, <1>3

(* What an access does with the outcome of its loop keeps the types. *)
LEMMA ReactedTyped ==
    ASSUME NEW t, FieldsOK(t), NEW k \in Keys, NEW ref \in Refs \cup {NoRef},
           NEW fp \in Int, NEW u \in Reacted(t, k, ref, fp)
    PROVE  FieldsOK(u)
<1> DEFINE gone == [t EXCEPT !.cold = remove(t.cold, k)]
<1>1. gone \in FieldRecords /\ gone.swap = t.swap /\ gone.pendKey = t.pendKey
      /\ gone.cache = t.cache
  <2>1. t \in FieldRecords /\ remove(t.cold, k) \in [Keys -> Slots]
    BY DEF FieldsOK, FieldRecords, remove, Slots
  <2> QED BY <2>1 DEF FieldRecords
<1>2. FieldsOK(gone)
  BY <1>1 DEF FieldsOK
<1>3. u = t \/ u = gone
        \/ \E ev \in Evictable(t.cache, k, fp, FALSE) : u = Promoted(gone, k, ref, fp, ev)
  BY DEF Reacted
<1> HIDE DEF gone
<1>4. CASE u = t \/ u = gone
  BY <1>2, <1>4
<1>5. CASE \E ev \in Evictable(t.cache, k, fp, FALSE) : u = Promoted(gone, k, ref, fp, ev)
  <2>1. PICK ev \in Evictable(gone.cache, k, fp, FALSE) :
          u = Promoted(gone, k, ref, fp, ev)
    BY <1>1, <1>5
  <2> QED BY <1>2, <2>1, PromotedTyped
<1> QED BY <1>3, <1>4, <1>5

(* The fp of a block that is scanned or served. *)
LEMMA ScanFpInt ==
    ASSUME TypeInv, NEW r \in Refs \cup {NoRef}
    PROVE  ScanMeta(r).fp \in Int
<1>1. CASE r = NoRef
  BY <1>1 DEF ScanMeta
<1>2. CASE r # NoRef
  <2>1. Decode(data[r]).meta \in Metas
    BY <1>2, DecodeType DEF TypeInv, TypeOK
  <2> QED BY <1>2, <2>1 DEF ScanMeta, Metas
<1> QED BY <1>1, <1>2

(* The fields after the piggybacked scan are well typed. *)
LEMMA ScannedTyped ==
    ASSUME TypeInv, NEW t, FieldsOK(t), NEW k, NEW s \in Keys, NEW u \in Scanned(t, k, s)
    PROVE  FieldsOK(u)
<1> DEFINE ref  == search(t.hot, s)
           fp   == ScanMeta(ref).fp
           maps == IF Backend = "AVL" THEN Remains(t.hot) ELSE {t.hot}
           left == {[t EXCEPT !.hot = m] : m \in maps}
<1>1. t \in FieldRecords /\ t.hot \in [Keys -> Slots]
  BY DEF FieldsOK, FieldRecords
<1>2. ref \in Refs \cup {NoRef} /\ fp \in Int
  <2>1. ref \in Refs \cup {NoRef}
    BY <1>1, SearchType
  <2> QED BY <2>1, ScanFpInt
<1>3. ASSUME NEW v \in left PROVE FieldsOK(v) /\ v.cache = t.cache
  <2>1. PICK m \in maps : v = [t EXCEPT !.hot = m]
    BY <1>3
  <2>2. m \in [Keys -> Slots]
    BY <1>1, <2>1, RemainsTyped
  <2> QED BY <1>1, <2>1, <2>2 DEF FieldsOK, FieldRecords
<1>4. \/ u \in left
      \/ \E v \in left, ev \in Evictable(t.cache, s, fp, TRUE) :
            u = Demoted(v, k, s, ref, fp, ev)
  <2> DEFINE evict == Evictable(t.cache, s, fp, TRUE)
             all == UNION {{Demoted(v, k, s, ref, fp, ev) : ev \in evict} : v \in left}
  <2>1. Scanned(t, k, s) = IF should_demote_cache(t.cache, fp) THEN all ELSE left
    BY DEF Scanned
  <2> HIDE DEF left, ref, fp, evict
  <2>2. u \in all => \E v \in left, ev \in evict : u = Demoted(v, k, s, ref, fp, ev)
    OBVIOUS
  <2> QED BY <2>1, <2>2 DEF evict
<1> HIDE DEF ref, fp, left
<1> QED BY <1>2, <1>3, <1>4, DemotedTyped

(* The parts of AccessInterleaved. *)
InterleavedRef(k) == search(IF k \in physHot THEN hot ELSE cold, k)
InterleavedFp(k, w) ==
    IF InterleavedRef(k) = NoRef THEN 0
    ELSE Touch(InterleavedRef(k), w, obs_epoch(total + 1)).meta.fp

(* The fields as the scan and the insert that ride along leave them. *)
RodeAlong(k, s, t) ==
    \/ s \in hotList /\ ScanDue(total + 1) /\ t \in Scanned(Fields, k, s)
    \/ s = NoKey /\ HotInsertDue(total + 1) /\ t \in HotInserted(Fields, k)
    \/ s = NoKey /\ ColdInsertDue(total + 1) /\ t \in ColdInserted(Fields, k)
    \/ /\ s = NoKey /\ t = Fields
       /\ ~HotInsertDue(total + 1) /\ ~ColdInsertDue(total + 1)

(* An interleaved access in its parts: no two operations ride along, since *)
(* the swap state allows one of them.                                      *)
LEMMA InterleavedParts ==
    ASSUME TypeInv, NEW k \in Keys, NEW w \in Requests, AccessInterleaved(k, w)
    PROVE  /\ mode.tcp /\ req = NoRequest /\ maint /\ ~hung
           /\ k # pendKey /\ k \notin cacheKeys
           /\ total' = total + 1 /\ req' = <<k, w>> /\ pig' = Carried(k, total + 1)
           /\ Stores(InterleavedRef(k), w, obs_epoch(total + 1))
           /\ reply' = IF InterleavedRef(k) = NoRef THEN NoValue
                       ELSE Touch(InterleavedRef(k), w, obs_epoch(total + 1)).val
           /\ UNCHANGED <<maint, daQueue, scanPos, mode>>
           /\ \E s \in hotList \cup {NoKey} :
                /\ scanPtr' = IF s = NoKey THEN scanPtr ELSE s
                /\ hung' = (s # NoKey /\ search(hot, s) = NoRef)
                /\ \E t : /\ RodeAlong(k, s, t)
                          /\ \E u \in Reacted(t, k, InterleavedRef(k), InterleavedFp(k, w)) :
                                SetFields(u)
<1> DEFINE t == total + 1
           ref == InterleavedRef(k)
           fp == InterleavedFp(k, w)
<1>1. /\ mode.tcp /\ req = NoRequest /\ maint /\ ~hung
      /\ k # pendKey /\ k \notin cacheKeys
      /\ total' = t /\ req' = <<k, w>> /\ pig' = Carried(k, t)
      /\ UNCHANGED <<maint, daQueue, scanPos, mode>>
  BY DEF AccessInterleaved
<1>2. /\ Stores(ref, w, obs_epoch(t))
      /\ reply' = IF ref = NoRef THEN NoValue ELSE Touch(ref, w, obs_epoch(t)).val
  BY DEF AccessInterleaved, InterleavedRef, Stores
<1>3. PICK s \in IF ScanDue(t) THEN {x \in hotList : NextScanKey(x)} ELSE {NoKey} :
         /\ scanPtr' = IF s = NoKey THEN scanPtr ELSE s
         /\ hung' = (s # NoKey /\ search(hot, s) = NoRef)
         /\ \E t1 \in IF s # NoKey THEN Scanned(Fields, k, s) ELSE {Fields} :
            \E t2 \in IF HotInsertDue(t) THEN HotInserted(t1, k) ELSE {t1} :
            \E t3 \in IF ColdInsertDue(t) THEN ColdInserted(t2, k) ELSE {t2} :
            \E t4 \in Reacted(t3, k, ref, fp) : SetFields(t4)
  BY DEF AccessInterleaved, InterleavedRef, InterleavedFp
<1>4. PICK t1, t2, t3 :
         /\ t1 \in IF s # NoKey THEN Scanned(Fields, k, s) ELSE {Fields}
         /\ t2 \in IF HotInsertDue(t) THEN HotInserted(t1, k) ELSE {t1}
         /\ t3 \in IF ColdInsertDue(t) THEN ColdInserted(t2, k) ELSE {t2}
         /\ \E t4 \in Reacted(t3, k, ref, fp) : SetFields(t4)
  BY <1>3
<1>5. s \in hotList \cup {NoKey} /\ (s = NoKey <=> ~ScanDue(t))
  <2>1. hotList \subseteq Keys
    BY DEF TypeInv, TypeOK
  <2> QED BY <1>3, <2>1, NoKeyNotKey
<1>6. RodeAlong(k, s, t3)
  <2>1. ScanDue(t) => ~HotInsertDue(t) /\ ~ColdInsertDue(t)
    BY DEF ScanDue, HotInsertDue, ColdInsertDue
  <2>2. ~(HotInsertDue(t) /\ ColdInsertDue(t))
    BY DEF HotInsertDue, ColdInsertDue
  <2> QED BY <1>4, <1>5, <2>1, <2>2 DEF RodeAlong
<1>7. \E u \in Reacted(t3, k, ref, fp) : SetFields(u)
  BY <1>4
<1> QED BY <1>1, <1>2, <1>3, <1>5, <1>6, <1>7

(* What rides along keeps the types. *)
LEMMA RodeAlongTyped ==
    ASSUME TypeInv, NEW k \in Keys, NEW s, NEW t, RodeAlong(k, s, t)
    PROVE  FieldsOK(t)
<1>1. FieldsOK(Fields) /\ Fields.swap = swap /\ Fields.hot = hot
  BY FieldsTyped DEF Fields
<1>2. CASE s \in hotList /\ t \in Scanned(Fields, k, s)
  <2>1. s \in Keys
    BY <1>2 DEF TypeInv, TypeOK
  <2> QED BY <1>1, <1>2, <2>1, ScannedTyped
<1>3. CASE HotInsertDue(total + 1) /\ t \in HotInserted(Fields, k)
  BY <1>1, <1>3, InsertedTyped DEF HotInsertDue
<1>4. CASE ColdInsertDue(total + 1) /\ t \in ColdInserted(Fields, k)
  BY <1>1, <1>4, InsertedTyped DEF ColdInsertDue
<1> QED BY <1>1, <1>2, <1>3, <1>4 DEF RodeAlong

(* An interleaved access keeps the types. *)
LEMMA AccessInterleavedType ==
    ASSUME TypeInv, NEW k \in Keys, NEW w \in Requests, AccessInterleaved(k, w)
    PROVE  TypeInv'
<1> DEFINE ref == InterleavedRef(k)
           fp  == InterleavedFp(k, w)
           e   == obs_epoch(total + 1)
<1>1. total \in Nat /\ total + 1 \in Nat /\ data \in [Refs -> Blocks]
  BY DEF TypeInv, TypeOK
<1>2. e \in Nat
  BY <1>1, EpochNat
<1>3. ref \in Refs \cup {NoRef}
  BY SearchType DEF TypeInv, TypeOK, InterleavedRef
<1>4. ref # NoRef => /\ Touch(ref, w, e) \in Blocks
                     /\ Touch(ref, w, e).val \in Values \cup {Cut}
                     /\ Touch(ref, w, e).meta \in Metas
  BY <1>1, <1>2, <1>3, TouchType
<1>5. fp \in Int
  BY <1>4 DEF InterleavedFp, Metas
<1>6. /\ total' = total + 1 /\ req' = <<k, w>>
      /\ Stores(ref, w, e)
      /\ reply' = IF ref = NoRef THEN NoValue ELSE Touch(ref, w, e).val
      /\ UNCHANGED <<maint, daQueue, scanPos>>
  BY InterleavedParts
<1>7. PICK s \in hotList \cup {NoKey} :
        /\ scanPtr' = IF s = NoKey THEN scanPtr ELSE s
        /\ \E t : RodeAlong(k, s, t) /\ \E u \in Reacted(t, k, ref, fp) : SetFields(u)
  BY InterleavedParts
<1>8. PICK t : RodeAlong(k, s, t) /\ \E u \in Reacted(t, k, ref, fp) : SetFields(u)
  BY <1>7
<1>9. PICK u \in Reacted(t, k, ref, fp) : SetFields(u)
  BY <1>8
<1> HIDE DEF ref, fp, e
<1>10. FieldsOK(u)
  BY <1>3, <1>5, <1>8, <1>9, RodeAlongTyped, ReactedTyped
<1>11. SwapTypes'
  BY <1>1, <1>6, <1>9, <1>10, SetFieldsTyped
<1>12. data' \in [Refs -> Blocks] /\ reply' \in Values \cup {NoValue, Cut}
  BY <1>1, <1>3, <1>4, <1>6 DEF Stores
<1>13. scanPtr' \in Keys \cup {-1}
  BY <1>7 DEF TypeInv, TypeOK
<1> QED
  BY <1>1, <1>6, <1>11, <1>12, <1>13 DEF SwapTypes, TypeInv, TypeOK

(* An access without maintenance keeps the types. *)
LEMMA StaticInterleavedType ==
    ASSUME TypeInv, NEW k \in Keys, NEW w \in Requests,
           AccessStaticInterleaved(k, w)
    PROVE  TypeInv'
<1> DEFINE ref == search(IF k \in physHot THEN hot ELSE cold, k)
<1>1. ref \in Refs \cup {NoRef}
  BY SearchType DEF TypeInv, TypeOK
<1>2. data' \in [Refs -> Blocks] /\ reply' \in Values \cup {NoValue, Cut}
  <2>1. CASE ref = NoRef
    BY <2>1 DEF AccessStaticInterleaved, TypeInv, TypeOK
  <2>2. CASE ref # NoRef
    <3> HIDE DEF ref
    <3>1. data[ref] \in Blocks
      BY <1>1, <2>2 DEF TypeInv, TypeOK
    <3>2. /\ [val |-> Payload(data[ref], w), meta |-> data[ref].meta] \in Blocks
          /\ Payload(data[ref], w) \in Values \cup {Cut}
      BY <3>1 DEF Blocks, Payload, Requests
    <3>3. /\ data' = [data EXCEPT ![ref] = [val |-> Payload(data[ref], w),
                                            meta |-> data[ref].meta]]
          /\ reply' = Payload(data[ref], w)
      BY <2>2 DEF AccessStaticInterleaved, ref
    <3> QED
      BY <3>1, <3>2, <3>3 DEF TypeInv, TypeOK
  <2> QED BY <2>1, <2>2
<1>3. /\ req' = <<k, w>>
      /\ UNCHANGED <<maint, tierVars, cacheVars, swapVars, scanVars, total>>
  BY DEF AccessStaticInterleaved
<1> QED
  BY <1>2, <1>3 DEF TypeInv, TypeOK, tierVars, cacheVars, swapVars, scanVars

(* The end of an access keeps the types. *)
LEMMA ReturnInterleavedType ==
    ASSUME TypeInv, ReturnInterleaved
    PROVE  TypeInv'
<1>1. SwapTypes' /\ scanPtr' \in Keys \cup {-1} /\ daQueue' \in Seq(Keys \X Int)
  <2>1. CASE do_scan_step
    BY <2>1, ScanStepType
  <2>2. CASE do_hot_insert_step \/ do_cold_insert_step
    BY <2>2, InsertStepsType
  <2>3. CASE UNCHANGED <<tierVars, cacheVars, swapVars, scanPtr, daQueue>>
    BY <2>3 DEF SwapTypes, TypeInv, TypeOK, tierVars, cacheVars, swapVars
  <2> QED BY <2>1, <2>2, <2>3 DEF ReturnInterleaved
<1>2. /\ req' = NoRequest /\ reply' = NoValue
      /\ UNCHANGED <<maint, data, total, scanPos>>
  BY DEF ReturnInterleaved
<1> QED
  BY <1>1, <1>2 DEF TypeInv, TypeOK, SwapTypes

(* A map that comes back from its exported state is well typed. *)
LEMMA ReloadType ==
    ASSUME TypeInv, Reload
    PROVE  TypeInv'
<1>1. /\ maint' = FALSE /\ cacheKeys' = {} /\ pendKey' = NoKey /\ pendRef' = NoRef
      /\ cache' = <<>> /\ cacheRefs' = <<>> /\ daQueue' = <<>>
      /\ swap' = "Idle" /\ scanPtr' = -1 /\ scanPos' = 0 /\ total' = 0
      /\ UNCHANGED <<tierVars, data, pendSince, callVars>>
  BY DEF Reload
<1>2. 0 \in 0 .. NumPositions - 1
  BY ConfigAssumption
<1>3. <<>> \in Seq(Keys \X Int)
  OBVIOUS
<1>4. /\ DOMAIN <<>> \subseteq Keys /\ <<>> \in [DOMAIN <<>> -> Int]
      /\ <<>> \in [DOMAIN <<>> -> Refs \cup {NoRef}]
  <2>1. DOMAIN <<>> = {}
    OBVIOUS
  <2> QED BY <2>1
<1>5. /\ DOMAIN cache' \subseteq Keys /\ cache' \in [DOMAIN cache' -> Int]
      /\ DOMAIN cacheRefs' \subseteq Keys
      /\ cacheRefs' \in [DOMAIN cacheRefs' -> Refs \cup {NoRef}]
      /\ daQueue' \in Seq(Keys \X Int)
  BY <1>1, <1>3, <1>4
<1> QED
  BY <1>1, <1>2, <1>5 DEF TypeInv, TypeOK, tierVars, callVars

(* The steps that TieredOMap models are steps of it. *)
LocalStep ==
    \/ \E k \in Keys, w \in Requests : \/ AccessPending(k, w) \/ AccessCached(k, w)
                                       \/ AccessSequential(k, w) \/ AccessStatic(k, w)
    \/ mode.early /\ \E k \in Keys : promote(k) \/ demote(k)
    \/ enable_maintenance

(* What a step of the client does. *)
LEMMA StepKinds ==
    ASSUME [NextInterleaved]_ivars
    PROVE  \/ LocalStep /\ Next /\ pig' = {} /\ UNCHANGED <<mode, hung>>
           \/ \E k \in Keys, w \in Requests : AccessInterleaved(k, w)
           \/ \E k \in Keys, w \in Requests : AccessStaticInterleaved(k, w)
           \/ ReturnInterleaved
           \/ Reload /\ mode.early
           \/ UNCHANGED ivars
<1>1. LocalStep => Next
  BY DEF LocalStep, Next
<1> QED
  BY <1>1 DEF NextInterleaved, Access, UseStatic, Local, LocalStep

(* Every step keeps the types. *)
LEMMA InterleavedTypeStep ==
    ASSUME TypeInv, [NextInterleaved]_ivars
    PROVE  TypeInv'
<1>1. CASE Next \/ UNCHANGED ivars
  BY <1>1, TypeStep DEF ivars
<1>2. ASSUME NEW k \in Keys, NEW w \in Requests, AccessInterleaved(k, w)
      PROVE  TypeInv'
  BY <1>2, AccessInterleavedType
<1>3. ASSUME NEW k \in Keys, NEW w \in Requests, AccessStaticInterleaved(k, w)
      PROVE  TypeInv'
  BY <1>3, StaticInterleavedType
<1>4. CASE ReturnInterleaved
  BY <1>4, ReturnInterleavedType
<1>5. CASE Reload
  BY <1>5, ReloadType
<1> QED BY <1>1, <1>2, <1>3, <1>4, <1>5, StepKinds

(* The fields of the client keep their types for every kind of OMAP, with  *)
(* or without piggybacked maintenance, partial dummies and a channel.      *)
THEOREM InterleavedTypes == SpecInterleaved => []TypeOK
<1>1. InitInterleaved => TypeInv
  BY TypeInit DEF InitInterleaved
<1>2. TypeInv => TypeOK
  BY DEF TypeInv
<1> QED BY <1>1, <1>2, InterleavedTypeStep, PTL DEF SpecInterleaved

-----------------------------------------------------------------------------
(* Without the piggyback option an interleaved access is a search of the   *)
(* tiers: what the loop decides is what the local access decides.          *)

(* Nothing rides along. *)
LEMMA NothingRides ==
    ASSUME TypeInv, ~Piggyback, NEW k \in Keys, NEW w \in Requests,
           AccessInterleaved(k, w)
    PROVE  /\ pig' = {} /\ hung' = FALSE
           /\ \E u \in Reacted(Fields, k, InterleavedRef(k), InterleavedFp(k, w)) :
                 SetFields(u)
<1>1. pig' = {}
  BY InterleavedParts DEF Carried, ScanDue, HotInsertDue, ColdInsertDue
<1>2. PICK s \in hotList \cup {NoKey} :
        /\ hung' = (s # NoKey /\ search(hot, s) = NoRef)
        /\ \E t : /\ RodeAlong(k, s, t)
                  /\ \E u \in Reacted(t, k, InterleavedRef(k), InterleavedFp(k, w)) :
                        SetFields(u)
  BY InterleavedParts
<1>3. PICK t : /\ RodeAlong(k, s, t)
               /\ \E u \in Reacted(t, k, InterleavedRef(k), InterleavedFp(k, w)) :
                     SetFields(u)
  BY <1>2
<1>4. s = NoKey /\ t = Fields
  BY <1>3 DEF RodeAlong, ScanDue, HotInsertDue, ColdInsertDue
<1> QED BY <1>1, <1>2, <1>3, <1>4

(* Storing the fields as they are changes nothing. *)
LEMMA FieldsUnchanged ==
    ASSUME SetFields(Fields)
    PROVE  UNCHANGED <<tierVars, cacheVars, swapVars>>
BY DEF SetFields, Fields, tierVars, cacheVars, swapVars

(* Storing the outcome of a promotion is PromoteToCache. *)
LEMMA FieldsPromoted ==
    ASSUME swap = "Idle", NEW k, NEW ref, NEW fp,
           NEW ev \in Evictable(cache, k, fp, FALSE),
           SetFields(Promoted([Fields EXCEPT !.cold = remove(cold, k)], k, ref, fp, ev))
    PROVE  PromoteToCache(k, ref, fp)
<1> DEFINE u == Promoted([Fields EXCEPT !.cold = remove(cold, k)], k, ref, fp, ev)
<1>1. /\ u.cold = remove(cold, k)
      /\ u.cache = cache_admit(cache, k, fp, ev)
      /\ u.pendKey = ev /\ u.pendRef = RefAt(cacheRefs, ev)
      /\ u.cacheKeys = (cacheKeys \ {ev}) \cup {k}
      /\ u.cacheRefs = With(Without(cacheRefs, ev), k, ref)
      /\ u.hotKeys = (hotKeys \ {ev}) \cup {k}
      /\ u.swap = "ColdPend"
      /\ u.hot = hot /\ u.physHot = physHot /\ u.hotList = hotList
  BY DEF Promoted, Fields
<1>2. SetFields(u)
  OBVIOUS
<1> HIDE DEF u
<1> QED BY <1>1, <1>2 DEF SetFields, PromoteToCache

(* The key, its tier and the decision are those of the local access. *)
LEMMA InterleavedSearches ==
    ASSUME PlaceInv, ~Piggyback, NEW k \in Keys, NEW w \in Requests,
           AccessInterleaved(k, w)
    PROVE  SearchTiers(k, w)
<1> DEFINE ref == InterleavedRef(k)
           fp  == Touch(ref, w, obs_epoch(total + 1)).meta.fp
<1>1. TypeInv
  BY DEF PlaceInv
<1>2. /\ maint /\ maint' = maint /\ total' = total + 1
      /\ k # pendKey /\ k \notin cacheKeys
      /\ Stores(ref, w, obs_epoch(total + 1))
  BY <1>1, InterleavedParts
<1>3. PICK u \in Reacted(Fields, k, ref, InterleavedFp(k, w)) : SetFields(u)
  BY <1>1, NothingRides
<1>4. InterleavedFp(k, w) = IF ref = NoRef THEN 0 ELSE fp
  BY DEF InterleavedFp
<1>5. k \in hotKeys => k \in physHot
  BY <1>2 DEF PlaceInv, BooksAgree
<1>6. Fields.swap = swap /\ Fields.cache = cache /\ Fields.cold = cold
  BY DEF Fields
<1> DEFINE g == InterleavedFp(k, w)
<1> HIDE DEF ref, fp
<1>7. CASE u = Fields
  <2>1. UNCHANGED <<tierVars, cacheVars, swapVars>>
    BY <1>3, <1>7, FieldsUnchanged
  <2> QED BY <1>2, <2>1 DEF SearchTiers, ref, fp, InterleavedRef
<1>8. CASE u # Fields
  <2>1. /\ g > 0 /\ swap = "Idle" /\ should_promote(cache, g)
        /\ k \notin hotKeys
        /\ \E ev \in Evictable(cache, k, g, FALSE) :
              u = Promoted([Fields EXCEPT !.cold = remove(cold, k)], k, ref, g, ev)
    BY <1>3, <1>5, <1>6, <1>8 DEF Reacted
  <2>2. ref # NoRef /\ g = fp
    BY <1>4, <2>1
  <2>3. PICK ev \in Evictable(cache, k, fp, FALSE) :
          u = Promoted([Fields EXCEPT !.cold = remove(cold, k)], k, ref, fp, ev)
    BY <2>1, <2>2
  <2>4. PromoteToCache(k, ref, fp)
    BY <1>3, <2>1, <2>3, FieldsPromoted
  <2> QED BY <1>2, <2>1, <2>2, <2>4 DEF SearchTiers, ref, fp, InterleavedRef
<1> QED BY <1>7, <1>8

(* What a client without the piggyback option is kept in. *)
Apart == PlaceInv /\ (TrailersAgree => Timely) /\ pig = {} /\ ~hung

(* What an interleaved access answers. *)
SearchAnswer(k, w) ==
    reply' = IF InterleavedRef(k) = NoRef THEN NoValue
             ELSE Touch(InterleavedRef(k), w, obs_epoch(total + 1)).val

(* What it answers without maintenance. *)
StaticAnswer(k, w) ==
    reply' = IF InterleavedRef(k) = NoRef THEN NoValue
             ELSE Payload(data[InterleavedRef(k)], w)

(* Serves(k, w): the step serves this request. *)
Serves(k, w) == req = NoRequest /\ req' = <<k, w>>

(* The steps of such a client: those of TieredOMap, a search of the tiers  *)
(* or an access without maintenance with its own answer, and coming back   *)
(* from the exported state.                                                *)
ApartStep ==
    \/ [Next]_vars
    \/ \E k \in Keys, w \in Requests :
          Serves(k, w) /\ SearchTiers(k, w) /\ SearchAnswer(k, w)
    \/ \E k \in Keys, w \in Requests :
          Serves(k, w) /\ StoresStatic(k, w) /\ StaticAnswer(k, w)
    \/ Reload

(* Every step of the client is one of these. *)
LEMMA StepsApart ==
    ASSUME Apart, ~Piggyback, [NextInterleaved]_ivars
    PROVE  ApartStep /\ mode' = mode /\ pig' = {} /\ ~hung'
<1>1. CASE Next /\ pig' = {} /\ UNCHANGED <<mode, hung>>
  BY <1>1 DEF ApartStep, Apart
<1>2. ASSUME NEW k \in Keys, NEW w \in Requests, AccessInterleaved(k, w)
      PROVE  ApartStep /\ mode' = mode /\ pig' = {} /\ ~hung'
  <2>1. PlaceInv /\ TypeInv
    BY DEF Apart, PlaceInv
  <2>2. Serves(k, w) /\ SearchAnswer(k, w) /\ mode' = mode
    BY <1>2, <2>1, InterleavedParts DEF Serves, SearchAnswer
  <2>3. SearchTiers(k, w) /\ pig' = {} /\ ~hung'
    BY <1>2, <2>1, InterleavedSearches, NothingRides
  <2> QED BY <2>2, <2>3 DEF ApartStep
<1>3. ASSUME NEW k \in Keys, NEW w \in Requests, AccessStaticInterleaved(k, w)
      PROVE  ApartStep /\ mode' = mode /\ pig' = {} /\ ~hung'
  <2>1. StoresStatic(k, w) /\ Serves(k, w) /\ StaticAnswer(k, w)
    BY <1>3 DEF AccessStaticInterleaved, StoresStatic, Serves, StaticAnswer,
                InterleavedRef
  <2>2. mode' = mode /\ pig' = {} /\ ~hung'
    BY <1>3 DEF AccessStaticInterleaved
  <2> QED BY <2>1, <2>2 DEF ApartStep
<1>4. CASE ReturnInterleaved
  <2>1. Return
    BY <1>4 DEF ReturnInterleaved, Return, Apart
  <2> QED BY <1>4, <2>1 DEF ApartStep, Next, ReturnInterleaved
<1>5. CASE Reload
  BY <1>5 DEF ApartStep, Reload, Apart
<1>6. CASE UNCHANGED ivars
  BY <1>6 DEF ApartStep, ivars, Apart
<1> QED BY <1>1, <1>2, <1>3, <1>4, <1>5, <1>6, StepKinds

(* Coming back from the exported state keeps every key in its tier. *)
LEMMA ReloadPlace ==
    ASSUME PlaceInv, TypeInv', Reload
    PROVE  PlaceInv'
<1>1. /\ ~maint /\ maint' = FALSE /\ cacheKeys' = {}
      /\ cache' = <<>> /\ cacheRefs' = <<>>
      /\ pendKey' = NoKey /\ swap' = "Idle" /\ total' = 0
      /\ UNCHANGED <<tierVars, data>>
  BY DEF Reload
<1>2. /\ cacheKeys = {} /\ pendKey = NoKey /\ swap = "Idle"
      /\ hotKeys = physHot /\ \A b \in Refs : data[b].meta = NoMeta
  BY <1>1 DEF PlaceInv, Metered, BooksAgree
<1>3. DOMAIN cache' = {} /\ DOMAIN cacheRefs' = {}
  BY <1>1
<1>4. Placed'
  BY <1>1, <1>2, <1>3 DEF PlaceInv, Placed, InHot, InCold, tierVars
<1>5. OneHome'
  BY <1>1, <1>2, NoKeyNotKey DEF PlaceInv, OneHome, InHot, InCold, tierVars
<1>6. BooksAgree'
  BY <1>1, <1>2, <1>3 DEF PlaceInv, BooksAgree, InHot, tierVars
<1>7. Metered'
  <2>1. CacheWithin(cache', 0)
    BY <1>3 DEF CacheWithin
  <2>2. ~InitMaint
    BY <1>1 DEF PlaceInv, Metered
  <2> QED BY <1>1, <1>2, <2>1, <2>2 DEF Metered
<1>8. FpRecorded'
  BY <1>1, <1>2, <1>3 DEF FpRecorded
<1> QED BY <1>4, <1>5, <1>6, <1>7, <1>8 DEF PlaceInv

(* These steps keep every key in one place. *)
LEMMA ApartPlace ==
    ASSUME ~MixMoves, PlaceInv, TypeInv', ApartStep
    PROVE  PlaceInv'
<1>1. CASE [Next]_vars
  BY <1>1, PlaceStep, ModeAssumption
<1>2. ASSUME NEW k \in Keys, NEW w \in Requests, SearchTiers(k, w)
      PROVE  PlaceInv'
  BY <1>2, SearchPlace
<1>3. ASSUME NEW k \in Keys, NEW w \in Requests, StoresStatic(k, w)
      PROVE  PlaceInv'
  BY <1>3, AccessStaticPlace
<1>4. CASE Reload
  BY <1>4, ReloadPlace
<1> QED BY <1>1, <1>2, <1>3, <1>4 DEF ApartStep

(* They keep the times. *)
LEMMA ApartTimely ==
    ASSUME ~MixMoves, TrailersAgree, PlaceInv, PlaceInv', Timely, ApartStep
    PROVE  Timely'
<1>1. CASE [Next]_vars
  BY <1>1, TimelyStep, ModeAssumption
<1>2. ASSUME NEW k \in Keys, NEW w \in Requests, Serves(k, w), SearchTiers(k, w)
      PROVE  Timely'
  BY <1>2, SearchTimely DEF Serves
<1>3. ASSUME NEW k, NEW w, StoresStatic(k, w)
      PROVE  Timely'
  BY <1>3, OffTimely DEF StoresStatic
<1>4. CASE Reload
  BY <1>4, OffTimely DEF Reload
<1> QED BY <1>1, <1>2, <1>3, <1>4 DEF ApartStep

(* The invariant of every client: well typed, and a client without the     *)
(* piggyback option is kept as a local one is.                             *)
KeptApart == TypeInv /\ mode \in Modes /\ (~Piggyback => Apart)

(* It is established by init. *)
LEMMA KeptApartInit == InitInterleaved => KeptApart
BY TypeInit, PlaceInit, TimelyInit DEF InitInterleaved, KeptApart, Apart

(* No step changes the client's options. *)
LEMMA ModeStays ==
    ASSUME [NextInterleaved]_ivars
    PROVE  mode' = mode
BY StepKinds DEF AccessInterleaved, AccessStaticInterleaved, ReturnInterleaved,
                 Reload, ivars

(* It is kept by every step. *)
LEMMA KeptApartStep ==
    ASSUME ~MixMoves, KeptApart, [NextInterleaved]_ivars
    PROVE  KeptApart'
<1>1. TypeInv' /\ mode' = mode
  BY InterleavedTypeStep, ModeStays DEF KeptApart
<1>2. ASSUME ~Piggyback PROVE Apart'
  <2>1. Apart
    BY <1>2 DEF KeptApart
  <2>2. ApartStep /\ pig' = {} /\ ~hung'
    BY <1>2, <2>1, StepsApart
  <2>3. PlaceInv' /\ (TrailersAgree => Timely')
    BY <1>1, <2>1, <2>2, ApartPlace, ApartTimely DEF Apart
  <2> QED BY <2>2, <2>3 DEF Apart, TrailersAgree
<1> QED BY <1>1, <1>2 DEF KeptApart, Piggyback

(* It holds in every reachable state. *)
LEMMA KeptApartAlways ==
    ASSUME ~MixMoves
    PROVE  SpecInterleaved => []KeptApart
<1>1. KeptApart /\ [NextInterleaved]_ivars => KeptApart'
  BY KeptApartStep
<1> QED BY <1>1, KeptApartInit, PTL DEF SpecInterleaved

(* Over a channel too, a key is in one of hot OMAP, cold OMAP, cache and   *)
(* pending slot, and the client's key sets say where it is.                *)
THEOREM HomesAreKept ==
    ASSUME ~MixMoves
    PROVE  SpecInterleaved => []HomesKept
<1>1. KeptApart => HomesKept
  BY DEF KeptApart, Apart, PlaceInv, HomesKept, HomesInOrder
<1> QED BY <1>1, KeptApartAlways, PTL

(* A client without the piggyback option loses no record.  If no payload   *)
(* is read as a trailer, it also ranks its cache by the recorded           *)
(* frequencies and inserts an evicted entry in time.                       *)
THEOREM InterleavedKeepsRecords ==
    ASSUME ~MixMoves
    PROVE  SpecInterleaved =>
             [](~Piggyback =>
                  /\ NoRecordLost
                  /\ TrailersAgree =>
                       CacheFpCurrent /\ (SwapInterval >= 3 => PendingInsertedInTime))
<1>1. PlaceInv => NoRecordLost
  BY RefOfHome, KeyAssumption DEF NoRecordLost, HomeRef
<1>2. PlaceInv /\ TrailersAgree => CacheFpCurrent
  BY DEF PlaceInv, CacheFpCurrent, FpRecorded, Placed, BooksAgree, RefAt
<1>3. Apart /\ TrailersAgree /\ SwapInterval >= 3 => PendingInsertedInTime
  BY TimelyInTime DEF Apart, PlaceInv
<1>4. KeptApart =>
        (~Piggyback =>
           /\ NoRecordLost
           /\ TrailersAgree =>
                CacheFpCurrent /\ (SwapInterval >= 3 => PendingInsertedInTime))
  BY <1>1, <1>2, <1>3 DEF KeptApart, Apart
<1> QED BY <1>4, KeptApartAlways, PTL

(* A client without the piggyback option stays one. *)
LEMMA ApartAlways ==
    ASSUME ~MixMoves
    PROVE  SpecInterleaved /\ ~Piggyback => [](TypeInv /\ Apart /\ ~Piggyback)
<1>1. ~Piggyback /\ [NextInterleaved]_ivars => ~Piggyback'
  BY ModeStays DEF Piggyback
<1>2. KeptApart /\ ~Piggyback => TypeInv /\ Apart
  BY DEF KeptApart
<1> QED BY <1>1, <1>2, KeptApartAlways, PTL DEF SpecInterleaved

(* Over a channel too, a key enters the cache only past an entry used      *)
(* strictly less (from the cold tier) or strictly more (from the hot one). *)
THEOREM InterleavedSwapsImprove ==
    ASSUME ~MixMoves
    PROVE  SpecInterleaved /\ ~Piggyback => SwapImproves
<1>1. ASSUME Apart, ~Piggyback, [NextInterleaved]_ivars
      PROVE  [Improves]_vars
  <2>1. PlaceInv /\ ApartStep
    BY <1>1, StepsApart DEF Apart
  <2>2. CASE [Next]_vars
    BY <2>1, <2>2, ImprovesStep, ModeAssumption
  <2>3. ASSUME NEW k \in Keys, NEW w \in Requests, SearchTiers(k, w)
        PROVE  Improves
    BY <2>1, <2>3, PromoteImproves
  <2>4. ASSUME NEW k, NEW w, StoresStatic(k, w) PROVE Improves
    BY <2>4 DEF StoresStatic, swapVars, Improves
  <2>5. CASE Reload
    BY <2>5 DEF Reload, Improves
  <2> QED BY <2>1, <2>2, <2>3, <2>4, <2>5 DEF ApartStep
<1>2. SpecInterleaved /\ ~Piggyback => [][Improves]_vars
  BY <1>1, ApartAlways, PTL DEF SpecInterleaved
<1> QED BY <1>2, PTL DEF SwapImproves, Improves

(* Over a channel too, maintenance trades keys one for one.                *)
THEOREM InterleavedTradesKeepSizes ==
    ASSUME ~MixMoves
    PROVE  SpecInterleaved /\ ~Piggyback => SizesKept
<1>1. ASSUME Apart, ~Piggyback, [NextInterleaved]_ivars
      PROVE  [Trades]_vars
  <2>1. PlaceInv /\ ApartStep
    BY <1>1, StepsApart DEF Apart
  <2>2. CASE [Next]_vars
    BY <2>1, <2>2, TradesStep, ModeAssumption
  <2>3. ASSUME NEW k \in Keys, NEW w \in Requests, SearchTiers(k, w)
        PROVE  Trades
    BY <2>1, <2>3, SearchTrades
  <2>4. ASSUME ~maint PROVE Trades
    BY <2>4 DEF Trades
  <2> QED BY <2>1, <2>2, <2>3, <2>4 DEF ApartStep, StoresStatic, Reload
<1>2. SpecInterleaved /\ ~Piggyback => [][Trades]_vars
  BY <1>1, ApartAlways, PTL DEF SpecInterleaved
<1> QED BY <1>2, PTL DEF SizesKept, Trades

(* The steps of such a client are steps of the key-value map or invisible  *)
(* in it.                                                                  *)
LEMMA ApartRefines ==
    ASSUME TrailersAgree, ~MixMoves, RefInv, MapIsSeen, MapIsSeen', ApartStep
    PROVE  [KV!KVNext]_(KV!kvVars) /\ Whole'
<1>1. ASSUME NEW k \in Keys, NEW w \in Requests, KV!Access(k, w), Whole'
      PROVE  [KV!KVNext]_(KV!kvVars) /\ Whole'
  BY <1>1 DEF KV!KVNext, Requests
<1>2. CASE [Next]_vars
  BY <1>2, RefStep
<1>3. ASSUME NEW k \in Keys, NEW w \in Requests,
             Serves(k, w), SearchTiers(k, w), SearchAnswer(k, w)
      PROVE  [KV!KVNext]_(KV!kvVars) /\ Whole'
  <2> DEFINE e == obs_epoch(total + 1)
  <2>1. /\ maint /\ maint' = maint /\ k # pendKey /\ k \notin cacheKeys
        /\ Stores(InterleavedRef(k), w, e)
    BY <1>3 DEF SearchTiers, InterleavedRef
  <2>2. InterleavedRef(k) = HomeRef(k)
    BY <2>1, RefOfHome DEF RefInv, RefOf, InterleavedRef
  <2>3. e \in Nat
    <3>1. total + 1 \in Nat
      BY DEF RefInv, PlaceInv, TypeInv, TypeOK
    <3> QED BY <3>1, EpochNat
  <2>4. reply' = IF HomeRef(k) = NoRef THEN NoValue ELSE Touch(HomeRef(k), w, e).val
    BY <1>3, <2>2 DEF SearchAnswer
  <2> HIDE DEF e
  <2>5. MayAnswer(k, w)
    BY <2>1, <2>4, HomeRefFacts, TouchValue DEF MayAnswer, Seen
  <2>6. KV!Access(k, w) /\ Whole'
    BY <1>3, <2>1, <2>2, <2>3, <2>5, ServeRefines DEF Serves
  <2> QED BY <1>1, <2>6
<1>4. ASSUME NEW k \in Keys, NEW w \in Requests,
             Serves(k, w), StoresStatic(k, w), StaticAnswer(k, w)
      PROVE  [KV!KVNext]_(KV!kvVars) /\ Whole'
  <2>1. InterleavedRef(k) = HomeRef(k)
    BY <1>4, StaticSearch DEF StoresStatic, InterleavedRef
  <2>2. MayAnswer(k, w)
    BY <1>4, <2>1 DEF StaticAnswer, MayAnswer, Seen, Payload
  <2>3. KV!Access(k, w) /\ Whole'
    BY <1>4, <2>2, StaticRefines DEF Serves
  <2> QED BY <1>1, <2>3
<1>5. CASE Reload
  <2>1. data' = data /\ maint' = maint /\ UNCHANGED <<req, reply>>
    BY <1>5 DEF Reload, callVars, RefInv, PlaceInv, TypeInv, TypeOK
  <2> QED BY <2>1, HiddenStep DEF RefInv, KV!kvVars
<1> QED BY <1>2, <1>3, <1>4, <1>5 DEF ApartStep

(* Over a channel too the client sees a plain key-value map, through       *)
(* interleaved accesses and export and reload of a map without             *)
(* maintenance.                                                            *)
THEOREM InterleavedImplementsKeyValueMap ==
    ASSUME ~MixMoves, TrailersAgree
    PROVE  SpecInterleaved /\ ~Piggyback => RefinesKeyValueMap
<1>1. InitInterleaved => KV!KVInit /\ Whole
  BY RefInit DEF InitInterleaved
<1>2. Apart /\ Whole /\ ~Piggyback /\ MapIsSeen /\ MapIsSeen' /\ [NextInterleaved]_ivars =>
        [KV!KVNext]_(KV!kvVars) /\ Whole'
  BY StepsApart, ApartRefines DEF RefInv, Apart
<1>3. Apart => MapIsSeen
  BY SeenValue DEF Apart
<1>4. SpecInterleaved /\ ~Piggyback => KV!KVInit /\ [][KV!KVNext]_(KV!kvVars)
  BY <1>1, <1>2, <1>3, ApartAlways, PTL DEF SpecInterleaved
<1> QED BY <1>4, PTL DEF RefinesKeyValueMap, KV!KVSpec

=============================================================================
