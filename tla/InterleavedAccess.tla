------------------------- MODULE InterleavedAccess -------------------------
(***************************************************************************)
(* TieredOMap over a TCP channel, beside the local one.  With a channel    *)
(* access serves a key that is neither pending nor cached in               *)
(* interleaved_access, which drives both OMAPs round by round; with the    *)
(* piggyback option the maintenance step that is due rides on the same     *)
(* rounds, as a second operation on one of the OMAPs.                      *)
(*                                                                         *)
(* The OMAPs are the abstract maps of TieredOMap and the whole call is one *)
(* action; InterleavedRounds models its rounds and the data ORAM in them,  *)
(* AVLSteps what an AVLOmap does in a round.  What the caller does with    *)
(* the outcome is modelled on a record of the client's fields, in the      *)
(* order of the code.                                                      *)
(*                                                                         *)
(* Two kinds of OMAP differ in what they let the loop decide.  A B+ OMAP   *)
(* pauses after a search (DECISION) and can then remove the key in the     *)
(* same operation.  An AVL OMAP never pauses its search; its piggybacked   *)
(* search asks for the decision, but committing the removal does nothing.  *)
(* And they differ in what they put back of a walk that rides along.       *)
(***************************************************************************)
EXTENDS TieredOMap

CONSTANT Modes   \* the clients to look at, records of
    \*  tcp      is there a TCP channel?
    \*  backend  "AVL" or "BPlus": the kind of both OMAPs
    \*  partial  SecurityMode::TierMembership: the other tier sees a partial dummy
    \*  pb       MaintenanceConfig::piggyback
    \*  early    is the map used before enable_maintenance is called?
    \*  max      bound on total_accesses_

ASSUME ModeAssumption ==
    /\ Modes \subseteq [tcp : BOOLEAN, backend : {"AVL", "BPlus"}, partial : BOOLEAN,
                        pb : BOOLEAN, early : BOOLEAN, max : 0..MaxAccesses]
    /\ ~DaHot

VARIABLE mode    \* the client

Backend    == mode.backend
UsePartial == mode.partial
Piggyback  == mode.pb

VARIABLES
    pig,   \* scan_piggybacked, hot_ins_piggybacked or hot_dummy_pb, and the
           \* same for cold, of the access under way
    hung   \* the loop of interleaved_access cannot end

ivars == <<vars, mode, pig, hung>>

(* The client's fields that maintenance changes. *)
Fields == [hot |-> hot, cold |-> cold, hotKeys |-> hotKeys, physHot |-> physHot,
           hotList |-> hotList, cache |-> cache, cacheKeys |-> cacheKeys,
           cacheRefs |-> cacheRefs, pendKey |-> pendKey, pendRef |-> pendRef, swap |-> swap]

SetFields(t) ==
    /\ hot' = t.hot /\ cold' = t.cold /\ hotKeys' = t.hotKeys /\ physHot' = t.physHot
    /\ hotList' = t.hotList /\ cache' = t.cache /\ cacheKeys' = t.cacheKeys
    /\ cacheRefs' = t.cacheRefs /\ pendKey' = t.pendKey /\ pendRef' = t.pendRef
    /\ swap' = t.swap
    /\ pendSince' = IF t.swap # "Idle" /\ t.swap # swap THEN total' ELSE pendSince

-----------------------------------------------------------------------------
(* What rides on the rounds of an access that is the t-th.                 *)

ScanDue(t) == Piggyback /\ should_scan(t) /\ swap = "Idle" /\ hotList # {}
HotInsertDue(t)  == Piggyback /\ should_hot_insert(t) /\ swap = "HotPend" /\ pendKey # NoKey
ColdInsertDue(t) == Piggyback /\ should_cold_insert(t) /\ swap = "ColdPend" /\ pendKey # NoKey

(* An OMAP that only sees a partial dummy carries no second operation. *)
HotCarries(k)  == k \in physHot \/ ~UsePartial
ColdCarries(k) == k \notin physHot \/ ~UsePartial

Carried(k, t) ==
    (IF ScanDue(t) THEN {"scan"} ELSE {})
    \cup (IF HotInsertDue(t) \/ (Piggyback /\ should_hot_insert(t) /\ HotCarries(k))
          THEN {"hot"} ELSE {})
    \cup (IF ColdInsertDue(t) \/ (Piggyback /\ should_cold_insert(t) /\ ColdCarries(k))
          THEN {"cold"} ELSE {})

-----------------------------------------------------------------------------
(* What access does with the outcome.                                      *)

(* What a walk that rides along may leave of an OMAP.  The nodes it reads  *)
(* and makes are in local_, which the main operation flushes at the end of *)
(* its own walk and the next operation clears.  What was not flushed is    *)
(* gone, with every key whose search leads through it: any set of keys.    *)
(* A search for such a key finds nothing here; in the code it can also     *)
(* throw.                                                                  *)
Remains(omap) ==
    {[j \in Keys |-> IF j \in gone THEN Absent ELSE omap[j]] : gone \in SUBSET Keys}

(* A B+ search beside an insert reaches its leaf in the same round and     *)
(* flushes in the next one.  An AVL search may be at its end before; a     *)
(* dummy, or a search of an empty OMAP, flushes nothing.                   *)
InsertedBeside(omap, j, r, searched) ==
    IF Backend = "BPlus" /\ searched /\ \E x \in Keys : omap[x] # Absent
    THEN {insert(omap, j, r)} ELSE Remains(insert(omap, j, r))

(* The removal of a B+ hot OMAP acts on local_.  It finds the scanned leaf *)
(* there beside a dummy; a search beside it has flushed that leaf.         *)
Demoted(t, k, s, ref, fp, ev) ==
    [t EXCEPT !.hot = IF Backend = "BPlus" /\ k \notin physHot THEN remove(t.hot, s) ELSE @,
              !.cache = cache_admit(t.cache, s, fp, ev),
              !.pendKey = ev, !.pendRef = RefAt(t.cacheRefs, ev),
              !.physHot = @ \ {s}, !.hotList = @ \ {s},
              !.cacheKeys = (@ \cup {s}) \ {ev},
              !.cacheRefs = Without(With(t.cacheRefs, s, ref), ev),
              !.swap = "HotPend"]

(* The scan's outcome: its data block is read before the main one, and the *)
(* decision looks at the cache only.  A B+ OMAP flushes once more when it  *)
(* is told the decision, an AVL OMAP does not.                             *)
Scanned(t, k, s) ==
    LET ref == search(t.hot, s)
        fp  == ScanMeta(ref).fp
        left == {[t EXCEPT !.hot = m] : m \in IF Backend = "AVL" THEN Remains(t.hot) ELSE {t.hot}}
    IN  IF should_demote_cache(t.cache, fp)
        THEN UNION {{Demoted(u, k, s, ref, fp, ev) : ev \in Evictable(t.cache, s, fp, TRUE)} :
                       u \in left}
        ELSE left

NotPending(t) == [t EXCEPT !.pendKey = NoKey, !.pendRef = NoRef, !.swap = "Idle"]

(* hot_insert_done is set whether or not the insert was begun. *)
HotInserted(t, k) ==
    {NotPending([t EXCEPT !.hot = m, !.physHot = @ \cup {t.pendKey},
                          !.hotList = @ \cup {t.pendKey}]) :
        m \in IF HotCarries(k) THEN InsertedBeside(t.hot, t.pendKey, t.pendRef, k \in physHot)
              ELSE {t.hot}}

ColdInserted(t, k) ==
    {NotPending([t EXCEPT !.cold = m]) :
        m \in IF ColdCarries(k) THEN InsertedBeside(t.cold, t.pendKey, t.pendRef, k \notin physHot)
              ELSE {t.cold}}

(* Mutant: the evicted key stays in hot_keys_. *)
Promoted_StaysHot(t, k, ref, fp, ev) ==
    [t EXCEPT !.cache = cache_admit(t.cache, k, fp, ev),
              !.pendKey = ev, !.pendRef = RefAt(t.cacheRefs, ev),
              !.cacheKeys = (@ \ {ev}) \cup {k},
              !.cacheRefs = With(Without(t.cacheRefs, ev), k, ref),
              !.hotKeys = @ \cup {k},
              !.swap = "ColdPend"]

Promoted(t, k, ref, fp, ev) ==
    [t EXCEPT !.cache = cache_admit(t.cache, k, fp, ev),
              !.pendKey = ev, !.pendRef = RefAt(t.cacheRefs, ev),
              !.cacheKeys = (@ \ {ev}) \cup {k},
              !.cacheRefs = With(Without(t.cacheRefs, ev), k, ref),
              !.hotKeys = (@ \ {ev}) \cup {k},
              !.swap = "ColdPend"]

(* Mutant: the promoted key is not removed from the cold OMAP. *)
Reacted_KeepsCold(t, k, ref, fp) ==
    IF fp > 0 /\ t.swap = "Idle" /\ should_promote(t.cache, fp) /\ k \notin hotKeys
    THEN {Promoted(t, k, ref, fp, ev) : ev \in Evictable(t.cache, k, fp, FALSE)}
    ELSE {t}

(* The reactive promotion of a cold key.  A B+ search decided it inside    *)
(* the loop, on the swap state and the cache of before; otherwise it is    *)
(* decided now and the key removed in a call of its own.                   *)
Reacted(t, k, ref, fp) ==
    LET inLoop == Backend = "BPlus" /\ k \notin physHot /\ ref # NoRef
        prom == /\ fp > 0
                /\ IF inLoop THEN swap = "Idle" /\ should_promote(cache, fp)
                   ELSE t.swap = "Idle" /\ should_promote(t.cache, fp)
        gone == [t EXCEPT !.cold = remove(t.cold, k)]
    IN  IF ~prom \/ (~inLoop /\ k \in hotKeys) THEN {t}
        ELSE IF k \in hotKeys THEN {gone}
        ELSE {Promoted(gone, k, ref, fp, ev) : ev \in Evictable(t.cache, k, fp, FALSE)}

-----------------------------------------------------------------------------
(* access with maintenance, the interleaved branch.  A piggybacked scan    *)
(* whose key is not in the hot OMAP never asks for a decision, and the     *)
(* loop waits for it forever.                                              *)
AccessInterleaved(k, w) ==
    LET t == total + 1
        ref == search(IF k \in physHot THEN hot ELSE cold, k)
        fp == IF ref = NoRef THEN 0 ELSE Touch(ref, w, obs_epoch(t)).meta.fp
    IN
    /\ mode.tcp /\ req = NoRequest /\ maint /\ ~hung
    /\ k # pendKey /\ k \notin cacheKeys
    /\ total' = t /\ req' = <<k, w>>
    /\ pig' = Carried(k, t)
    /\ IF ref = NoRef THEN data' = data /\ reply' = NoValue
       ELSE /\ data' = [data EXCEPT ![ref] = Touch(ref, w, obs_epoch(t))]
            /\ reply' = Touch(ref, w, obs_epoch(t)).val
    /\ \E s \in IF ScanDue(t) THEN {x \in hotList : NextScanKey(x)} ELSE {NoKey} :
         /\ scanPtr' = IF s = NoKey THEN scanPtr ELSE s
         /\ hung' = (s # NoKey /\ search(hot, s) = NoRef)
         /\ \E t1 \in IF s # NoKey THEN Scanned(Fields, k, s) ELSE {Fields} :
            \E t2 \in IF HotInsertDue(t) THEN HotInserted(t1, k) ELSE {t1} :
            \E t3 \in IF ColdInsertDue(t) THEN ColdInserted(t2, k) ELSE {t2} :
            \E t4 \in Reacted(t3, k, ref, fp) : SetFields(t4)
    /\ UNCHANGED <<maint, daQueue, scanPos, mode>>

(* What TieredOMap models applies as it is. *)
Local(A) == ~hung /\ A /\ pig' = {} /\ UNCHANGED <<mode, hung>>

(* access without maintenance: a write is answered with the new payload. *)
AccessStaticInterleaved(k, w) ==
    LET ref == search(IF k \in physHot THEN hot ELSE cold, k) IN
    /\ mode.tcp /\ req = NoRequest /\ ~maint /\ ~hung
    /\ req' = <<k, w>> /\ pig' = {}
    /\ IF ref = NoRef THEN data' = data /\ reply' = NoValue
       ELSE /\ data' = [data EXCEPT ![ref] = [val  |-> Payload(data[ref], w),
                                              meta |-> data[ref].meta]]
            /\ reply' = Payload(data[ref], w)
    /\ UNCHANGED <<maint, tierVars, cacheVars, swapVars, scanVars, total, mode, hung>>

(* The end of access: the staggered steps that did not ride along; Return *)
(* of TieredOMap when nothing did.                                         *)
ReturnInterleaved ==
    /\ req # NoRequest /\ ~hung
    /\ \/ maint /\ should_scan(total) /\ "scan" \notin pig /\ do_scan_step
       \/ maint /\ should_hot_insert(total) /\ "hot" \notin pig /\ do_hot_insert_step
       \/ maint /\ should_cold_insert(total) /\ "cold" \notin pig /\ do_cold_insert_step
       \/ /\ maint => /\ ~should_scan(total) \/ "scan" \in pig
                      /\ ~should_hot_insert(total) \/ "hot" \in pig
                      /\ ~should_cold_insert(total) \/ "cold" \in pig
          /\ UNCHANGED <<tierVars, cacheVars, swapVars, scanPtr, daQueue>>
    /\ req' = NoRequest /\ reply' = NoValue /\ pig' = {}
    /\ UNCHANGED <<maint, data, total, scanPos, mode, hung>>

(* Mutant: hot_key_list_ comes back empty. *)
Reload_NoList ==
    /\ req = NoRequest /\ ~hung /\ ~maint
    /\ hotList' = {}
    /\ UNCHANGED <<maint, hot, cold, hotKeys, physHot, cacheVars, swapVars, scanVars, data, total,
                   callVars, mode, pig, hung>>

(* export_state, and from_state in a new process: neither the cache nor    *)
(* the pending entry is written, and maintenance comes back off.  The only *)
(* caller (bench_setup.cpp) exports a map that has no maintenance.         *)
Reload ==
    /\ req = NoRequest /\ ~hung /\ ~maint
    /\ maint' = FALSE
    /\ cache' = <<>> /\ cacheKeys' = {} /\ cacheRefs' = <<>>
    /\ pendKey' = NoKey /\ pendRef' = NoRef /\ swap' = "Idle"
    /\ scanPtr' = -1 /\ daQueue' = <<>> /\ scanPos' = 0 /\ total' = 0
    /\ UNCHANGED <<tierVars, data, pendSince, callVars, mode, pig, hung>>

InitInterleaved == Init /\ mode \in Modes /\ pig = {} /\ hung = FALSE

(* access, whichever path it takes. *)
Access(k, w) ==
    \/ Local(AccessPending(k, w))
    \/ Local(AccessCached(k, w))
    \/ ~mode.tcp /\ Local(AccessSequential(k, w))
    \/ AccessInterleaved(k, w)

(* What the client does with a map before maintenance is on. *)
UseStatic(k, w) ==
    \/ ~mode.tcp /\ Local(AccessStatic(k, w))
    \/ AccessStaticInterleaved(k, w)

NextInterleaved ==
    \/ total < mode.max /\ \E k \in Keys, w \in Requests : Access(k, w)
    \/ mode.early /\ \E k \in Keys, w \in Requests : UseStatic(k, w)
    \/ mode.early /\ \E k \in Keys : Local(promote(k)) \/ Local(demote(k))
    \/ mode.early /\ Reload
    \/ Local(enable_maintenance)
    \/ ReturnInterleaved

SpecInterleaved == InitInterleaved /\ [][NextInterleaved]_ivars

-----------------------------------------------------------------------------
(* Properties; the others are those of TieredOMap.                         *)

(* The tiers, the cache and the pending slot hold disjoint sets of keys,   *)
(* and the client's key sets say which (HomesInOrder).  With the piggyback *)
(* option walks lose nodes, and an AVL hot OMAP keeps the keys that were   *)
(* demoted (piggyback_commit_remove is empty), so that client is excepted. *)
HomesKept == ~Piggyback => HomesInOrder
=============================================================================
