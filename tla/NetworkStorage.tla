--------------------------- MODULE NetworkStorage ---------------------------
(***************************************************************************)
(* NetworkStorage objects of one client, the TcpChannel they share, and    *)
(* the StorageServer thread that serves the connection.  A call sends one  *)
(* request and waits for one answer; the server handles one request after  *)
(* the other, in the ClientState of this connection.                       *)
(*                                                                         *)
(* Every connection has a thread and a ClientState of its own, so one is   *)
(* modelled.  A message is delivered whole: framing and byte layout are    *)
(* left out, but an answer keeps the layout (fmt) by which it is parsed.   *)
(***************************************************************************)
EXTENDS BinaryTreeStorage

CONSTANTS
    Handles,      \* names for NetworkStorage objects
    LocalStore,   \* a store that is not on the server: its store_id is -1
    Shapes,       \* (num_data, bucket_size) of the stores: Shapes[TRUE] for a
                  \* client with a receive timeout, Shapes[FALSE] for one without
    Blocks,       \* blocks that are written and loaded
    LoadSeqs,     \* sequences of blocks given to bulk_load or to a set-up
    MaxIds,       \* bound on the store ids of a connection
    MaxLate,      \* bound on the answers that are late after timeouts
    NoHandle, NoTree, NoCall, Void, Threw, Garbled

ASSUME NetAssumption ==
    /\ MaxIds \in Nat /\ MaxLate \in Nat /\ DOMAIN Shapes \subseteq BOOLEAN
    /\ IsFiniteSet(Handles) /\ LocalStore \notin Handles
    /\ \A t \in DOMAIN Shapes : \A s \in Shapes[t] : s.num_data \in Nat /\ s.bucket_size \in Nat \ {0}
    /\ \A b \in Blocks : b.leaf \in Nat
    /\ LoadSeqs \subseteq Seq(Blocks)
    \* After a timeout an object may cache the level of another store; what
    \* an array access out of range does is not modelled.
    /\ TRUE \in DOMAIN Shapes => \A r, s \in Shapes[TRUE] : LevelFor(r.num_data) = LevelFor(s.num_data)

VARIABLES
    handle,    \* object -> its store_id_, level_, bucket_size_, or NoHandle
    call,      \* the call that waits in TcpChannel::request, or NoCall
    ret,       \* what the last call returned (Threw: it threw)
    timed,     \* set_recv_timeout was called on the channel
    fdOpen,    \* the client's fd_ >= 0
    link,      \* the connection has not been lost
    toServer, toClient,   \* messages under way
    stores, next_id       \* ClientState

clientVars == <<handle, call, ret>>
netVars    == <<timed, fdOpen, link, toServer, toClient>>
serverVars == <<stores, next_id>>
vars == <<handle, call, ret, timed, fdOpen, link, toServer, toClient, stores, next_id>>

(* The objects in the order of the stores in the answer of SETUP_BENCH. *)
HandleSeq ==
    CHOOSE f \in [1 .. Cardinality(Handles) -> Handles] :
        \A i, j \in DOMAIN f : f[i] = f[j] => i = j

Live      == {h \in Handles : handle[h] # NoHandle}
Connected == fdOpen /\ link
IdOf(h)   == IF h = LocalStore THEN -1 ELSE handle[h].id
LevelOf(h) == IF h = LocalStore THEN 1 ELSE handle[h].level

-----------------------------------------------------------------------------
(* The client.  TcpChannel::request, first half: the message is sent (into *)
(* a dead connection: in vain) and the caller waits.                       *)
Request(op, hs, arg) ==
    /\ call = NoCall
    /\ call' = [op |-> op, hs |-> hs, arg |-> arg]
    /\ toServer' = IF ~Connected THEN toServer ELSE Append(toServer,
          [op |-> op, arg |-> arg,
           ids |-> IF op \in {"CREATE", "SETUP_BENCH"} THEN <<>>
                   ELSE [i \in DOMAIN hs |-> IdOf(hs[i])]])
    /\ ret' = Void
    /\ UNCHANGED <<handle, timed, fdOpen, link, toClient, serverVars>>

(* What a caller may write: the nodes it has read, emptied or with a block *)
(* in one of them.                                                         *)
Leaves(h)    == 0 .. LeafRange(LevelOf(h)) - 1
WriteData(S) ==
    {[n \in S |-> IF n = k THEN <<b>> ELSE <<>>] : k \in S \cup {-1}, b \in Blocks}
PathData(h)  == UNION {WriteData(PathNodes(LevelOf(h), l)) : l \in Leaves(h)}

Construct(h, s) ==
    h \notin Live /\ next_id < MaxIds /\ Request("CREATE", <<h>>, s)

Reset(h, s) == h \in Live /\ Request("RESET", <<h>>, s)

FillData(h, b) == h \in Live /\ b.leaf \in Leaves(h) /\ Request("FILL_DATA", <<h>>, b)

BulkLoad(h, bs) ==
    /\ h \in Live /\ \A i \in DOMAIN bs : bs[i].leaf \in Leaves(h)
    /\ Request("BULK_LOAD", <<h>>, bs)

ReadPath(h, l)  == h \in Live /\ l \in Leaves(h) /\ Request("READ_PATH", <<h>>, l)

WritePath(h) == h \in Live /\ \E d \in PathData(h) : Request("WRITE_PATH", <<h>>, d)

ReadMulti(h) ==
    h \in Live /\ \E l, m \in Leaves(h) : Request("READ_MULTI", <<h>>, <<l, m>>)

WriteMulti(h) ==
    /\ h \in Live
    /\ \E l, m \in Leaves(h) : \E d \in WriteData(MergedNodes(LevelOf(h), {l, m})) :
          Request("WRITE_MULTI", <<h>>, d)

(* batch_read_paths and batch_write_paths: the caller passes the store_id  *)
(* of whatever storage its ORAMs have.                                     *)
BatchRead(g, h) ==
    /\ {g, h} \subseteq Live \cup {LocalStore}
    /\ \E l \in Leaves(g), m \in Leaves(h) : Request("BATCH_READ", <<g, h>>, <<l, m>>)

BatchWrite(g, h) ==
    /\ {g, h} \subseteq Live \cup {LocalStore}
    /\ \E d \in PathData(g), e \in PathData(h) : Request("BATCH_WRITE", <<g, h>>, <<d, e>>)

(* A benchmark asks the server to build a map and then restores its side,  *)
(* one object per store; the objects of the previous map are gone by then. *)
SetupBench ==
    /\ Live = {}
    /\ \E k \in 1 .. Cardinality(Handles) : \E ss \in [1 .. k -> Shapes[timed]] :
          Request("SETUP_BENCH", SubSeq(HandleSeq, 1, k), ss)

(* ~NetworkStorage: with an open channel DESTROY is requested and every    *)
(* exception swallowed; with a closed one the object just goes.            *)
Destruct(h) ==
    /\ h \in Live
    /\ \/ fdOpen /\ Request("DESTROY", <<h>>, Void)
       \/ /\ ~fdOpen /\ call = NoCall
          /\ handle' = [handle EXCEPT ![h] = NoHandle]
          /\ UNCHANGED <<call, ret, netVars, serverVars>>

(* The connection is over: recv_msg fails in handle_client, the thread     *)
(* ends and frees its ClientState.  Nobody sees whether it handled another *)
(* request before, so this is part of the step that ends the connection.   *)
HangUp == toServer' = <<>> /\ stores' = <<>> /\ next_id' = 0

(* TcpChannel::close *)
Close ==
    /\ fdOpen /\ call = NoCall
    /\ fdOpen' = FALSE /\ toClient' = <<>> /\ HangUp
    /\ UNCHANGED <<clientVars, timed, link>>

(* Answers of the server.  fmt is the layout of the payload val; ids are   *)
(* the store ids in it.                                                    *)
OkAnswer(fmt, val, ids) == [type |-> "OK", fmt |-> fmt, val |-> val, ids |-> ids]
ErrAnswer == [type |-> "ERROR"]

(* How the caller parses an answer.  A void call looks only at the type;   *)
(* bytes of another layout make no sense to the others.                    *)
FmtOf(op) ==
    CASE op = "CREATE"      -> "store"
      [] op = "SETUP_BENCH" -> "blob"
      [] op = "RESET"       -> "geometry"
      [] op = "BULK_LOAD"   -> "placed"
      [] op \in {"READ_PATH", "READ_MULTI"} -> "path"
      [] op = "BATCH_READ"  -> "paths"
      [] OTHER              -> "void"

Geometry(t) == <<t.level, LeafRange(t.level)>>

(* Mutant: reset does not refresh the cached level. *)
Remember_StaleLevel(c, r) ==
    CASE c.op = "CREATE" -> [handle EXCEPT ![c.hs[1]] =
            [id |-> r.ids[1], level |-> r.val[1][1], bucket_size |-> c.arg.bucket_size]]
      [] c.op = "SETUP_BENCH" -> [h \in Handles |->
            IF h \notin {HandleSeq[i] : i \in DOMAIN r.ids} THEN NoHandle
            ELSE LET i == CHOOSE j \in DOMAIN r.ids : HandleSeq[j] = h
                 IN  [id |-> r.ids[i], level |-> r.val[i][1], bucket_size |-> r.val[i][3]]]
      [] c.op = "RESET" -> [handle EXCEPT ![c.hs[1]].bucket_size = c.arg.bucket_size]
      [] c.op = "DESTROY" -> [handle EXCEPT ![c.hs[1]] = NoHandle]
      [] OTHER -> handle

(* The objects after call c has returned with the OK answer r: the         *)
(* constructor records what the server said, a restored map has one object *)
(* for each store in the blob, reset takes the new level, and a destroyed  *)
(* object is gone.                                                         *)
Remember(c, r) ==
    CASE c.op = "CREATE" -> [handle EXCEPT ![c.hs[1]] =
            [id |-> r.ids[1], level |-> r.val[1][1], bucket_size |-> c.arg.bucket_size]]
      [] c.op = "SETUP_BENCH" -> [h \in Handles |->
            IF h \notin {HandleSeq[i] : i \in DOMAIN r.ids} THEN NoHandle
            ELSE LET i == CHOOSE j \in DOMAIN r.ids : HandleSeq[j] = h
                 IN  [id |-> r.ids[i], level |-> r.val[i][1], bucket_size |-> r.val[i][3]]]
      [] c.op = "RESET" -> [handle EXCEPT ![c.hs[1]].level = r.val[1],
                                          ![c.hs[1]].bucket_size = c.arg.bucket_size]
      [] c.op = "DESTROY" -> [handle EXCEPT ![c.hs[1]] = NoHandle]
      [] OTHER -> handle

(* A call that throws leaves the objects as they are, but a destructor     *)
(* completes and a constructor has made no object.                         *)
Throws ==
    /\ ret' = Threw /\ call' = NoCall
    /\ handle' = IF call.op = "DESTROY" THEN [handle EXCEPT ![call.hs[1]] = NoHandle]
                 ELSE handle

(* TcpChannel::request, second half: the next message is taken for the     *)
(* answer.                                                                 *)
Receive ==
    /\ call # NoCall /\ toClient # <<>>
    /\ LET r == Head(toClient)
       IN  \/ r.type = "ERROR" /\ Throws
           \/ /\ r.type = "OK" /\ FmtOf(call.op) \in {"void", r.fmt}
              /\ handle' = Remember(call, r)
              /\ ret' = IF FmtOf(call.op) = "void" THEN Void ELSE r.val
              /\ call' = NoCall
    /\ toClient' = Tail(toClient)
    /\ UNCHANGED <<timed, fdOpen, link, toServer, serverVars>>

(* An answer of another layout is parsed past its end: the client gets     *)
(* garbage or the process dies, and its connection with it.                *)
Misparse ==
    /\ call # NoCall /\ toClient # <<>>
    /\ Head(toClient).type = "OK" /\ FmtOf(call.op) \notin {"void", Head(toClient).fmt}
    /\ call' = NoCall /\ UNCHANGED <<timed, link>>
    /\ \/ /\ call.op \notin {"CREATE", "SETUP_BENCH", "RESET"}
          /\ ret' = Garbled /\ toClient' = Tail(toClient)
          /\ UNCHANGED <<handle, fdOpen, toServer, serverVars>>
       \/ /\ fdOpen' = FALSE /\ toClient' = <<>> /\ HangUp
          /\ handle' = [h \in Handles |-> NoHandle] /\ ret' = Threw

(* recv returns 0 or an error, or send has failed. *)
Disconnected ==
    /\ call # NoCall /\ toClient = <<>> /\ ~Connected
    /\ Throws
    /\ UNCHANGED <<netVars, serverVars>>

(* SO_RCVTIMEO expires: recv_raw throws; the connection stays as it is. *)
Timeout ==
    /\ timed /\ call # NoCall /\ toClient = <<>> /\ Connected
    /\ Len(toServer) <= MaxLate
    /\ Throws
    /\ UNCHANGED <<netVars, serverVars>>

(* The connection breaks, or an exception in dispatch ends the thread; an  *)
(* answer under way may still arrive.                                      *)
Lose ==
    /\ Connected /\ link' = FALSE /\ HangUp
    /\ \E i \in 0 .. Len(toClient) : toClient' = SubSeq(toClient, 1, i)
    /\ UNCHANGED <<clientVars, timed, fdOpen>>

-----------------------------------------------------------------------------
(* The server: dispatch, one action per message type. *)
Send(r) == toClient' = Append(toClient, r)
SendOk(fmt, val, ids) == Send(OkAnswer(fmt, val, ids))
SendErr == Send(ErrAnswer)

(* A case that works on one store: look it up, change it, answer. *)
OnStore(m, t, fmt, val) ==
    /\ m.ids[1] \in DOMAIN stores
    /\ stores' = [stores EXCEPT ![m.ids[1]] = t]
    /\ SendOk(fmt, val, <<>>)
    /\ next_id' = next_id

DoCreate(m) ==
    /\ m.op = "CREATE"
    /\ LET t == NewTree(m.arg)
       IN  /\ stores' = [i \in DOMAIN stores \cup {next_id} |->
                            IF i = next_id THEN t ELSE stores[i]]
           /\ SendOk("store", <<Geometry(t)>>, <<next_id>>)
    /\ next_id' = next_id + 1

DoReset(m) ==
    /\ m.op = "RESET"
    /\ OnStore(m, NewTree(m.arg), "geometry", Geometry(NewTree(m.arg)))

DoFillData(m) ==
    m.op = "FILL_DATA" /\ OnStore(m, Fill(stores[m.ids[1]], m.arg), "void", Void)

DoBulkLoad(m) ==
    /\ m.op = "BULK_LOAD"
    /\ LET t == Load(stores[m.ids[1]], m.arg) IN OnStore(m, t, "placed", Placed(t))

DoReadPath(m) ==
    /\ m.op = "READ_PATH"
    /\ LET t == stores[m.ids[1]]
       IN  OnStore(m, t, "path", ReadNodes(t, PathNodes(t.level, m.arg)))

DoReadMulti(m) ==
    /\ m.op = "READ_MULTI"
    /\ LET t == stores[m.ids[1]]
       IN  OnStore(m, t, "path", ReadNodes(t, MergedNodes(t.level, {m.arg[i] : i \in DOMAIN m.arg})))

(* write_path ignores its leaf, so WRITE_PATH and WRITE_MULTI agree. *)
DoWrite(m) ==
    /\ m.op \in {"WRITE_PATH", "WRITE_MULTI"}
    /\ OnStore(m, WriteNodes(stores[m.ids[1]], m.arg), "void", Void)

(* The cases above with an id that names no store. *)
DoBadId(m) ==
    /\ m.op \in {"RESET", "FILL_DATA", "BULK_LOAD", "READ_PATH", "WRITE_PATH",
                   "READ_MULTI", "WRITE_MULTI"}
    /\ m.ids[1] \notin DOMAIN stores
    /\ SendErr /\ UNCHANGED <<stores, next_id>>

Good(m) == \A i \in DOMAIN m.ids : m.ids[i] \in DOMAIN stores

(* Mutant: the error leaves the loop but not the function. *)
DoBatchRead_TwoAnswers(m) ==
    /\ m.op = "BATCH_READ" /\ UNCHANGED <<stores, next_id>>
    /\ IF Good(m)
       THEN SendOk("paths", [i \in DOMAIN m.ids |->
               LET t == stores[m.ids[i]] IN ReadNodes(t, PathNodes(t.level, m.arg[i]))], <<>>)
       ELSE toClient' = toClient \o <<ErrAnswer, OkAnswer("paths", <<>>, <<>>)>>

(* Mutant: a bad id in the batch is not answered. *)
DoBatchRead_NoErr(m) ==
    /\ m.op = "BATCH_READ" /\ UNCHANGED <<stores, next_id>>
    /\ IF Good(m)
       THEN SendOk("paths", [i \in DOMAIN m.ids |->
               LET t == stores[m.ids[i]] IN ReadNodes(t, PathNodes(t.level, m.arg[i]))], <<>>)
       ELSE toClient' = toClient

DoBatchRead(m) ==
    /\ m.op = "BATCH_READ" /\ UNCHANGED <<stores, next_id>>
    /\ IF Good(m)
       THEN SendOk("paths", [i \in DOMAIN m.ids |->
               LET t == stores[m.ids[i]] IN ReadNodes(t, PathNodes(t.level, m.arg[i]))], <<>>)
       ELSE SendErr

(* One round of the loop of BATCH_WRITE: nothing is written at or after    *)
(* the first bad id.                                                       *)
WriteOne(m, acc, i) ==
    IF acc.ok /\ m.ids[i] \in DOMAIN stores
    THEN [ok |-> TRUE, st |-> [acc.st EXCEPT ![m.ids[i]] = WriteNodes(@, m.arg[i])]]
    ELSE [ok |-> FALSE, st |-> acc.st]

(* Mutant: the writes are done from the last to the first. *)
WriteLoop_Backwards(m) ==
    WriteOne(m, WriteOne(m, [ok |-> TRUE, st |-> stores], 2), 1)

(* The loop; a batch has two requests here. *)
WriteLoop(m) ==
    WriteOne(m, WriteOne(m, [ok |-> TRUE, st |-> stores], 1), 2)

DoBatchWrite(m) ==
    /\ m.op = "BATCH_WRITE" /\ next_id' = next_id
    /\ stores' = WriteLoop(m).st
    /\ IF WriteLoop(m).ok THEN SendOk("void", Void, <<>>) ELSE SendErr

(* Mutant: the store is not erased. *)
DoDestroy_KeepStore(m) ==
    m.op = "DESTROY" /\ SendOk("void", Void, <<>>) /\ UNCHANGED <<stores, next_id>>

DoDestroy(m) ==
    /\ m.op = "DESTROY"
    /\ stores' = [i \in DOMAIN stores \ {m.ids[1]} |-> stores[i]]
    /\ SendOk("void", Void, <<>>)
    /\ next_id' = next_id

(* SETUP_BENCH forgets all stores, starts the ids again at 0 and registers *)
(* one loaded store after the other; its answer names them.                *)
DoSetupBench(m) ==
    /\ m.op = "SETUP_BENCH"
    /\ \E ls \in [DOMAIN m.arg -> LoadSeqs] :
          /\ \A i \in DOMAIN m.arg : \A j \in DOMAIN ls[i] :
                ls[i][j].leaf < LeafRange(NewTree(m.arg[i]).level)
          /\ stores' = [id \in 0 .. Len(m.arg) - 1 |-> Load(NewTree(m.arg[id + 1]), ls[id + 1])]
    /\ next_id' = Len(m.arg)
    /\ SendOk("blob", [i \in DOMAIN m.arg |->
                          Append(Geometry(NewTree(m.arg[i])), m.arg[i].bucket_size)],
              [i \in DOMAIN m.arg |-> i - 1])

Dispatch ==
    /\ toServer # <<>>
    /\ LET m == Head(toServer)
       IN  \/ DoCreate(m)    \/ DoReset(m)      \/ DoFillData(m) \/ DoBulkLoad(m)
           \/ DoReadPath(m)  \/ DoReadMulti(m)  \/ DoWrite(m)    \/ DoBadId(m)
           \/ DoBatchRead(m) \/ DoBatchWrite(m) \/ DoDestroy(m)  \/ DoSetupBench(m)
    /\ toServer' = Tail(toServer)
    /\ UNCHANGED <<clientVars, timed, fdOpen, link>>

-----------------------------------------------------------------------------
Init ==
    /\ handle = [h \in Handles |-> NoHandle] /\ call = NoCall /\ ret = Void
    /\ timed \in DOMAIN Shapes
    /\ fdOpen = TRUE /\ link = TRUE /\ toServer = <<>> /\ toClient = <<>>
    /\ stores = <<>> /\ next_id = 0

ClientCall ==
    \/ \E h \in Handles :
          \/ \E s \in Shapes[timed] : Construct(h, s) \/ Reset(h, s)
          \/ \E b \in Blocks : FillData(h, b)
          \/ \E bs \in LoadSeqs : BulkLoad(h, bs)
          \/ h \in Live /\ \E l \in Leaves(h) : ReadPath(h, l)
          \/ WritePath(h) \/ ReadMulti(h) \/ WriteMulti(h) \/ Destruct(h)
    \/ \E g, h \in Handles \cup {LocalStore} : BatchRead(g, h) \/ BatchWrite(g, h)
    \/ SetupBench

Next ==
    \/ ClientCall \/ Close \/ Receive \/ Misparse \/ Disconnected \/ Timeout \/ Lose
    \/ Dispatch

Fairness == WF_vars(Receive \/ Misparse) /\ WF_vars(Disconnected) /\ WF_vars(Dispatch)

Spec == Init /\ [][Next]_vars /\ Fairness

-----------------------------------------------------------------------------
(* When a caller can take an answer, nothing else is under way, in either  *)
(* direction: the channel delivers in order, so the answer is the one to   *)
(* this request and not a late one to a request given up before.           *)
AnswerIsOwn ==
    call # NoCall /\ toClient # <<>> => toServer = <<>> /\ Len(toClient) = 1

(* So it is without a receive timeout, whatever else happens to the        *)
(* connection.                                                             *)
AnswersInStep == ~timed => AnswerIsOwn

(* Between two calls on a live connection, the objects and the server's    *)
(* stores correspond: an object's id names a store with the level and      *)
(* bucket size the object has cached (a stale level would make it ask for  *)
(* the wrong leaves), and no two objects share a store, although           *)
(* SETUP_BENCH gives out the same ids again.  After a receive timeout      *)
(* nothing of this can be expected.                                        *)
HandlesBacked ==
    call = NoCall /\ Connected /\ ~timed =>
        /\ \A h \in Live :
              /\ handle[h].id \in DOMAIN stores
              /\ stores[handle[h].id].level = handle[h].level
              /\ stores[handle[h].id].bucket_size = handle[h].bucket_size
        /\ \A g, h \in Live : g # h => handle[g].id # handle[h].id

(* The server keeps no store that no object of the client names: every     *)
(* destructor reaches the server, or the connection is gone and with it    *)
(* its stores.                                                             *)
NoOrphanStore ==
    call = NoCall /\ Connected /\ ~timed =>
        DOMAIN stores \subseteq {handle[h].id : h \in Live}

(* A call always comes back, with a result or with an exception, whatever  *)
(* happens to the connection: the server answers every request, also those *)
(* it cannot serve.                                                        *)
CallsReturn == (call # NoCall) ~> (call = NoCall)

-----------------------------------------------------------------------------
(* Seen through its objects, the service is a set of local stores. *)
AnswerOf(c, r) ==
    IF r.type = "ERROR" THEN Threw ELSE r.val

IdNow(h) ==
    IF handle[h] # NoHandle THEN handle[h].id
    ELSE IF call # NoCall /\ toClient # <<>> /\ call.op \in {"CREATE", "SETUP_BENCH"}
            /\ \E i \in DOMAIN call.hs : call.hs[i] = h
            /\ Head(toClient).type = "OK"
         THEN LET i == CHOOSE j \in DOMAIN call.hs : call.hs[j] = h
              IN  IF i \in DOMAIN Head(toClient).ids THEN Head(toClient).ids[i] ELSE -1
         ELSE -1

Objs == [h \in Handles |-> IF Connected /\ IdNow(h) \in DOMAIN stores
                           THEN stores[IdNow(h)] ELSE NoTree]

Phase ==
    CASE call = NoCall -> [at |-> "idle"]
      [] call # NoCall /\ toClient # <<>> ->
            [at |-> "answered", call |-> call, answer |-> AnswerOf(call, Head(toClient))]
      [] call # NoCall /\ toClient = <<>> /\ toServer # <<>> ->
            [at |-> "called", call |-> call]
      [] OTHER -> [at |-> "lost", call |-> call]

SI == INSTANCE StorageInterface WITH
    objs  <- IF timed THEN [h \in Handles |-> NoTree] ELSE Objs,
    up    <- timed \/ Connected,
    phase <- IF timed THEN [at |-> "idle"] ELSE Phase,
    ret   <- IF timed THEN Void ELSE ret

(* Without a receive timeout NetworkStorage implements StorageInterface:   *)
(* each call takes effect at most once and returns the answer to itself,   *)
(* computed from the store the object stands for; a batch with a bad id    *)
(* throws after the writes before it.  The effect of a call whose answer   *)
(* was lost is never seen.                                                 *)
ImplementsStorageInterface == SI!SISpec
=============================================================================
