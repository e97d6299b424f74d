------------------------ MODULE NetworkStorageProofs ------------------------
(***************************************************************************)
(* Without receive timeouts the channel is in lockstep: at most one        *)
(* message is under way, and none between two calls.  So the handles of a  *)
(* client name the server's stores, and the objects behave as the local    *)
(* stores do.                                                              *)
(***************************************************************************)
EXTENDS NetworkStorage, SequenceTheorems, FiniteSetTheorems, TLAPS

(* The inductive invariant: no message, the request of the waiting call on *)
(* a live connection, or its answer.                                       *)
Lockstep ==
    \/ toServer = <<>> /\ toClient = <<>>
    \/ call # NoCall /\ toClient = <<>> /\ Connected /\ \E m : toServer = <<m>>
    \/ call # NoCall /\ toServer = <<>> /\ \E r : toClient = <<r>>

(* A call is never taken for no call. *)
CallsAreCalls == \A op, hs, arg : [op |-> op, hs |-> hs, arg |-> arg] # NoCall

(* Appending to, and taking from, a channel with at most one message. *)
LEMMA OneMessage ==
    /\ \A m : Append(<<>>, m) = <<m>>
    /\ \A m : Tail(<<m>>) = <<>>
    /\ \A m : Len(<<m>>) = 1
    /\ \A m : <<m>> # <<>>
    /\ \A m, i : i \in 0 .. 1 => SubSeq(<<m>>, 1, i) \in {<<>>, <<m>>}
    /\ \A i \in 0 .. 0 : SubSeq(<<>>, 1, i) = <<>>
<1>1. \A m : Append(<<>>, m) = <<m>>
  OBVIOUS
<1>2. \A m : Tail(<<m>>) = <<>>
  OBVIOUS
<1>3. \A m : Len(<<m>>) = 1
  OBVIOUS
<1>4. \A m : <<m>> # <<>>
  OBVIOUS
<1>5. \A m, i : i \in 0 .. 1 => SubSeq(<<m>>, 1, i) \in {<<>>, <<m>>}
  <2> SUFFICES ASSUME NEW m, NEW i \in 0 .. 1
               PROVE  SubSeq(<<m>>, 1, i) \in {<<>>, <<m>>}
    OBVIOUS
  <2>1. SubSeq(<<m>>, 1, 0) = <<>>
    OBVIOUS
  <2>2. SubSeq(<<m>>, 1, 1) = <<m>>
    <3>1. <<m>> \in Seq({m}) /\ Len(<<m>>) = 1
      OBVIOUS
    <3> QED  BY <3>1, SubSeqFull
  <2> QED  BY <2>1, <2>2
<1>6. \A i \in 0 .. 0 : SubSeq(<<>>, 1, i) = <<>>
  OBVIOUS
<1> QED  BY <1>1, <1>2, <1>3, <1>4, <1>5, <1>6

(* Every case of the server's dispatch sends one answer, or none is        *)
(* defined: there is no case that answers twice.                           *)
LEMMA OneAnswer ==
    ASSUME NEW m, toClient = <<>>,
           \/ DoCreate(m)    \/ DoReset(m)      \/ DoFillData(m) \/ DoBulkLoad(m)
           \/ DoReadPath(m)  \/ DoReadMulti(m)  \/ DoWrite(m)    \/ DoBadId(m)
           \/ DoBatchRead(m) \/ DoBatchWrite(m) \/ DoDestroy(m)  \/ DoSetupBench(m)
    PROVE  \E r : toClient' = <<r>>
<1>1. SUFFICES \E r : Send(r)
  BY OneMessage DEF Send
<1>2. CASE DoCreate(m)
  BY <1>2 DEF DoCreate, SendOk
<1>3. CASE \/ DoReset(m) \/ DoFillData(m) \/ DoBulkLoad(m) \/ DoReadPath(m)
           \/ DoReadMulti(m) \/ DoWrite(m)
  BY <1>3 DEF DoReset, DoFillData, DoBulkLoad, DoReadPath, DoReadMulti, DoWrite,
              OnStore, SendOk
<1>4. CASE DoBadId(m) \/ DoBatchRead(m) \/ DoBatchWrite(m)
  BY <1>4 DEF DoBadId, DoBatchRead, DoBatchWrite, SendOk, SendErr
<1>5. CASE DoDestroy(m) \/ DoSetupBench(m)
  BY <1>5 DEF DoDestroy, DoSetupBench, SendOk
<1> QED  BY <1>2, <1>3, <1>4, <1>5

(* A request goes out only when nothing is under way, so the client's      *)
(* calls keep the lockstep.                                                *)
LEMMA RequestInLockstep ==
    ASSUME CallsAreCalls, Lockstep, NEW op, NEW hs, NEW arg, Request(op, hs, arg)
    PROVE  Lockstep'
<1>1. toServer = <<>> /\ toClient = <<>> /\ toClient' = <<>> /\ call' # NoCall
  BY DEF Lockstep, Request, CallsAreCalls
<1>2. toServer' = <<>> \/ (Connected' /\ \E m : toServer' = <<m>>)
  BY <1>1, OneMessage DEF Request, Connected
<1> QED  BY <1>1, <1>2 DEF Lockstep

(* What the steps of the client's callers do to the channel. *)
LEMMA CallsInLockstep ==
    ASSUME CallsAreCalls, Lockstep, ClientCall
    PROVE  Lockstep'
<1>1. CASE \E op, hs, arg : Request(op, hs, arg)
  BY <1>1, RequestInLockstep
<1>2. CASE UNCHANGED <<call, netVars>>
  BY <1>2 DEF Lockstep, netVars, Connected
<1>3. ASSUME NEW h \in Handles, Destruct(h)
      PROVE  (\E op, hs, arg : Request(op, hs, arg)) \/ UNCHANGED <<call, netVars>>
  BY <1>3 DEF Destruct
<1> QED
  BY <1>1, <1>2, <1>3
  DEF ClientCall, Construct, Reset, FillData, BulkLoad, ReadPath, WritePath, ReadMulti,
      WriteMulti, BatchRead, BatchWrite, SetupBench

(* Each step keeps the lockstep when no receive can time out. *)
LEMMA LockstepStep ==
    ASSUME CallsAreCalls, timed \/ Lockstep, [Next]_vars
    PROVE  (timed \/ Lockstep)'
<1>0. timed' = timed
  BY DEF Next, vars, ClientCall, Construct, Reset, FillData, BulkLoad, ReadPath, WritePath,
         ReadMulti, WriteMulti, BatchRead, BatchWrite, SetupBench, Destruct, Request, Close,
         Receive, Misparse, Disconnected, Timeout, Lose, Dispatch, netVars
<1> SUFFICES ASSUME ~timed, Lockstep PROVE Lockstep'
  BY <1>0
<1>1. CASE ClientCall
  BY <1>1, CallsInLockstep
<1>2. CASE Close
  BY <1>2 DEF Close, HangUp, Lockstep
<1>3. CASE Receive
  BY <1>3, OneMessage DEF Receive, Lockstep, Connected
<1>4. CASE Misparse
  BY <1>4, OneMessage DEF Misparse, HangUp, Lockstep, Connected
<1>5. CASE Disconnected
  BY <1>5 DEF Disconnected, Lockstep, netVars, Connected
<1>6. CASE Timeout
  BY <1>6 DEF Timeout
<1>7. CASE Lose
  <2>1. PICK i \in 0 .. Len(toClient) : toClient' = SubSeq(toClient, 1, i)
    BY <1>7 DEF Lose
  <2>2. toServer' = <<>> /\ call' = call
    BY <1>7 DEF Lose, HangUp, clientVars
  <2>3. CASE toClient = <<>>
    BY <2>1, <2>2, <2>3, OneMessage DEF Lockstep
  <2>4. ASSUME NEW r, toClient = <<r>> PROVE Lockstep'
    BY <2>1, <2>2, <2>4, OneMessage DEF Lockstep
  <2> QED  BY <2>3, <2>4 DEF Lockstep
<1>8. CASE Dispatch
  <2>1. toClient = <<>> /\ call # NoCall /\ \E m : toServer = <<m>>
    BY <1>8 DEF Dispatch, Lockstep
  <2>2. \E r : toClient' = <<r>>
    BY <1>8, <2>1, OneAnswer DEF Dispatch
  <2>3. toServer' = <<>> /\ call' = call
    BY <1>8, <2>1, OneMessage DEF Dispatch, clientVars
  <2> QED  BY <2>1, <2>2, <2>3 DEF Lockstep
<1>9. CASE UNCHANGED vars
  BY <1>9 DEF vars, Lockstep, Connected
<1> QED
  BY <1>1, <1>2, <1>3, <1>4, <1>5, <1>6, <1>7, <1>8, <1>9 DEF Next

(* Without a receive timeout every caller of TcpChannel::request gets the  *)
(* answer to its own request, whatever is called, created and destroyed,   *)
(* and wherever the connection breaks.                                     *)
THEOREM AnswersAreOwn ==
    ASSUME CallsAreCalls
    PROVE  Spec => []AnswersInStep
<1>1. Init => timed \/ Lockstep
  BY DEF Init, Lockstep
<1>2. (timed \/ Lockstep) /\ [Next]_vars => (timed \/ Lockstep)'
  BY LockstepStep
<1>3. timed \/ Lockstep => AnswersInStep
  BY OneMessage DEF Lockstep, AnswerIsOwn, AnswersInStep
<1> QED  BY <1>1, <1>2, <1>3, PTL DEF Spec

-----------------------------------------------------------------------------
(* Objects and stores.  While an answer is under way the server is ahead   *)
(* of the client: the stores belong to the objects as they will be when    *)
(* the answer has been taken.                                              *)
IsTree(t)   == t = [level |-> t.level, bucket_size |-> t.bucket_size, nodes |-> t.nodes]
IsHandle(o) == o = [id |-> o.id, level |-> o.level, bucket_size |-> o.bucket_size]

(* An object is never taken for no object. *)
HandlesAreHandles ==
    \A i, l, b : [id |-> i, level |-> l, bucket_size |-> b] # NoHandle

(* The objects hd and the stores st belong together, one to one. *)
Backs(o, st) ==
    /\ IsHandle(o) /\ o.id \in DOMAIN st
    /\ st[o.id].level = o.level /\ st[o.id].bucket_size = o.bucket_size
Paired(hd, st) ==
    /\ DOMAIN hd = Handles
    /\ \A h \in Handles : hd[h] # NoHandle => Backs(hd[h], st)
    /\ \A g, h \in Handles :
          hd[g] # NoHandle /\ hd[h] # NoHandle /\ g # h => hd[g].id # hd[h].id
    /\ \A i \in DOMAIN st : \E h \in Handles : hd[h] # NoHandle /\ hd[h].id = i

(* The ids given out since the last set-up are the ones below next_id. *)
Numbered ==
    /\ next_id \in Nat
    /\ \A i \in DOMAIN stores : i \in Nat /\ i < next_id /\ IsTree(stores[i])

(* The calls a client makes, on the objects it has. *)
OneStoreOps == {"RESET", "FILL_DATA", "BULK_LOAD", "READ_PATH", "WRITE_PATH",
                "READ_MULTI", "WRITE_MULTI", "DESTROY"}
Legal(c) ==
    \/ c.op = "CREATE" /\ \E h \in Handles : h \notin Live /\ c.hs = <<h>>
    \/ /\ c.op = "SETUP_BENCH" /\ Live = {}
       /\ \E k \in 1 .. Cardinality(Handles) :
             c.hs = SubSeq(HandleSeq, 1, k) /\ DOMAIN c.arg = 1 .. k /\ Len(c.arg) = k
    \/ c.op \in OneStoreOps /\ \E h \in Live : c.hs = <<h>>
    \/ /\ c.op \in {"BATCH_READ", "BATCH_WRITE"}
       /\ \E g, h \in Live \cup {LocalStore} : c.hs = <<g, h>>

MessageOf(c) ==
    [op |-> c.op, arg |-> c.arg,
     ids |-> IF c.op \in {"CREATE", "SETUP_BENCH"} THEN <<>>
             ELSE [i \in DOMAIN c.hs |-> IdOf(c.hs[i])]]

(* The answers call c may get: of the layout it parses; a destructor is    *)
(* never refused.                                                          *)
Fits(c, r) ==
    \/ r = ErrAnswer /\ c.op # "DESTROY"
    \/ /\ r.type = "OK" /\ FmtOf(c.op) \in {"void", r.fmt}
       /\ FmtOf(c.op) = "void" => r.val = Void

After(c, r) == IF r.type = "ERROR" THEN handle ELSE Remember(c, r)
HandleNow   == IF call # NoCall /\ toClient # <<>> THEN After(call, Head(toClient)) ELSE handle

(* The inductive invariant. *)
InStep ==
    /\ Lockstep
    /\ call # NoCall => Legal(call)
    /\ toServer # <<>> => toServer = <<MessageOf(call)>>
    /\ toClient # <<>> => Fits(call, Head(toClient))
    /\ Connected => Numbered /\ Paired(HandleNow, stores)

(* The operations that change a store keep its level and bucket size. *)
SameShape(t, u) == IsTree(u) /\ u.level = t.level /\ u.bucket_size = t.bucket_size

(* fill_data_to_leaf, bulk_load and the writes do not resize a store. *)
LEMMA ShapesKept ==
    ASSUME NEW t, IsTree(t)
    PROVE  /\ \A b : SameShape(t, Fill(t, b))
           /\ \A bs : SameShape(t, Load(t, bs))
           /\ \A d : SameShape(t, WriteNodes(t, d))
           /\ SameShape(t, t)
<1>1. \A x : SameShape(t, [t EXCEPT !.nodes = x])
  BY DEF IsTree, SameShape
<1>2. \A b : SameShape(t, Fill(t, b))
  BY <1>1 DEF Fill
<1>3. \A bs : SameShape(t, Load(t, bs))
  BY <1>1 DEF Load
<1>4. \A d : SameShape(t, WriteNodes(t, d))
  BY <1>1 DEF WriteNodes
<1> QED  BY <1>2, <1>3, <1>4 DEF SameShape

(* A new store has the size that was asked for. *)
LEMMA NewShape ==
    \A s : /\ IsTree(NewTree(s)) /\ NewTree(s).bucket_size = s.bucket_size
           /\ NewTree(s).level = LevelFor(s.num_data)
BY DEF NewTree, IsTree

(* Stores that keep their names and shapes stay paired. *)
LEMMA PairedKept ==
    ASSUME NEW hd, NEW st, NEW su, Paired(hd, st), DOMAIN su = DOMAIN st,
           \A i \in DOMAIN st : SameShape(st[i], su[i])
    PROVE  Paired(hd, su)
BY DEF Paired, Backs, SameShape

(* A request goes out with the ids of the client's objects. *)
LEMMA RequestInStep ==
    ASSUME CallsAreCalls, InStep, NEW op, NEW hs, NEW arg, Request(op, hs, arg),
           Legal([op |-> op, hs |-> hs, arg |-> arg])
    PROVE  InStep'
<1> DEFINE c == [op |-> op, hs |-> hs, arg |-> arg]
<1>1. toServer = <<>> /\ toClient = <<>> /\ toClient' = <<>> /\ call = NoCall
      /\ call' = c /\ c # NoCall
  BY DEF InStep, Lockstep, Request, CallsAreCalls
<1>2. handle' = handle /\ stores' = stores /\ next_id' = next_id /\ (Connected' <=> Connected)
  BY DEF Request, serverVars, Connected
<1>3. toServer' = <<>> \/ toServer' = <<MessageOf(c)>>
  <2>1. toServer' = <<>> \/ toServer' = Append(<<>>, MessageOf(c))
    BY <1>1 DEF Request, MessageOf
  <2> QED  BY <2>1, OneMessage
<1>4. Lockstep'
  BY RequestInLockstep DEF InStep
<1>5. (MessageOf(call) = MessageOf(c))' /\ MessageOf(c)' = MessageOf(c) /\ Legal(call)'
  BY <1>1, <1>2 DEF MessageOf, IdOf, Legal, Live
<1>6. HandleNow = handle /\ HandleNow' = handle
  BY <1>1, <1>2 DEF HandleNow
<1>7. Connected' => Numbered' /\ Paired(HandleNow', stores')
  BY <1>2, <1>6 DEF InStep, Numbered
<1> QED  BY <1>1, <1>3, <1>4, <1>5, <1>7 DEF InStep

(* What a caller asks for, it asks of objects it has. *)
LEMMA CallsAreLegal ==
    ASSUME ClientCall
    PROVE  \/ \E op, hs, arg : /\ Request(op, hs, arg)
                               /\ Legal([op |-> op, hs |-> hs, arg |-> arg])
           \/ (~fdOpen /\ call = NoCall /\ UNCHANGED <<call, ret, netVars, serverVars>>)
<1> DEFINE Quiet == ~fdOpen /\ call = NoCall /\ UNCHANGED <<call, ret, netVars, serverVars>>
           Asked == \E op, hs, arg : /\ Request(op, hs, arg)
                                     /\ Legal([op |-> op, hs |-> hs, arg |-> arg])
<1>1. ASSUME NEW h \in Handles, NEW s, Construct(h, s) \/ Reset(h, s)  PROVE Asked
  BY <1>1 DEF Construct, Reset, Legal, Live, OneStoreOps
<1>2. ASSUME NEW h \in Handles, NEW x, FillData(h, x) \/ BulkLoad(h, x) \/ ReadPath(h, x)
      PROVE Asked
  BY <1>2 DEF FillData, BulkLoad, ReadPath, Legal, Live, OneStoreOps
<1>3. ASSUME NEW h \in Handles, WritePath(h) \/ ReadMulti(h) \/ WriteMulti(h) PROVE Asked
  BY <1>3 DEF WritePath, ReadMulti, WriteMulti, Legal, Live, OneStoreOps
<1>4. ASSUME NEW h \in Handles, Destruct(h)
      PROVE  Asked \/ Quiet
  BY <1>4 DEF Destruct, Legal, Live, OneStoreOps
<1>5. ASSUME NEW g \in Handles \cup {LocalStore}, NEW h \in Handles \cup {LocalStore},
             BatchRead(g, h) \/ BatchWrite(g, h)
      PROVE  Asked
  BY <1>5 DEF BatchRead, BatchWrite, Legal, Live
<1>6. ASSUME SetupBench PROVE Asked
  <2>1. PICK k \in 1 .. Cardinality(Handles) : \E ss \in [1 .. k -> Shapes[timed]] :
          Request("SETUP_BENCH", SubSeq(HandleSeq, 1, k), ss)
    BY <1>6 DEF SetupBench
  <2>2. PICK ss \in [1 .. k -> Shapes[timed]] : Request("SETUP_BENCH", SubSeq(HandleSeq, 1, k), ss)
    BY <2>1
  <2>3. DOMAIN ss = 1 .. k /\ k \in Nat
    BY <2>2, FS_CardinalityType, NetAssumption
  <2>4. Len(ss) = k
    BY <2>3, LenProperties
  <2>5. Legal([op |-> "SETUP_BENCH", hs |-> SubSeq(HandleSeq, 1, k), arg |-> ss])
    BY <1>6, <2>3, <2>4 DEF SetupBench, Legal
  <2> QED  BY <2>2, <2>5
<1>7. (Asked \/ Quiet) <=> (\/ \E op, hs, arg : /\ Request(op, hs, arg)
                               /\ Legal([op |-> op, hs |-> hs, arg |-> arg])
           \/ (~fdOpen /\ call = NoCall /\ UNCHANGED <<call, ret, netVars, serverVars>>))
  OBVIOUS
<1> HIDE DEF Asked, Quiet
<1>8. Asked \/ Quiet
  BY <1>1, <1>2, <1>3, <1>4, <1>5, <1>6 DEF ClientCall
<1> QED  BY <1>7, <1>8

(* Whatever the callers do keeps the objects and stores in step. *)
LEMMA CallsInStep ==
    ASSUME CallsAreCalls, InStep, ClientCall
    PROVE  InStep'
<1>1. CASE \E op, hs, arg : /\ Request(op, hs, arg)
                            /\ Legal([op |-> op, hs |-> hs, arg |-> arg])
  BY <1>1, RequestInStep
<1>2. CASE ~fdOpen /\ call = NoCall /\ UNCHANGED <<call, ret, netVars, serverVars>>
  <2>1. toServer = <<>> /\ toClient = <<>> /\ toServer' = <<>> /\ toClient' = <<>>
    BY <1>2 DEF InStep, Lockstep, netVars
  <2>2. ~Connected' /\ call' = NoCall
    BY <1>2 DEF Connected, netVars
  <2> QED  BY <2>1, <2>2 DEF InStep, Lockstep
<1> QED  BY <1>1, <1>2, CallsAreLegal

(* What the server finds when it takes a request m. *)
Served(m) ==
    /\ Legal(call) /\ m = MessageOf(call) /\ toClient = <<>>
    /\ Numbered /\ Paired(handle, stores)

(* What it leaves: an answer that fits, and stores that are those of the   *)
(* objects once the answer has been taken.                                 *)
Serves == \E r : Send(r) /\ Fits(call, r) /\ Numbered' /\ Paired(After(call, r), stores')

(* A request about one object names its store. *)
LEMMA NamesStore ==
    ASSUME NEW m, Served(m), call.op \in OneStoreOps
    PROVE  \E h \in Handles :
              /\ handle[h] # NoHandle /\ call.hs = <<h>> /\ Backs(handle[h], stores)
              /\ m.op = call.op /\ m.arg = call.arg /\ m.ids[1] = handle[h].id
              /\ IsTree(stores[m.ids[1]])
<1>1. PICK h \in Live : call.hs = <<h>>
  BY DEF Served, Legal, OneStoreOps
<1>2. h \in Handles /\ handle[h] # NoHandle /\ Backs(handle[h], stores) /\ h # LocalStore
  BY NetAssumption DEF Live, Served, Paired
<1>3. m.op = call.op /\ m.arg = call.arg /\ m.ids = [i \in DOMAIN call.hs |-> IdOf(call.hs[i])]
  BY DEF Served, MessageOf, OneStoreOps
<1>4. m.ids[1] = handle[h].id
  BY <1>1, <1>2, <1>3 DEF IdOf
<1> QED  BY <1>1, <1>2, <1>3, <1>4 DEF Backs, Served, Numbered

(* When the stores keep their names and shapes and the client's objects do *)
(* not change, everything stays in step.                                   *)
LEMMA ServesSame ==
    ASSUME NEW m, Served(m), NEW r, Send(r), Fits(call, r), After(call, r) = handle,
           next_id' = next_id, DOMAIN stores' = DOMAIN stores,
           \A i \in DOMAIN stores : SameShape(stores[i], stores'[i])
    PROVE  Serves
<1>1. Paired(handle, stores')
  BY PairedKept DEF Served
<1>2. Numbered'
  BY DEF Served, Numbered, SameShape
<1> QED  BY <1>1, <1>2 DEF Serves

(* The requests that change the content of one store. *)
LEMMA ContentServed ==
    ASSUME NEW m, Served(m),
           \/ DoFillData(m) \/ DoBulkLoad(m) \/ DoReadPath(m) \/ DoReadMulti(m) \/ DoWrite(m)
    PROVE  Serves
<1>0. m.op = call.op
  BY DEF Served, MessageOf
<1> DEFINE id == m.ids[1]
<1>1. call.op \in OneStoreOps \ {"RESET", "DESTROY"}
  BY <1>0 DEF DoFillData, DoBulkLoad, DoReadPath, DoReadMulti, DoWrite, OneStoreOps
<1>2. IsTree(stores[id]) /\ id \in DOMAIN stores
  BY <1>1, NamesStore DEF Backs
<1>3. \E t, val : OnStore(m, t, FmtOf(call.op), val) /\ SameShape(stores[id], t)
                  /\ (FmtOf(call.op) = "void" => val = Void)
  <2>1. CASE DoFillData(m)
    BY <1>0, <1>2, <2>1, ShapesKept DEF DoFillData, FmtOf
  <2>2. CASE DoBulkLoad(m)
    BY <1>0, <1>2, <2>2, ShapesKept DEF DoBulkLoad, FmtOf
  <2>3. CASE DoReadPath(m) \/ DoReadMulti(m)
    BY <1>0, <1>2, <2>3, ShapesKept DEF DoReadPath, DoReadMulti, FmtOf
  <2>4. CASE DoWrite(m)
    BY <1>0, <1>2, <2>4, ShapesKept DEF DoWrite, FmtOf
  <2> QED  BY <2>1, <2>2, <2>3, <2>4
<1>4. PICK t, val : OnStore(m, t, FmtOf(call.op), val) /\ SameShape(stores[id], t)
                    /\ (FmtOf(call.op) = "void" => val = Void)
  BY <1>3
<1> DEFINE r == OkAnswer(FmtOf(call.op), val, <<>>)
<1>5. Send(r) /\ Fits(call, r)
  BY <1>4 DEF OnStore, SendOk, Fits, OkAnswer
<1>6. After(call, r) = handle
  BY <1>1 DEF After, Remember, OkAnswer, OneStoreOps
<1>7. /\ next_id' = next_id /\ DOMAIN stores' = DOMAIN stores
      /\ \A i \in DOMAIN stores : SameShape(stores[i], stores'[i])
  BY <1>2, <1>4, ShapesKept DEF OnStore, Served, Numbered
<1> QED  BY <1>5, <1>6, <1>7, ServesSame

(* A reset gives the store its new size; the object learns the size from   *)
(* the answer.                                                             *)
LEMMA ResetServed ==
    ASSUME HandlesAreHandles, NEW m, Served(m), DoReset(m)
    PROVE  Serves
<1>1. call.op = "RESET"
  BY DEF Served, MessageOf, DoReset
<1>2. PICK h \in Handles :
          /\ handle[h] # NoHandle /\ call.hs = <<h>> /\ Backs(handle[h], stores)
          /\ m.op = call.op /\ m.arg = call.arg /\ m.ids[1] = handle[h].id
  BY <1>1, NamesStore DEF OneStoreOps
<1> DEFINE t == NewTree(m.arg)
           r == OkAnswer("geometry", Geometry(t), <<>>)
           hd == After(call, r)
<1>3. Send(r) /\ Fits(call, r)
  BY <1>1 DEF DoReset, OnStore, SendOk, Fits, OkAnswer, FmtOf
<1>4. hd = [handle EXCEPT ![h].level = t.level, ![h].bucket_size = m.arg.bucket_size]
  BY <1>1, <1>2 DEF After, Remember, OkAnswer, Geometry
<1>5. IsTree(t) /\ t.bucket_size = m.arg.bucket_size
  BY NewShape
<1>6. stores' = [stores EXCEPT ![handle[h].id] = t] /\ next_id' = next_id
  BY <1>2 DEF DoReset, OnStore
<1> HIDE DEF t
<1>7. DOMAIN handle = Handles
  BY DEF Served, Paired
<1>8. /\ DOMAIN hd = Handles /\ \A g \in Handles : g # h => hd[g] = handle[g]
      /\ hd[h] = [id |-> handle[h].id, level |-> t.level, bucket_size |-> t.bucket_size]
  BY <1>2, <1>4, <1>5, <1>7 DEF Backs, IsHandle
<1> HIDE DEF hd
<1>9. hd[h] # NoHandle /\ hd[h].id = handle[h].id /\ Backs(hd[h], stores')
  BY <1>2, <1>6, <1>8 DEF Backs, IsHandle, HandlesAreHandles
<1>10. ASSUME NEW g \in Handles, g # h, hd[g] # NoHandle PROVE Backs(hd[g], stores')
  BY <1>2, <1>6, <1>8, <1>10 DEF Backs, Served, Paired
<1>11. DOMAIN stores' = DOMAIN stores
  BY <1>6
<1>12. \A g \in Handles : /\ hd[g] # NoHandle <=> handle[g] # NoHandle
                          /\ hd[g].id = handle[g].id
  BY <1>2, <1>8, <1>9
<1>13. Paired(hd, stores')
  BY <1>8, <1>9, <1>10, <1>11, <1>12 DEF Paired, Served
<1>14. Numbered'
  BY <1>5, <1>6 DEF Served, Numbered
<1> QED  BY <1>3, <1>13, <1>14 DEF Serves, hd

(* An object that is constructed gets the next id, which no store has.     *)
LEMMA CreateServed ==
    ASSUME HandlesAreHandles, NEW m, Served(m), DoCreate(m)
    PROVE  Serves
<1>1. call.op = "CREATE" /\ m.arg = call.arg
  BY DEF Served, MessageOf, DoCreate
<1>2. PICK h \in Handles : h \notin Live /\ call.hs = <<h>>
  BY <1>1 DEF Served, Legal, OneStoreOps
<1> DEFINE t == NewTree(m.arg)
           r == OkAnswer("store", <<Geometry(t)>>, <<next_id>>)
           hd == After(call, r)
           o == [id |-> next_id, level |-> t.level, bucket_size |-> t.bucket_size]
<1>3. Send(r) /\ Fits(call, r)
  BY <1>1 DEF DoCreate, SendOk, Fits, OkAnswer, FmtOf
<1>4. IsTree(t) /\ t.bucket_size = m.arg.bucket_size
  BY NewShape
<1>5. hd = [handle EXCEPT ![h] = o]
  BY <1>1, <1>2, <1>4 DEF After, Remember, OkAnswer, Geometry
<1>6. /\ stores' = [i \in DOMAIN stores \cup {next_id} |-> IF i = next_id THEN t ELSE stores[i]]
      /\ next_id' = next_id + 1
  BY DEF DoCreate
<1> HIDE DEF t
<1>7. DOMAIN handle = Handles /\ handle[h] = NoHandle /\ next_id \in Nat /\ next_id \notin DOMAIN stores
  BY <1>2 DEF Served, Paired, Live, Numbered
<1>8. DOMAIN hd = Handles /\ hd[h] = o /\ \A g \in Handles : g # h => hd[g] = handle[g]
  BY <1>5, <1>7
<1> HIDE DEF hd
<1>9. hd[h] # NoHandle /\ hd[h].id = next_id /\ Backs(hd[h], stores')
  BY <1>6, <1>8 DEF Backs, IsHandle, HandlesAreHandles
<1>10. ASSUME NEW g \in Handles, g # h, hd[g] # NoHandle
       PROVE  Backs(hd[g], stores') /\ hd[g].id # next_id
  BY <1>6, <1>7, <1>8, <1>10 DEF Backs, Served, Paired
<1>11. \A g, k \in Handles : hd[g] # NoHandle /\ hd[k] # NoHandle /\ g # k => hd[g].id # hd[k].id
  BY <1>8, <1>9, <1>10 DEF Paired, Served
<1>12. \A i \in DOMAIN stores' : \E g \in Handles : hd[g] # NoHandle /\ hd[g].id = i
  <2> SUFFICES ASSUME NEW i \in DOMAIN stores'
               PROVE  \E g \in Handles : hd[g] # NoHandle /\ hd[g].id = i
    OBVIOUS
  <2>1. CASE i = next_id
    BY <1>9, <2>1
  <2>2. CASE i \in DOMAIN stores
    BY <1>7, <1>8, <2>2 DEF Paired, Served
  <2> QED  BY <1>6, <2>1, <2>2
<1>13. Paired(hd, stores')
  BY <1>8, <1>9, <1>10, <1>11, <1>12 DEF Paired
<1>14. Numbered'
  BY <1>4, <1>6, <1>7 DEF Served, Numbered
<1> QED  BY <1>3, <1>13, <1>14 DEF Serves, hd

(* A destroyed object takes its store with it.                             *)
LEMMA DestroyServed ==
    ASSUME NEW m, Served(m), DoDestroy(m)
    PROVE  Serves
<1>1. call.op = "DESTROY"
  BY DEF Served, MessageOf, DoDestroy
<1>2. PICK h \in Handles :
          /\ handle[h] # NoHandle /\ call.hs = <<h>> /\ Backs(handle[h], stores)
          /\ m.op = call.op /\ m.arg = call.arg /\ m.ids[1] = handle[h].id
  BY <1>1, NamesStore DEF OneStoreOps
<1> DEFINE r == OkAnswer("void", Void, <<>>)
           hd == After(call, r)
<1>3. Send(r) /\ Fits(call, r)
  BY <1>1 DEF DoDestroy, SendOk, Fits, OkAnswer, FmtOf
<1>4. hd = [handle EXCEPT ![h] = NoHandle]
  BY <1>1, <1>2 DEF After, Remember, OkAnswer
<1>5. stores' = [i \in DOMAIN stores \ {handle[h].id} |-> stores[i]] /\ next_id' = next_id
  BY <1>2 DEF DoDestroy
<1>6. DOMAIN hd = Handles /\ hd[h] = NoHandle /\ \A g \in Handles : g # h => hd[g] = handle[g]
  BY <1>4 DEF Served, Paired
<1> HIDE DEF hd
<1>7. Paired(hd, stores')
  BY <1>2, <1>5, <1>6 DEF Paired, Backs, Served
<1>8. Numbered'
  BY <1>5 DEF Served, Numbered
<1> QED  BY <1>3, <1>7, <1>8 DEF Serves, hd

(* Refused requests and batches of reads change nothing. *)
LEMMA ReadsServed ==
    ASSUME NEW m, Served(m), DoBadId(m) \/ DoBatchRead(m)
    PROVE  Serves
<1>0. m.op = call.op
  BY DEF Served, MessageOf
<1>1. call.op \in (OneStoreOps \cup {"BATCH_READ"}) \ {"RESET", "DESTROY"} \/ DoBadId(m)
  BY <1>0 DEF DoBatchRead
<1>2. next_id' = next_id /\ DOMAIN stores' = DOMAIN stores
      /\ \A i \in DOMAIN stores : SameShape(stores[i], stores'[i])
  BY ShapesKept DEF DoBadId, DoBatchRead, Served, Numbered
<1>3. CASE Send(ErrAnswer) /\ call.op # "DESTROY"
  <2>1. Fits(call, ErrAnswer) /\ After(call, ErrAnswer) = handle
    BY <1>3 DEF Fits, After, ErrAnswer
  <2> QED  BY <1>2, <1>3, <2>1, ServesSame
<1>4. ASSUME NEW val, Send(OkAnswer("paths", val, <<>>)), call.op = "BATCH_READ"
      PROVE  Serves
  <2> DEFINE r == OkAnswer("paths", val, <<>>)
  <2>1. Fits(call, r) /\ After(call, r) = handle
    BY <1>4 DEF Fits, After, Remember, OkAnswer, FmtOf
  <2> QED  BY <1>2, <1>4, <2>1, ServesSame
<1>5. CASE DoBadId(m)
  BY <1>0, <1>3, <1>5 DEF DoBadId, SendErr
<1>6. CASE DoBatchRead(m)
  BY <1>0, <1>3, <1>4, <1>6 DEF DoBatchRead, SendErr, SendOk
<1> QED  BY <1>5, <1>6

(* A round of the write loop keeps the names and shapes of the stores. *)
LEMMA WriteOneKeeps ==
    ASSUME NEW m, NEW acc, NEW i, Numbered, DOMAIN acc.st = DOMAIN stores,
           \A j \in DOMAIN stores : SameShape(stores[j], acc.st[j])
    PROVE  LET nxt == WriteOne(m, acc, i).st
           IN  /\ DOMAIN nxt = DOMAIN stores
               /\ \A j \in DOMAIN stores : SameShape(stores[j], nxt[j])
<1> DEFINE id == m.ids[i]
<1>1. CASE acc.ok /\ id \in DOMAIN stores
  <2>1. WriteOne(m, acc, i).st = [acc.st EXCEPT ![id] = WriteNodes(acc.st[id], m.arg[i])]
    BY <1>1 DEF WriteOne
  <2>2. IsTree(acc.st[id]) /\ SameShape(stores[id], acc.st[id])
    BY <1>1 DEF SameShape
  <2>3. SameShape(stores[id], WriteNodes(acc.st[id], m.arg[i]))
    BY <2>2, ShapesKept DEF SameShape
  <2> QED  BY <2>1, <2>3
<1>2. CASE ~(acc.ok /\ id \in DOMAIN stores)
  BY <1>2 DEF WriteOne
<1> QED  BY <1>1, <1>2

(* A batch of writes, also one that ends at a bad id. *)
LEMMA BatchWriteServed ==
    ASSUME NEW m, Served(m), DoBatchWrite(m)
    PROVE  Serves
<1>0. call.op = "BATCH_WRITE"
  BY DEF Served, MessageOf, DoBatchWrite
<1> DEFINE a0 == [ok |-> TRUE, st |-> stores]
           a1 == WriteOne(m, a0, 1)
           a2 == WriteOne(m, a1, 2)
           Keeps(a) == /\ DOMAIN a.st = DOMAIN stores
                       /\ \A j \in DOMAIN stores : SameShape(stores[j], a.st[j])
<1>1. Keeps(a0)
  BY ShapesKept DEF Served, Numbered
<1> HIDE DEF a0
<1>2. Keeps(a1)
  BY <1>1, WriteOneKeeps DEF Served
<1> HIDE DEF a1
<1>3. Keeps(a2)
  BY <1>2, WriteOneKeeps DEF Served
<1>4. a2 = WriteLoop(m)
  BY DEF WriteLoop, a0, a1
<1> HIDE DEF a2
<1>5. next_id' = next_id /\ Keeps([st |-> stores'])
  BY <1>3, <1>4 DEF DoBatchWrite
<1>6. CASE Send(ErrAnswer)
  <2>1. Fits(call, ErrAnswer) /\ After(call, ErrAnswer) = handle
    BY <1>0 DEF Fits, After, ErrAnswer
  <2> QED  BY <1>5, <1>6, <2>1, ServesSame
<1>7. CASE Send(OkAnswer("void", Void, <<>>))
  <2> DEFINE r == OkAnswer("void", Void, <<>>)
  <2>1. Fits(call, r) /\ After(call, r) = handle
    BY <1>0 DEF Fits, After, Remember, OkAnswer, FmtOf
  <2> QED  BY <1>5, <1>7, <2>1, ServesSame
<1> QED  BY <1>6, <1>7 DEF DoBatchWrite, SendOk, SendErr

(* The objects of a restored map have an order. *)
LEMMA HandlesInOrder ==
    /\ HandleSeq \in [1 .. Cardinality(Handles) -> Handles]
    /\ \A i, j \in 1 .. Cardinality(Handles) : HandleSeq[i] = HandleSeq[j] => i = j
<1> DEFINE n == Cardinality(Handles)
<1>1. n \in Nat /\ ExistsBijection(1 .. n, Handles)
  BY FS_CardinalityType, NetAssumption
<1>2. PICK f \in [1 .. n -> Handles] : \A i, j \in DOMAIN f : f[i] = f[j] => i = j
  BY <1>1 DEF ExistsBijection, Bijection, Injection, IsInjective
<1>3. HandleSeq \in [1 .. n -> Handles]
      /\ \A i, j \in DOMAIN HandleSeq : HandleSeq[i] = HandleSeq[j] => i = j
  BY <1>2 DEF HandleSeq
<1> QED  BY <1>3

(* A set-up replaces all stores, and gives out the ids from 0 again; the   *)
(* restored objects are the ones its answer names.                         *)
LEMMA SetupServed ==
    ASSUME HandlesAreHandles, NEW m, Served(m), DoSetupBench(m)
    PROVE  Serves
<1>1. call.op = "SETUP_BENCH" /\ m.arg = call.arg
  BY DEF Served, MessageOf, DoSetupBench
<1>2. PICK k \in 1 .. Cardinality(Handles) : DOMAIN m.arg = 1 .. k /\ Len(m.arg) = k
  BY <1>1 DEF Served, Legal, OneStoreOps
<1>3. Cardinality(Handles) \in Nat
  BY FS_CardinalityType, NetAssumption
<1> DEFINE T(i)  == NewTree(m.arg[i])
           val   == [i \in 1 .. k |-> Append(Geometry(T(i)), m.arg[i].bucket_size)]
           r     == OkAnswer("blob", val, [i \in 1 .. k |-> i - 1])
           hd    == After(call, r)
           At(h) == CHOOSE j \in 1 .. k : HandleSeq[j] = h
           o(i)  == [id |-> i - 1, level |-> T(i).level, bucket_size |-> m.arg[i].bucket_size]
           Restored == {HandleSeq[i] : i \in 1 .. k}
<1>4. Send(r) /\ Fits(call, r)
  BY <1>1, <1>2 DEF DoSetupBench, SendOk, Fits, OkAnswer, FmtOf
<1>5. \A i \in 1 .. k : val[i][1] = T(i).level /\ val[i][3] = m.arg[i].bucket_size
  BY DEF Geometry
<1>6. hd = [h \in Handles |-> IF h \notin Restored THEN NoHandle
                              ELSE [id |-> r.ids[At(h)], level |-> val[At(h)][1],
                                    bucket_size |-> val[At(h)][3]]]
  BY <1>1 DEF After, Remember, OkAnswer
<1>7. \A h \in Restored : At(h) \in 1 .. k /\ HandleSeq[At(h)] = h
  OBVIOUS
<1>8. \A i \in 1 .. k : r.ids[i] = i - 1
  BY DEF OkAnswer
<1> HIDE DEF At, val, T, r, hd, Restored
<1>9. /\ DOMAIN hd = Handles
      /\ \A h \in Handles : hd[h] = IF h \in Restored THEN o(At(h)) ELSE NoHandle
  BY <1>5, <1>6, <1>7, <1>8
<1>10. \A i \in 1 .. k : HandleSeq[i] \in Handles /\ At(HandleSeq[i]) = i
  BY <1>3, <1>7, HandlesInOrder DEF Restored
<1>11. PICK ls : stores' = [i \in 0 .. k - 1 |-> Load(T(i + 1), ls[i + 1])]
  BY <1>2 DEF DoSetupBench, T
<1>12. \A i \in 0 .. k - 1 : /\ IsTree(stores'[i]) /\ stores'[i].level = T(i + 1).level
                             /\ stores'[i].bucket_size = m.arg[i + 1].bucket_size
  BY <1>11, ShapesKept, NewShape DEF SameShape, T
<1>13. DOMAIN stores' = 0 .. k - 1 /\ next_id' = k
  BY <1>2, <1>11 DEF DoSetupBench
<1>14. \A i \in 1 .. k : o(i) # NoHandle /\ Backs(o(i), stores')
  BY <1>12, <1>13 DEF HandlesAreHandles, Backs, IsHandle
<1>15. \A h \in Handles : hd[h] # NoHandle => Backs(hd[h], stores')
  BY <1>7, <1>9, <1>14
<1>16. \A g, h \in Handles : hd[g] # NoHandle /\ hd[h] # NoHandle /\ g # h => hd[g].id # hd[h].id
  BY <1>7, <1>9
<1>17. \A i \in DOMAIN stores' : \E h \in Handles : hd[h] # NoHandle /\ hd[h].id = i
  <2> SUFFICES ASSUME NEW i \in 0 .. k - 1
               PROVE  \E h \in Handles : hd[h] # NoHandle /\ hd[h].id = i
    BY <1>13
  <2>1. i + 1 \in 1 .. k
    OBVIOUS
  <2>2. HandleSeq[i + 1] \in Handles \cap Restored /\ At(HandleSeq[i + 1]) = i + 1
    BY <1>10, <2>1 DEF Restored
  <2>3. hd[HandleSeq[i + 1]] = o(i + 1)
    BY <1>9, <2>2
  <2> QED  BY <1>14, <2>1, <2>2, <2>3
<1>18. Paired(hd, stores')
  BY <1>9, <1>15, <1>16, <1>17 DEF Paired
<1>19. Numbered'
  BY <1>12, <1>13 DEF Numbered
<1> QED  BY <1>4, <1>18, <1>19 DEF Serves, hd

(* The server, whatever it is asked. *)
LEMMA DispatchServes ==
    ASSUME HandlesAreHandles, InStep, Dispatch
    PROVE  /\ call # NoCall /\ Connected /\ toClient = <<>> /\ toServer' = <<>>
           /\ \E m : toServer = <<m>> /\ Served(m)
           /\ Serves
<1>1. call # NoCall /\ Connected /\ toClient = <<>> /\ \E m : toServer = <<m>>
  BY DEF Dispatch, InStep, Lockstep
<1>2. PICK m : toServer = <<m>>
  BY <1>1
<1>3. m = MessageOf(call) /\ Head(toServer) = m /\ toServer' = <<>>
  BY <1>2, OneMessage DEF Dispatch, InStep
<1>4. Served(m)
  BY <1>1, <1>3 DEF InStep, Served, HandleNow
<1>5. Serves
  BY <1>3, <1>4, ResetServed, CreateServed, DestroyServed, SetupServed, ContentServed,
     ReadsServed, BatchWriteServed
  DEF Dispatch
<1> QED  BY <1>1, <1>2, <1>3, <1>4, <1>5

(* Each step keeps the objects and the stores in step when no receive can  *)
(* time out.                                                               *)
LEMMA StepsInStep ==
    ASSUME CallsAreCalls, HandlesAreHandles, timed \/ InStep, [Next]_vars
    PROVE  (timed \/ InStep)'
<1>0. timed' = timed
  BY DEF Next, vars, ClientCall, Construct, Reset, FillData, BulkLoad, ReadPath, WritePath,
         ReadMulti, WriteMulti, BatchRead, BatchWrite, SetupBench, Destruct, Request, Close,
         Receive, Misparse, Disconnected, Timeout, Lose, Dispatch, netVars
<1> SUFFICES ASSUME ~timed, InStep PROVE InStep'
  BY <1>0
<1>1. Lockstep'
  BY <1>0, LockstepStep DEF InStep
<1>2. CASE ClientCall
  BY <1>2, CallsInStep
<1>3. CASE Close
  BY <1>1, <1>3 DEF Close, HangUp, InStep, Connected, clientVars
<1>4. CASE Receive
  <2> DEFINE r == Head(toClient)
  <2>1. call # NoCall /\ toClient # <<>> /\ Fits(call, r)
    BY <1>4 DEF Receive, InStep
  <2>2. toServer' = <<>> /\ toClient' = <<>> /\ call' = NoCall
        /\ (Connected' <=> Connected) /\ stores' = stores /\ next_id' = next_id
    BY <1>4, <2>1, OneMessage DEF Receive, InStep, Lockstep, Throws, Connected, serverVars
  <2>3. handle' = After(call, r)
    <3>1. CASE r.type = "ERROR"
      BY <1>4, <2>1, <3>1 DEF Receive, Throws, Fits, After
    <3>2. CASE r.type = "OK"
      BY <1>4, <2>1, <3>2 DEF Receive, After
    <3> QED  BY <1>4, <3>1, <3>2 DEF Receive
  <2>4. HandleNow' = HandleNow
    BY <2>1, <2>2, <2>3 DEF HandleNow
  <2> QED  BY <1>1, <2>2, <2>4 DEF InStep, Numbered
<1>5. CASE Misparse
  BY <1>5 DEF Misparse, InStep, Fits, ErrAnswer
<1>6. CASE Disconnected
  BY <1>1, <1>6 DEF Disconnected, InStep, Lockstep, Throws, netVars, Connected
<1>7. CASE Timeout
  BY <1>7 DEF Timeout
<1>8. CASE Lose
  <2>1. toServer' = <<>> /\ ~Connected' /\ UNCHANGED clientVars
    BY <1>8 DEF Lose, HangUp, Connected
  <2>2. toClient' = <<>> \/ toClient' = toClient
    <3>1. PICK i \in 0 .. Len(toClient) : toClient' = SubSeq(toClient, 1, i)
      BY <1>8 DEF Lose
    <3>2. CASE toClient = <<>>
      BY <3>1, <3>2, OneMessage
    <3>3. ASSUME NEW r, toClient = <<r>> PROVE toClient' = <<>> \/ toClient' = toClient
      BY <3>1, <3>3, OneMessage
    <3> QED  BY <3>2, <3>3 DEF InStep, Lockstep
  <2>3. (call' # NoCall => Legal(call)') /\ (toClient' # <<>> => Fits(call, Head(toClient))')
    BY <2>1, <2>2 DEF InStep, clientVars, Legal, Live, Fits
  <2> QED  BY <1>1, <2>1, <2>3 DEF InStep
<1>9. CASE Dispatch
  <2>1. PICK r : Send(r) /\ Fits(call, r) /\ Numbered' /\ Paired(After(call, r), stores')
    BY <1>9, DispatchServes DEF Serves
  <2>2. toClient' = <<r>> /\ toServer' = <<>> /\ Head(<<r>>) = r /\ <<r>> # <<>>
    BY <1>9, <2>1, DispatchServes, OneMessage DEF Send
  <2>3. handle' = handle /\ call' = call /\ call # NoCall
    BY <1>9, DispatchServes DEF Dispatch, clientVars
  <2>4. HandleNow' = After(call, r)
    BY <2>2, <2>3 DEF HandleNow, After, Remember
  <2>5. Legal(call)' /\ Fits(call, Head(toClient))'
    BY <2>1, <2>2, <2>3 DEF InStep, Legal, Live, Fits
  <2> QED  BY <1>1, <2>1, <2>2, <2>4, <2>5 DEF InStep
<1>10. CASE UNCHANGED vars
  <2>1. /\ UNCHANGED <<call, toServer, toClient, handle, stores, next_id, fdOpen, link>>
    BY <1>10 DEF vars
  <2>2. /\ Legal(call)' <=> Legal(call)
        /\ MessageOf(call)' = MessageOf(call)
        /\ HandleNow' = HandleNow
        /\ Fits(call, Head(toClient))' <=> Fits(call, Head(toClient))
        /\ Numbered' <=> Numbered
        /\ Connected' <=> Connected
    BY <2>1 DEF Legal, Live, MessageOf, IdOf, HandleNow, After, Remember, Fits, Numbered, Connected
  <2> QED  BY <1>1, <2>1, <2>2 DEF InStep
<1> QED
  BY <1>2, <1>3, <1>4, <1>5, <1>6, <1>7, <1>8, <1>9, <1>10 DEF Next

(* At the start there is neither an object nor a store. *)
LEMMA InitInStep ==
    ASSUME Init
    PROVE  InStep
<1>1. DOMAIN stores = {} /\ next_id = 0
  <2>1. DOMAIN <<>> = {}
    OBVIOUS
  <2> QED  BY <2>1 DEF Init
<1>2. Numbered /\ Paired(handle, stores)
  BY <1>1 DEF Init, Numbered, Paired
<1> QED  BY <1>2 DEF Init, InStep, Lockstep, HandleNow

(* Between two calls objects and stores belong together. *)
LEMMA BetweenCalls ==
    timed \/ InStep => HandlesBacked /\ NoOrphanStore
<1> SUFFICES ASSUME InStep, call = NoCall, Connected
             PROVE  Paired(handle, stores) => HandlesBacked /\ NoOrphanStore
  BY DEF InStep, HandleNow, HandlesBacked, NoOrphanStore
<1> QED  BY DEF Paired, Backs, HandlesBacked, NoOrphanStore, Live

(* The invariant of a connection without a receive timeout. *)
LEMMA StaysInStep ==
    ASSUME CallsAreCalls, HandlesAreHandles
    PROVE  Spec => [](timed \/ InStep)
<1>1. Init => timed \/ InStep
  BY InitInStep
<1>2. (timed \/ InStep) /\ [Next]_vars => (timed \/ InStep)'
  BY StepsInStep
<1> QED  BY <1>1, <1>2, PTL DEF Spec

(* Without a receive timeout every object of a client has its store on the *)
(* server between two calls, with the size the object has cached, and no   *)
(* two objects share one, whatever was created, reset, destroyed or set    *)
(* up, refused or lost.                                                    *)
THEOREM StoresBacked ==
    ASSUME CallsAreCalls, HandlesAreHandles
    PROVE  Spec => []HandlesBacked
BY StaysInStep, BetweenCalls, PTL

(* And the server keeps no store whose object is gone: a constructor that  *)
(* threw, a destructor and a set-up leave nothing behind.                  *)
THEOREM NoStoreOrphaned ==
    ASSUME CallsAreCalls, HandlesAreHandles
    PROVE  Spec => []NoOrphanStore
BY StaysInStep, BetweenCalls, PTL

-----------------------------------------------------------------------------
(* The refinement: the NetworkStorage objects of a client are the local    *)
(* stores of StorageInterface.  Every step of the channel, the server and  *)
(* the client is a step of that interface or does not show.                *)

(* A store is never taken for no store. *)
TreesAreTrees ==
    \A l, b, n : [level |-> l, bucket_size |-> b, nodes |-> n] # NoTree

(* What the invariant InStep does not say of an answer under way: which    *)
(* objects it names, that the store of a destroyed object is gone before   *)
(* the object is, and that an object to be reset is one.                   *)
AnswerNames ==
    toClient # <<>> /\ Head(toClient).type = "OK" =>
        /\ call.op \in {"CREATE", "SETUP_BENCH"} =>
              DOMAIN Head(toClient).ids = DOMAIN call.hs
        /\ call.op = "DESTROY" /\ Connected =>
              handle[call.hs[1]].id \notin DOMAIN stores
        /\ call.op = "RESET" /\ Connected => IsHandle(handle[call.hs[1]])

Mapped == InStep /\ AnswerNames

(* The server's answers name the objects of the call. *)
LEMMA DispatchNames ==
    ASSUME NEW m, Served(m), NEW r, r.type = "OK", Send(r),
           \/ DoCreate(m)    \/ DoReset(m)      \/ DoFillData(m) \/ DoBulkLoad(m)
           \/ DoReadPath(m)  \/ DoReadMulti(m)  \/ DoWrite(m)    \/ DoBadId(m)
           \/ DoBatchRead(m) \/ DoBatchWrite(m) \/ DoDestroy(m)  \/ DoSetupBench(m)
    PROVE  /\ call.op \in {"CREATE", "SETUP_BENCH"} => DOMAIN r.ids = DOMAIN call.hs
           /\ call.op = "DESTROY" => handle[call.hs[1]].id \notin DOMAIN stores'
           /\ call.op = "RESET" => IsHandle(handle[call.hs[1]])
<1>0. m.op = call.op /\ m.arg = call.arg
  BY DEF Served, MessageOf
<1>1. r = Head(toClient') /\ toClient' = <<r>>
  <2>1. toClient' = <<r>>
    BY OneMessage DEF Send, Served
  <2>2. Head(<<r>>) = r
    OBVIOUS
  <2> QED  BY <2>1, <2>2
<1>2. CASE call.op = "CREATE"
  <2>1. DoCreate(m)
    BY <1>0, <1>2 DEF DoCreate, DoReset, DoFillData, DoBulkLoad, DoReadPath, DoReadMulti,
       DoWrite, DoBadId, DoBatchRead, DoBatchWrite, DoDestroy, DoSetupBench
  <2>2. PICK h : call.hs = <<h>>
    BY <1>2 DEF Served, Legal, OneStoreOps
  <2>3. r.ids = <<next_id>>
    <3>1. toClient' = <<OkAnswer("store", <<Geometry(NewTree(m.arg))>>, <<next_id>>)>>
      BY <2>1, OneMessage DEF DoCreate, SendOk, Send, Served
    <3>2. r = OkAnswer("store", <<Geometry(NewTree(m.arg))>>, <<next_id>>)
      BY <1>1, <3>1
    <3> QED  BY <3>2 DEF OkAnswer
  <2> QED  BY <1>2, <2>2, <2>3
<1>3. CASE call.op = "SETUP_BENCH"
  <2>1. DoSetupBench(m)
    BY <1>0, <1>3 DEF DoCreate, DoReset, DoFillData, DoBulkLoad, DoReadPath, DoReadMulti,
       DoWrite, DoBadId, DoBatchRead, DoBatchWrite, DoDestroy, DoSetupBench
  <2>2. PICK k \in 1 .. Cardinality(Handles) :
          call.hs = SubSeq(HandleSeq, 1, k) /\ DOMAIN m.arg = 1 .. k
    BY <1>0, <1>3 DEF Served, Legal, OneStoreOps
  <2>3. DOMAIN call.hs = 1 .. k
    <3>1. Cardinality(Handles) \in Nat
      BY FS_CardinalityType, NetAssumption
    <3>2. HandleSeq \in Seq(Handles) /\ Len(HandleSeq) = Cardinality(Handles)
      BY <3>1, HandlesInOrder
    <3> QED  BY <2>2, <3>1, <3>2
  <2>4. DOMAIN r.ids = DOMAIN m.arg
    <3>1. PICK val : Send(OkAnswer("blob", val, [i \in DOMAIN m.arg |-> i - 1]))
      BY <2>1 DEF DoSetupBench, SendOk
    <3>2. r = OkAnswer("blob", val, [i \in DOMAIN m.arg |-> i - 1])
      BY <1>1, <3>1, OneMessage DEF Send, Served
    <3> QED  BY <3>2 DEF OkAnswer
  <2> QED  BY <1>3, <2>2, <2>3, <2>4
<1>4. CASE call.op = "DESTROY"
  <2>1. DoDestroy(m)
    BY <1>0, <1>4 DEF DoCreate, DoReset, DoFillData, DoBulkLoad, DoReadPath, DoReadMulti,
       DoWrite, DoBadId, DoBatchRead, DoBatchWrite, DoDestroy, DoSetupBench
  <2>2. m.ids[1] = handle[call.hs[1]].id
    BY <1>4, NamesStore DEF OneStoreOps
  <2> QED  BY <1>4, <2>1, <2>2 DEF DoDestroy
<1>5. CASE call.op = "RESET"
  BY <1>5, NamesStore DEF OneStoreOps, Backs
<1> QED  BY <1>2, <1>3, <1>4, <1>5

(* Each step keeps the invariant. *)
LEMMA MappedKept ==
    ASSUME CallsAreCalls, HandlesAreHandles, timed \/ Mapped, [Next]_vars
    PROVE  (timed \/ Mapped)'
<1>0. timed' = timed
  BY DEF Next, vars, ClientCall, Construct, Reset, FillData, BulkLoad, ReadPath, WritePath,
         ReadMulti, WriteMulti, BatchRead, BatchWrite, SetupBench, Destruct, Request, Close,
         Receive, Misparse, Disconnected, Timeout, Lose, Dispatch, netVars
<1> SUFFICES ASSUME ~timed, Mapped PROVE AnswerNames'
  BY <1>0, StepsInStep DEF Mapped
<1>1. CASE toClient' = <<>>
  BY <1>1 DEF AnswerNames
<1>2. CASE UNCHANGED <<call, handle, toClient>> /\ (~Connected' \/ UNCHANGED <<stores, fdOpen, link>>)
  BY <1>2 DEF AnswerNames, Mapped, Connected
<1>3. CASE Dispatch
  <2>1. PICK m : toServer = <<m>> /\ Served(m)
    BY <1>3, DispatchServes DEF Mapped
  <2>2. PICK r : Send(r)
    BY <1>3, DispatchServes DEF Serves, Mapped
  <2>3. Head(toServer) = m /\ toClient' = <<r>> /\ Head(toClient') = r
    BY <2>1, <2>2, OneMessage DEF Send, Served
  <2>4. handle' = handle /\ call' = call
    BY <1>3 DEF Dispatch, clientVars
  <2>5. r.type = "OK" =>
          /\ call.op \in {"CREATE", "SETUP_BENCH"} => DOMAIN r.ids = DOMAIN call.hs
          /\ call.op = "DESTROY" => handle[call.hs[1]].id \notin DOMAIN stores'
          /\ call.op = "RESET" => IsHandle(handle[call.hs[1]])
    BY <1>3, <2>1, <2>2, <2>3, DispatchNames DEF Dispatch
  <2> QED  BY <2>3, <2>4, <2>5 DEF AnswerNames
<1>4. CASE ClientCall
  <2>1. CASE \E op, hs, arg : Request(op, hs, arg)
    BY <1>1, <2>1 DEF Request, Mapped, InStep, Lockstep, CallsAreCalls
  <2>2. CASE ~fdOpen /\ call = NoCall /\ UNCHANGED <<call, ret, netVars, serverVars>>
    BY <1>1, <2>2 DEF Mapped, InStep, Lockstep, netVars
  <2> QED  BY <1>4, <2>1, <2>2, CallsAreLegal
<1>5. CASE Close \/ Receive \/ Misparse \/ Disconnected \/ Timeout
  <2>1. CASE Receive
    BY <1>1, <2>1, OneMessage DEF Receive, Mapped, InStep, Lockstep
  <2>2. CASE Misparse
    BY <2>2 DEF Misparse, Mapped, InStep, Fits, ErrAnswer
  <2> QED  BY <1>1, <1>5, <2>1, <2>2 DEF Close, Disconnected, Timeout, netVars
<1>6. CASE Lose
  <2>1. ~Connected' /\ UNCHANGED clientVars
    BY <1>6 DEF Lose, Connected
  <2>2. toClient' = <<>> \/ toClient' = toClient
    <3>1. PICK i \in 0 .. Len(toClient) : toClient' = SubSeq(toClient, 1, i)
      BY <1>6 DEF Lose
    <3>2. CASE toClient = <<>>
      BY <3>1, <3>2, OneMessage
    <3>3. ASSUME NEW r, toClient = <<r>> PROVE toClient' = <<>> \/ toClient' = toClient
      BY <3>1, <3>3, OneMessage
    <3> QED  BY <3>2, <3>3 DEF InStep, Lockstep, Mapped
  <2> QED  BY <1>1, <1>2, <2>1, <2>2 DEF clientVars
<1>7. CASE UNCHANGED vars
  BY <1>2, <1>7 DEF vars
<1> QED  BY <1>3, <1>4, <1>5, <1>6, <1>7 DEF Next

-----------------------------------------------------------------------------
(* What the objects hd stand for when the server has the stores st. *)
View(hd, st) == [h \in Handles |-> IF hd[h] # NoHandle THEN st[hd[h].id] ELSE NoTree]
Gone == [h \in Handles |-> NoTree]

(* The sequences of objects in a call have each object once. *)
LEMMA CallNames ==
    ASSUME NEW c, Legal(c), c.op = "SETUP_BENCH"
    PROVE  \E k \in 1 .. Cardinality(Handles) :
              /\ DOMAIN c.arg = 1 .. k /\ DOMAIN c.hs = 1 .. k
              /\ \A i \in 1 .. k : c.hs[i] = HandleSeq[i] /\ c.hs[i] \in Handles
              /\ \A i, j \in 1 .. k : HandleSeq[i] = HandleSeq[j] => i = j
<1>1. PICK k \in 1 .. Cardinality(Handles) :
          c.hs = SubSeq(HandleSeq, 1, k) /\ DOMAIN c.arg = 1 .. k
  BY DEF Legal, OneStoreOps
<1>2. Cardinality(Handles) \in Nat
  BY FS_CardinalityType, NetAssumption
<1>3. HandleSeq \in Seq(Handles) /\ Len(HandleSeq) = Cardinality(Handles)
  BY <1>2, HandlesInOrder
<1>4. DOMAIN c.hs = 1 .. k /\ \A i \in 1 .. k : c.hs[i] = HandleSeq[i]
  BY <1>1, <1>2, <1>3
<1>5. \A i \in 1 .. k : HandleSeq[i] \in Handles
  BY <1>2, HandlesInOrder
<1>6. \A i, j \in 1 .. k : HandleSeq[i] = HandleSeq[j] => i = j
  BY <1>2, HandlesInOrder
<1> QED  BY <1>1, <1>4, <1>5, <1>6

(* On a live connection the mapped stores are those of the objects as they *)
(* will be when the answer under way has been taken.                       *)
LEMMA ObjsView ==
    ASSUME HandlesAreHandles, Mapped
    PROVE  Objs = IF Connected THEN View(HandleNow, stores) ELSE Gone
<1>1. CASE ~Connected
  BY <1>1 DEF Objs, Gone
<1>2. CASE Connected
  <2>0. Numbered /\ Paired(HandleNow, stores) /\ -1 \notin DOMAIN stores
    BY <1>2 DEF Mapped, InStep, Numbered
  <2> DEFINE Shown(h) == /\ HandleNow[h] # NoHandle =>
                               IdNow(h) \in DOMAIN stores /\ IdNow(h) = HandleNow[h].id
                         /\ HandleNow[h] = NoHandle => IdNow(h) \notin DOMAIN stores
  <2> SUFFICES ASSUME NEW h \in Handles PROVE Shown(h)
    BY <1>2 DEF Objs, View
  <2>1. HandleNow[h] # NoHandle => HandleNow[h].id \in DOMAIN stores
    BY <2>0 DEF Paired, Backs
  <2> DEFINE r == Head(toClient)
             Same  == /\ handle[h] = NoHandle <=> HandleNow[h] = NoHandle
                      /\ HandleNow[h] # NoHandle => HandleNow[h].id = handle[h].id
  <2>2. ASSUME Same, handle[h] # NoHandle \/ IdNow(h) = -1 PROVE Shown(h)
    BY <2>0, <2>1, <2>2 DEF IdNow
  <2>3. CASE call = NoCall \/ toClient = <<>> \/ r.type = "ERROR"
    <3>1. HandleNow = handle
      BY <2>3 DEF HandleNow, After
    <3>2. handle[h] # NoHandle \/ IdNow(h) = -1
      BY <2>3 DEF IdNow
    <3> QED  BY <2>2, <3>1, <3>2
  <2> HIDE DEF Shown
  <2>4. CASE call # NoCall /\ toClient # <<>> /\ r.type # "ERROR"
    <3>0. /\ Legal(call) /\ r.type = "OK" /\ HandleNow = Remember(call, r)
          /\ call.op \in {"CREATE", "SETUP_BENCH"} => DOMAIN r.ids = DOMAIN call.hs
          /\ call.op = "DESTROY" => handle[call.hs[1]].id \notin DOMAIN stores
          /\ call.op = "RESET" => IsHandle(handle[call.hs[1]])
      BY <1>2, <2>4 DEF Mapped, InStep, AnswerNames, Fits, ErrAnswer, HandleNow, After
    <3>1. CASE call.op = "CREATE"
      <4>1. PICK g \in Handles : g \notin Live /\ call.hs = <<g>>
        BY <3>0, <3>1 DEF Legal, OneStoreOps
      <4>2. HandleNow = [handle EXCEPT ![g] = [id |-> r.ids[1], level |-> r.val[1][1],
                                               bucket_size |-> call.arg.bucket_size]]
        BY <3>0, <3>1, <4>1 DEF Remember
      <4>3. DOMAIN handle = Handles
        BY <2>0, <4>2 DEF Paired
      <4>4. DOMAIN call.hs = {1} /\ call.hs[1] = g /\ DOMAIN r.ids = {1}
        BY <3>0, <3>1, <4>1
      <4>5. CASE h # g
        <5>1. HandleNow[h] = handle[h]
          BY <4>2, <4>3, <4>5
        <5>2. handle[h] # NoHandle \/ IdNow(h) = -1
          BY <4>4, <4>5 DEF IdNow
        <5> QED  BY <2>2, <5>1, <5>2
      <4>6. CASE h = g
        <5>1. HandleNow[h].id = r.ids[1] /\ handle[h] = NoHandle /\ HandleNow[h] # NoHandle
          BY <4>1, <4>2, <4>3, <4>6 DEF Live, HandlesAreHandles
        <5>2. (CHOOSE j \in DOMAIN call.hs : call.hs[j] = h) = 1
          BY <4>4, <4>6
        <5>3. IdNow(h) = r.ids[1]
          BY <2>4, <3>0, <3>1, <4>4, <4>6, <5>1, <5>2 DEF IdNow
        <5> QED  BY <2>1, <5>1, <5>3 DEF Shown
      <4> QED  BY <4>5, <4>6
    <3>2. CASE call.op = "SETUP_BENCH"
      <4>1. PICK k \in 1 .. Cardinality(Handles) :
              /\ DOMAIN call.hs = 1 .. k
              /\ \A i \in 1 .. k : call.hs[i] = HandleSeq[i] /\ call.hs[i] \in Handles
              /\ \A i, j \in 1 .. k : HandleSeq[i] = HandleSeq[j] => i = j
        BY <3>0, <3>2, CallNames
      <4>2. handle[h] = NoHandle
        BY <3>0, <3>2 DEF Legal, Live, OneStoreOps
      <4> DEFINE at == CHOOSE j \in 1 .. k : HandleSeq[j] = h
      <4>3. HandleNow[h] = IF h \notin {HandleSeq[i] : i \in 1 .. k} THEN NoHandle
                           ELSE [id |-> r.ids[at], level |-> r.val[at][1],
                                 bucket_size |-> r.val[at][3]]
        BY <3>0, <3>2, <4>1 DEF Remember
      <4>4. CASE h \notin {HandleSeq[i] : i \in 1 .. k}
        <5>1. IdNow(h) = -1
          BY <4>1, <4>2, <4>4 DEF IdNow
        <5> QED  BY <2>0, <4>3, <4>4, <5>1 DEF Shown
      <4>5. ASSUME NEW i \in 1 .. k, HandleSeq[i] = h PROVE Shown(h)
        <5>1. at = i /\ (CHOOSE j \in DOMAIN call.hs : call.hs[j] = h) = i
          BY <4>1, <4>5
        <5>2. IdNow(h) = r.ids[i]
          BY <2>4, <3>0, <3>2, <4>1, <4>2, <4>5, <5>1 DEF IdNow
        <5>3. HandleNow[h] = [id |-> r.ids[i], level |-> r.val[i][1],
                              bucket_size |-> r.val[i][3]]
          BY <4>3, <4>5, <5>1
        <5>4. HandleNow[h] # NoHandle /\ HandleNow[h].id = r.ids[i]
          BY <5>3 DEF HandlesAreHandles
        <5> QED  BY <2>1, <5>2, <5>4 DEF Shown
      <4> QED  BY <4>4, <4>5
    <3>3. CASE call.op = "DESTROY"
      <4>1. PICK g \in Live : call.hs = <<g>>
        BY <3>0, <3>3 DEF Legal, OneStoreOps
      <4>2. HandleNow = [handle EXCEPT ![g] = NoHandle]
        BY <3>0, <3>3, <4>1 DEF Remember
      <4>3. DOMAIN handle = Handles
        BY <2>0, <4>2 DEF Paired
      <4>4. CASE h = g
        <5>1. IdNow(h) = handle[h].id /\ handle[h].id \notin DOMAIN stores
          BY <3>0, <3>3, <4>1, <4>4 DEF IdNow, Live
        <5>2. HandleNow[h] = NoHandle
          BY <4>2, <4>3, <4>4
        <5> QED  BY <5>1, <5>2 DEF Shown
      <4>5. CASE h # g
        <5>1. HandleNow[h] = handle[h]
          BY <4>2, <4>3, <4>5
        <5>2. handle[h] # NoHandle \/ IdNow(h) = -1
          BY <3>3 DEF IdNow
        <5> QED  BY <2>2, <5>1, <5>2
      <4> QED  BY <4>4, <4>5
    <3>4. CASE call.op = "RESET"
      <4>1. PICK g \in Live : call.hs = <<g>>
        BY <3>0, <3>4 DEF Legal, OneStoreOps
      <4>2. HandleNow = [handle EXCEPT ![g].level = r.val[1],
                                       ![g].bucket_size = call.arg.bucket_size]
        BY <3>0, <3>4, <4>1 DEF Remember
      <4>3. DOMAIN handle = Handles
        BY <2>0, <4>2 DEF Paired
      <4>4. handle[h] # NoHandle \/ IdNow(h) = -1
        BY <3>4 DEF IdNow
      <4>5. CASE h # g
        <5>1. HandleNow[h] = handle[h]
          BY <4>2, <4>3, <4>5
        <5> QED  BY <2>2, <4>4, <5>1
      <4>6. CASE h = g
        <5>1. HandleNow[h] = [handle[h] EXCEPT !.level = r.val[1],
                                               !.bucket_size = call.arg.bucket_size]
          BY <4>2, <4>3, <4>6
        <5>2. handle[h] # NoHandle
          BY <4>1, <4>6 DEF Live
        <5>3. IsHandle(handle[h])
          BY <3>0, <3>4, <4>1, <4>6
        <5>4. HandleNow[h] # NoHandle
          BY <5>1, <5>3 DEF HandlesAreHandles, IsHandle
        <5>5. HandleNow[h].id = handle[h].id
          BY <5>1, <5>3 DEF IsHandle
        <5> QED  BY <2>2, <4>4, <5>2, <5>4, <5>5
      <4> QED  BY <4>5, <4>6
    <3>5. CASE call.op \notin {"CREATE", "SETUP_BENCH", "DESTROY", "RESET"}
      <4>1. HandleNow = handle
        BY <3>0, <3>5 DEF Remember
      <4>2. handle[h] # NoHandle \/ IdNow(h) = -1
        BY <3>5 DEF IdNow
      <4> QED  BY <2>2, <4>1, <4>2
    <3> QED  BY <3>1, <3>2, <3>3, <3>4, <3>5
  <2> QED  BY <2>3, <2>4
<1> QED  BY <1>1, <1>2

-----------------------------------------------------------------------------
(* StorageInterface computes with the same trees. *)
LEMMA SameTrees ==
    /\ \A s : SI!NewTree(s) = NewTree(s)
    /\ \A t, b : SI!Fill(t, b) = Fill(t, b)
    /\ \A t, bs : SI!Load(t, bs) = Load(t, bs)
    /\ \A t : SI!Placed(t) = Placed(t)
    /\ \A t, S : SI!ReadNodes(t, S) = ReadNodes(t, S)
    /\ \A t, d : SI!WriteNodes(t, d) = WriteNodes(t, d)
    /\ \A v, l : SI!PathNodes(v, l) = PathNodes(v, l)
    /\ \A v, L : SI!MergedNodes(v, L) = MergedNodes(v, L)
    /\ \A t : SI!Geometry(t) = Geometry(t)
    /\ \A v : SI!LeafRange(v) = LeafRange(v)
<1>1. \A v : SI!LeafRange(v) = LeafRange(v)
  BY DEF SI!LeafRange, LeafRange
<1>2. \A v, l : SI!PathNodes(v, l) = PathNodes(v, l)
  BY DEF SI!LeafRange, LeafRange, SI!PathNodes, PathNodes
<1>3. \A v, L : SI!MergedNodes(v, L) = MergedNodes(v, L)
  BY DEF SI!LeafRange, LeafRange, SI!PathNodes, PathNodes, SI!MergedNodes, MergedNodes
<1>4. \A s : SI!NewTree(s) = NewTree(s)
  BY DEF SI!NewTree, NewTree, SI!LevelFor, LevelFor, SI!CeilLog2, CeilLog2, SI!TreeNodes,
         TreeNodes
<1>5. \A t, n, b : SI!Place(t, n, b) = Place(t, n, b)
  BY DEF SI!Place, Place, SI!PathNodes, PathNodes, SI!LeafRange, LeafRange, SI!Deepest, Deepest
<1>6. \A t, bs : SI!Loaded(t, bs) = Loaded(t, bs)
  BY DEF SI!Loaded, Loaded, SI!Place, Place, SI!PathNodes, PathNodes, SI!LeafRange,
         LeafRange, SI!Deepest, Deepest
<1>7. \A t, b : SI!Fill(t, b) = Fill(t, b)
  BY <1>5 DEF SI!Fill, Fill
<1>8. \A t, bs : SI!Load(t, bs) = Load(t, bs)
  BY <1>6 DEF SI!Load, Load
<1>9. \A t : SI!Placed(t) = Placed(t)
  BY DEF SI!Placed, Placed
<1>10. \A t, S : SI!ReadNodes(t, S) = ReadNodes(t, S)
  BY DEF SI!ReadNodes, ReadNodes
<1>11. \A t, d : SI!WriteNodes(t, d) = WriteNodes(t, d)
  BY DEF SI!WriteNodes, WriteNodes
<1>12. \A t : SI!Geometry(t) = Geometry(t)
  BY <1>1 DEF SI!Geometry, Geometry
<1> QED
  BY <1>1, <1>2, <1>3, <1>4, <1>7, <1>8, <1>9, <1>10, <1>11, <1>12

(* The phases of a call as StorageInterface names them. *)
Idle           == [at |-> "idle"]
Called(c)      == [at |-> "called", call |-> c]
Answered(c, a) == [at |-> "answered", call |-> c, answer |-> a]
Lost(c)        == [at |-> "lost", call |-> c]

(* The phase in each state of the channel. *)
LEMMA Phases ==
    /\ call = NoCall => Phase = Idle
    /\ call # NoCall /\ toClient # <<>> =>
          Phase = Answered(call, AnswerOf(call, Head(toClient)))
    /\ call # NoCall /\ toClient = <<>> /\ toServer # <<>> => Phase = Called(call)
    /\ call # NoCall /\ toClient = <<>> /\ toServer = <<>> => Phase = Lost(call)
BY DEF Phase, Idle, Answered, Called, Lost

(* Conditions, on the mapped state, for each step of StorageInterface. *)
Untimed == ~timed /\ ~timed'

(* A call that finds the connection up, or gone. *)
LEMMA IsInvoke ==
    ASSUME Untimed, NEW c, Phase = Idle, ret' = Void,
           Phase' = IF Connected THEN Called(c) ELSE Lost(c),
           Objs' = Objs, Connected' = Connected
    PROVE  SI!SINext
BY DEF SI!SINext, SI!Invoke, SI!Called, SI!Lost, Untimed, Idle, Called, Lost

(* The answer is taken. *)
LEMMA IsReturn ==
    ASSUME Untimed, NEW c, NEW a, Phase = Answered(c, a), Phase' = Idle, ret' = a,
           Objs' = Objs, Connected' = Connected
    PROVE  SI!SINext
BY DEF SI!SINext, SI!Return, SI!Idle, Untimed, Idle, Answered

(* A call whose connection is gone throws. *)
LEMMA IsThrow ==
    ASSUME Untimed, NEW c, Phase = Lost(c), Phase' = Idle, ret' = Threw,
           Objs' = Objs, Connected' = Connected
    PROVE  SI!SINext
BY DEF SI!SINext, SI!Throw, SI!Idle, Untimed, Idle, Lost

(* The connection goes, and the stores with it. *)
LEMMA IsGoDown ==
    ASSUME Untimed, Connected, ~Connected', Objs' = Gone, ret' = ret,
           \/ Phase' = Phase /\ (Phase = Idle \/ \E c, a : Phase = Answered(c, a))
           \/ \E c : Phase' = Lost(c) /\
                 (Phase = Called(c) \/ Phase = Lost(c) \/ \E a : Phase = Answered(c, a))
    PROVE  SI!SINext
BY DEF SI!SINext, SI!GoDown, SI!Lost, Untimed, Gone, Idle, Called, Answered, Lost

(* A step that leaves the mapped state alone. *)
LEMMA IsStutter ==
    ASSUME Untimed, Phase' = Phase, Objs' = Objs, Connected' = Connected, ret' = ret
    PROVE  UNCHANGED SI!siVars
BY DEF SI!siVars, Untimed

(* The server executes the call under way. *)
LEMMA IsExecute ==
    ASSUME Untimed, Connected, Connected', NEW c, Phase = Called(c), SI!Effect(c), ret' = ret
    PROVE  SI!SINext
BY DEF SI!SINext, SI!Execute, Untimed, Called

(* What call c makes of the one store t it is about, and its answer.       *)
ChangesTo(c, t, u, a) ==
    \/ c.op = "RESET" /\ u = NewTree(c.arg) /\ a = Geometry(u)
    \/ c.op = "FILL_DATA" /\ u = Fill(t, c.arg) /\ a = Void
    \/ c.op = "BULK_LOAD" /\ u = Load(t, c.arg) /\ a = Placed(u)
    \/ c.op = "READ_PATH" /\ u = t /\ a = ReadNodes(t, PathNodes(t.level, c.arg))
    \/ /\ c.op = "READ_MULTI" /\ u = t
       /\ a = ReadNodes(t, MergedNodes(t.level, {c.arg[i] : i \in DOMAIN c.arg}))
    \/ c.op \in {"WRITE_PATH", "WRITE_MULTI"} /\ u = WriteNodes(t, c.arg) /\ a = Void

(* A call on one store has its effect there. *)
LEMMA EffectOnOne ==
    ASSUME Untimed, NEW c, NEW h \in Handles, c.hs = <<h>>, Objs[h] # NoTree, NEW u, NEW a,
           Objs' = [Objs EXCEPT ![h] = u], Phase' = Answered(c, a),
           ChangesTo(c, Objs[h], u, a)
    PROVE  SI!Effect(c)
<1>1. c.hs[1] = h /\ SI!Tree(h) = Objs[h]
  BY DEF SI!Tree, Untimed
<1>2. SI!OnTree(c, u, a)
  BY <1>1 DEF SI!OnTree, SI!Answered, Answered, Untimed
<1>3. CASE c.op = "RESET"
  BY <1>1, <1>2, <1>3, SameTrees DEF SI!Effect, ChangesTo
<1>4. CASE c.op = "FILL_DATA"
  BY <1>1, <1>2, <1>4, SameTrees DEF SI!Effect, ChangesTo
<1>5. CASE c.op = "BULK_LOAD"
  BY <1>1, <1>2, <1>5, SameTrees DEF SI!Effect, ChangesTo
<1>6. CASE c.op = "READ_PATH"
  BY <1>1, <1>2, <1>6, SameTrees DEF SI!Effect, ChangesTo
<1>7. CASE c.op = "READ_MULTI"
  BY <1>1, <1>2, <1>7, SameTrees DEF SI!Effect, ChangesTo
<1>8. CASE c.op \in {"WRITE_PATH", "WRITE_MULTI"}
  BY <1>1, <1>2, <1>8, SameTrees DEF SI!Effect, ChangesTo
<1> QED  BY <1>3, <1>4, <1>5, <1>6, <1>7, <1>8 DEF ChangesTo

(* An object that is made, and one that goes. *)
LEMMA EffectMakes ==
    ASSUME Untimed, NEW c, NEW h \in Handles, c.hs = <<h>>, NEW a, Phase' = Answered(c, a),
           \/ /\ c.op = "CREATE" /\ Objs' = [Objs EXCEPT ![h] = NewTree(c.arg)]
              /\ a = <<Geometry(NewTree(c.arg))>>
           \/ c.op = "DESTROY" /\ Objs' = [Objs EXCEPT ![h] = NoTree] /\ a = Void
    PROVE  SI!Effect(c)
<1>1. c.hs[1] = h
  OBVIOUS
<1>2. CASE c.op = "CREATE"
  BY <1>1, <1>2, SameTrees DEF SI!Effect, SI!Answered, Answered, Untimed
<1>3. CASE c.op = "DESTROY"
  BY <1>1, <1>3 DEF SI!Effect, SI!Answered, Answered, Untimed
<1> QED  BY <1>2, <1>3

(* A batch of reads of stores that all exist, and one that is refused. *)
LEMMA EffectReads ==
    ASSUME Untimed, NEW c, c.op = "BATCH_READ", NEW g \in Handles \cup {LocalStore},
           NEW h \in Handles \cup {LocalStore}, c.hs = <<g, h>>, Objs' = Objs,
           LET tree == [i \in {1, 2} |-> SI!Tree(c.hs[i])]
           IN  \/ /\ tree[1] # NoTree /\ tree[2] # NoTree
                  /\ Phase' = Answered(c, [i \in {1, 2} |->
                        ReadNodes(tree[i], PathNodes(tree[i].level, c.arg[i]))])
               \/ (tree[1] = NoTree \/ tree[2] = NoTree) /\ Phase' = Answered(c, Threw)
    PROVE  SI!Effect(c)
<1> DEFINE bad == {i \in DOMAIN c.hs : SI!Tree(c.hs[i]) = NoTree}
<1>1. DOMAIN c.hs = {1, 2}
  OBVIOUS
<1>2. CASE SI!Tree(c.hs[1]) # NoTree /\ SI!Tree(c.hs[2]) # NoTree
  <2>1. bad = {}
    BY <1>1, <1>2
  <2>2. Phase' = Answered(c, [i \in DOMAIN c.hs |->
                   SI!ReadNodes(SI!Tree(c.hs[i]), SI!PathNodes(SI!Tree(c.hs[i]).level, c.arg[i]))])
    BY <1>1, <1>2, SameTrees
  <2> QED  BY <2>1, <2>2 DEF SI!Effect, SI!Answered, Answered, Untimed
<1>3. CASE SI!Tree(c.hs[1]) = NoTree \/ SI!Tree(c.hs[2]) = NoTree
  <2>1. bad # {} /\ Phase' = Answered(c, Threw)
    BY <1>1, <1>3
  <2> QED  BY <2>1 DEF SI!Effect, SI!Answered, Answered, Untimed
<1> QED  BY <1>2, <1>3

(* A map that is set up. *)
LEMMA EffectSetup ==
    ASSUME Untimed, NEW c, c.op = "SETUP_BENCH", DOMAIN c.arg = DOMAIN c.hs,
           NEW ls \in [DOMAIN c.arg -> LoadSeqs],
           \A i \in DOMAIN c.arg : \A j \in DOMAIN ls[i] :
               ls[i][j].leaf < LeafRange(NewTree(c.arg[i]).level),
           Objs' = [h \in Handles |->
                       IF \A i \in DOMAIN c.hs : c.hs[i] # h THEN NoTree
                       ELSE LET i == CHOOSE j \in DOMAIN c.hs : c.hs[j] = h
                            IN  Load(NewTree(c.arg[i]), ls[i])],
           Phase' = Answered(c, [i \in DOMAIN c.arg |->
                       Append(Geometry(NewTree(c.arg[i])), c.arg[i].bucket_size)])
    PROVE  SI!Effect(c)
<1>1. \A i \in DOMAIN c.hs : ls[i] \in SI!Loads(SI!NewTree(c.arg[i]))
  BY SameTrees DEF SI!Loads, SI!Fits
<1>2. Phase' = Answered(c, [i \in DOMAIN c.hs |->
                   Append(SI!Geometry(SI!NewTree(c.arg[i])), c.arg[i].bucket_size)])
  BY SameTrees
<1>3. Objs' = SI!Built(c, ls)
  BY SameTrees DEF SI!Built
<1>4. SI!SetUp(c)
  BY <1>1, <1>2, <1>3 DEF SI!SetUp, SI!Answered, Answered, Untimed
<1> QED  BY <1>4 DEF SI!Effect

(* The effect of a batch of two writes, and of one of which only the first *)
(* is done.                                                                *)
Wrote(o, h, d) == [o EXCEPT ![h] = WriteNodes(o[h], d)]

(* A batch of writes refused at its first request writes nothing. *)
LEMMA NothingWritten ==
    ASSUME Untimed, NEW c, DOMAIN Objs = Handles, Objs = [h \in Handles |-> Objs[h]]
    PROVE  SI!AfterWrites(c, 0) = Objs
<1>1. \A h \in Handles : \A i \in 1 .. 0 : c.hs[i] # h
  OBVIOUS
<1> QED  BY <1>1 DEF SI!AfterWrites, Untimed

(* A batch of writes refused at its second request writes the first. *)
LEMMA OneWritten ==
    ASSUME Untimed, NEW c, NEW g \in Handles, c.hs[1] = g, IsTree(Objs[g]),
           Objs = [h \in Handles |-> Objs[h]]
    PROVE  SI!AfterWrites(c, 1) = Wrote(Objs, g, c.arg[1])
<1>1. 1 .. 1 = {1} /\ \A h \in Handles : (\A i \in 1 .. 1 : c.hs[i] # h) <=> h # g
  OBVIOUS
<1>2. ASSUME NEW h \in Handles, h # g PROVE SI!AfterWrites(c, 1)[h] = Objs[h]
  BY <1>1, <1>2 DEF SI!AfterWrites, Untimed
<1> DEFINE w(x) == {i \in 1 .. 1 : c.hs[i] = g /\ x \in DOMAIN c.arg[i]}
<1>3. ASSUME NEW x
      PROVE  IF x \in DOMAIN c.arg[1] THEN w(x) # {} /\ SI!Last(w(x)) = 1 ELSE w(x) = {}
  <2>1. w(x) = IF x \in DOMAIN c.arg[1] THEN {1} ELSE {}
    BY <1>1
  <2> QED  BY <2>1 DEF SI!Last
<1>4. SI!AfterWrites(c, 1)[g] = [Objs[g] EXCEPT !.nodes =
          [x \in DOMAIN Objs[g].nodes |->
              IF w(x) = {} THEN Objs[g].nodes[x] ELSE c.arg[SI!Last(w(x))][x]]]
  BY <1>1 DEF SI!AfterWrites, Untimed
<1> HIDE DEF w
<1>5. [x \in DOMAIN Objs[g].nodes |->
          IF w(x) = {} THEN Objs[g].nodes[x] ELSE c.arg[SI!Last(w(x))][x]]
      = [x \in DOMAIN Objs[g].nodes |->
          IF x \in DOMAIN c.arg[1] THEN c.arg[1][x] ELSE Objs[g].nodes[x]]
  BY <1>3
<1>6. SI!AfterWrites(c, 1)[g] = WriteNodes(Objs[g], c.arg[1])
  BY <1>4, <1>5 DEF WriteNodes
<1>7. SI!AfterWrites(c, 1) = [h \in Handles |-> SI!AfterWrites(c, 1)[h]]
  BY DEF SI!AfterWrites
<1>8. Wrote(Objs, g, c.arg[1])
      = [h \in Handles |-> IF h = g THEN WriteNodes(Objs[g], c.arg[1]) ELSE Objs[h]]
  BY DEF Wrote
<1> QED  BY <1>2, <1>6, <1>7, <1>8

(* A batch of writes to stores that exist writes both, in order. *)
LEMMA TwoWritten ==
    ASSUME Untimed, NEW c, NEW g \in Handles, NEW h \in Handles, c.hs[1] = g, c.hs[2] = h,
           IsTree(Objs[g]), IsTree(Objs[h]), Objs = [k \in Handles |-> Objs[k]]
    PROVE  SI!AfterWrites(c, 2) = Wrote(Wrote(Objs, g, c.arg[1]), h, c.arg[2])
<1>1. 1 .. 2 = {1, 2} /\ \A k \in Handles : (\A i \in 1 .. 2 : c.hs[i] # k) <=> k \notin {g, h}
  OBVIOUS
<1> DEFINE A == SI!AfterWrites(c, 2)
           B == Wrote(Wrote(Objs, g, c.arg[1]), h, c.arg[2])
           w(k, x) == {i \in 1 .. 2 : c.hs[i] = k /\ x \in DOMAIN c.arg[i]}
           new(k, x) == IF k = h /\ x \in DOMAIN c.arg[2] THEN c.arg[2][x]
                        ELSE IF k = g /\ x \in DOMAIN c.arg[1] THEN c.arg[1][x]
                        ELSE Objs[k].nodes[x]
<1>2. ASSUME NEW k \in Handles, k \notin {g, h} PROVE A[k] = Objs[k]
  BY <1>1, <1>2 DEF SI!AfterWrites, Untimed
<1>3. ASSUME NEW k \in {g, h}, NEW x
      PROVE  (IF w(k, x) = {} THEN Objs[k].nodes[x] ELSE c.arg[SI!Last(w(k, x))][x]) = new(k, x)
  <2>1. CASE k = h /\ x \in DOMAIN c.arg[2]
    <3>1. 2 \in w(k, x) /\ \A i \in w(k, x) : 2 >= i
      BY <1>1, <2>1
    <3>2. SI!Last(w(k, x)) = 2
      BY <1>1, <3>1 DEF SI!Last
    <3> QED  BY <2>1, <3>1, <3>2
  <2>2. CASE ~(k = h /\ x \in DOMAIN c.arg[2]) /\ k = g /\ x \in DOMAIN c.arg[1]
    <3>1. w(k, x) = {1}
      BY <1>1, <2>2
    <3>2. SI!Last(w(k, x)) = 1
      BY <3>1 DEF SI!Last
    <3> QED  BY <2>2, <3>1, <3>2
  <2>3. CASE ~(k = h /\ x \in DOMAIN c.arg[2]) /\ ~(k = g /\ x \in DOMAIN c.arg[1])
    <3>1. w(k, x) = {}
      BY <1>1, <2>3
    <3> QED  BY <2>3, <3>1
  <2> QED  BY <2>1, <2>2, <2>3
<1>4. ASSUME NEW k \in {g, h}
      PROVE  A[k] = [Objs[k] EXCEPT !.nodes = [x \in DOMAIN Objs[k].nodes |-> new(k, x)]]
  <2>1. A[k] = [Objs[k] EXCEPT !.nodes = [x \in DOMAIN Objs[k].nodes |->
                   IF w(k, x) = {} THEN Objs[k].nodes[x] ELSE c.arg[SI!Last(w(k, x))][x]]]
    <3>1. k \in Handles /\ ~(\A i \in 1 .. 2 : c.hs[i] # k)
      BY <1>1
    <3> QED  BY <3>1 DEF SI!AfterWrites, Untimed
  <2>2. [x \in DOMAIN Objs[k].nodes |->
            IF w(k, x) = {} THEN Objs[k].nodes[x] ELSE c.arg[SI!Last(w(k, x))][x]]
        = [x \in DOMAIN Objs[k].nodes |-> new(k, x)]
    <3> HIDE DEF w, new
    <3> QED  BY <1>3
  <2> QED  BY <2>1, <2>2
<1>5. DOMAIN A = Handles /\ A = [k \in Handles |-> A[k]]
  BY DEF SI!AfterWrites
<1>6. B = [k \in Handles |-> B[k]] /\ \A k \in Handles : k \notin {g, h} => B[k] = Objs[k]
  BY DEF Wrote
<1>7. ASSUME NEW k \in {g, h}
      PROVE  B[k] = [Objs[k] EXCEPT !.nodes = [x \in DOMAIN Objs[k].nodes |-> new(k, x)]]
  <2>1. CASE g # h
    BY <1>7, <2>1 DEF Wrote, WriteNodes
  <2>2. CASE g = h
    <3> DEFINE u == WriteNodes(Objs[g], c.arg[1])
    <3>1. B[k] = WriteNodes(u, c.arg[2])
      BY <2>2 DEF Wrote
    <3>2. u.nodes = [x \in DOMAIN Objs[g].nodes |->
                        IF x \in DOMAIN c.arg[1] THEN c.arg[1][x] ELSE Objs[g].nodes[x]]
      BY DEF WriteNodes, IsTree
    <3>3. u = [Objs[g] EXCEPT !.nodes = u.nodes]
      BY <3>2 DEF WriteNodes
    <3> HIDE DEF u
    <3>4. WriteNodes(u, c.arg[2]) = [Objs[g] EXCEPT !.nodes =
            [x \in DOMAIN u.nodes |-> IF x \in DOMAIN c.arg[2] THEN c.arg[2][x] ELSE u.nodes[x]]]
      BY <3>3 DEF WriteNodes, IsTree
    <3>5. [x \in DOMAIN u.nodes |-> IF x \in DOMAIN c.arg[2] THEN c.arg[2][x] ELSE u.nodes[x]]
          = [x \in DOMAIN Objs[g].nodes |-> new(g, x)]
      BY <2>2, <3>2
    <3> QED  BY <2>2, <3>1, <3>4, <3>5
  <2> QED  BY <2>1, <2>2
<1> HIDE DEF A, B, new
<1>8. \A k \in Handles : A[k] = B[k]
  BY <1>2, <1>4, <1>6, <1>7
<1>9. A = B
  BY <1>5, <1>6, <1>8
<1> QED  BY <1>9 DEF A, B

(* What a batch of writes does, in the three cases. *)
LEMMA EffectWrites ==
    ASSUME Untimed, NEW c, c.op = "BATCH_WRITE", NEW g \in Handles \cup {LocalStore},
           NEW h \in Handles \cup {LocalStore}, c.hs = <<g, h>>,
           Objs = [k \in Handles |-> Objs[k]],
           \A k \in Handles : Objs[k] = NoTree \/ IsTree(Objs[k]),
           \/ SI!Tree(g) = NoTree /\ Objs' = Objs /\ Phase' = Answered(c, Threw)
           \/ /\ SI!Tree(g) # NoTree /\ SI!Tree(h) = NoTree
              /\ Objs' = Wrote(Objs, g, c.arg[1]) /\ Phase' = Answered(c, Threw)
           \/ /\ SI!Tree(g) # NoTree /\ SI!Tree(h) # NoTree
              /\ Objs' = Wrote(Wrote(Objs, g, c.arg[1]), h, c.arg[2])
              /\ Phase' = Answered(c, Void)
    PROVE  SI!Effect(c)
<1> DEFINE bad == {i \in DOMAIN c.hs : SI!Tree(c.hs[i]) = NoTree}
<1>1. DOMAIN c.hs = {1, 2} /\ Len(c.hs) = 2 /\ c.hs[1] = g /\ c.hs[2] = h
  OBVIOUS
<1>2. \A k : SI!Tree(k) # NoTree => k \in Handles /\ IsTree(Objs[k])
  BY DEF SI!Tree, Untimed
<1>3. CASE SI!Tree(g) = NoTree
  <2>1. 1 \in bad /\ \A j \in bad : 1 <= j
    BY <1>1, <1>3
  <2>2. SI!First(bad) = 1
    BY <1>1, <2>1 DEF SI!First
  <2>3. Objs' = SI!AfterWrites(c, SI!First(bad) - 1) /\ Phase' = Answered(c, Threw) /\ bad # {}
    BY <1>3, <2>1, <2>2, NothingWritten
  <2> QED  BY <2>3 DEF SI!Effect, SI!Answered, Answered, Untimed
<1>4. CASE SI!Tree(g) # NoTree /\ SI!Tree(h) = NoTree
  <2>1. bad = {2}
    BY <1>1, <1>4
  <2>2. SI!First(bad) = 2
    BY <2>1 DEF SI!First
  <2>3. Objs' = SI!AfterWrites(c, SI!First(bad) - 1) /\ Phase' = Answered(c, Threw) /\ bad # {}
    BY <1>1, <1>2, <1>4, <2>1, <2>2, OneWritten
  <2> QED  BY <2>3 DEF SI!Effect, SI!Answered, Answered, Untimed
<1>5. CASE SI!Tree(g) # NoTree /\ SI!Tree(h) # NoTree
  <2>1. bad = {}
    BY <1>1, <1>5
  <2>2. Objs' = SI!AfterWrites(c, Len(c.hs)) /\ Phase' = Answered(c, Void)
    BY <1>1, <1>2, <1>5, TwoWritten
  <2> QED  BY <2>1, <2>2 DEF SI!Effect, SI!Answered, Answered, Untimed
<1> QED  BY <1>3, <1>4, <1>5

-----------------------------------------------------------------------------
(* The same in the next state. *)
LEMMA ObjsViewNext ==
    ASSUME HandlesAreHandles
    PROVE  (Mapped => Objs = IF Connected THEN View(HandleNow, stores) ELSE Gone)'
<1>1. Mapped => Objs = IF Connected THEN View(HandleNow, stores) ELSE Gone
  BY ObjsView
<1> QED  BY <1>1, PTL

(* The phase in the next state. *)
LEMMA PhasesNext ==
    (/\ call = NoCall => Phase = Idle
     /\ call # NoCall /\ toClient # <<>> =>
           Phase = Answered(call, AnswerOf(call, Head(toClient)))
     /\ call # NoCall /\ toClient = <<>> /\ toServer # <<>> => Phase = Called(call)
     /\ call # NoCall /\ toClient = <<>> /\ toServer = <<>> => Phase = Lost(call))'
BY Phases, PTL

(* A store that changes changes the one object it belongs to. *)
LEMMA ViewOfChange ==
    ASSUME NEW hd, NEW st, NEW h \in Handles, NEW u, Paired(hd, st), hd[h] # NoHandle
    PROVE  View(hd, [st EXCEPT ![hd[h].id] = u]) = [View(hd, st) EXCEPT ![h] = u]
<1>1. hd[h].id \in DOMAIN st
  BY DEF Paired, Backs
<1>2. \A g \in Handles : hd[g] # NoHandle /\ g # h => hd[g].id # hd[h].id /\ hd[g].id \in DOMAIN st
  BY DEF Paired, Backs
<1> DEFINE sv == [st EXCEPT ![hd[h].id] = u]
<1>3. sv[hd[h].id] = u /\ \A g \in Handles : hd[g] # NoHandle /\ g # h => sv[hd[g].id] = st[hd[g].id]
  BY <1>1, <1>2
<1> HIDE DEF sv
<1>4. View(hd, sv) = [View(hd, st) EXCEPT ![h] = u]
  BY <1>3 DEF View
<1> QED  BY <1>4 DEF sv

(* Between the request and the answer, as StorageInterface sees it. *)
Executes(m, r) ==
    /\ Served(m) /\ Untimed
    /\ Objs = View(handle, stores) /\ Objs' = View(After(call, r), stores')
    /\ Send(r) /\ r.type \in {"OK", "ERROR"}
    /\ Phase' = Answered(call, AnswerOf(call, r))

(* The objects that exist are trees. *)
LEMMA ObjsAreTrees ==
    ASSUME TreesAreTrees, NEW m, NEW r, Executes(m, r)
    PROVE  /\ Objs = [k \in Handles |-> Objs[k]]
           /\ \A h \in Handles :
                 IF handle[h] # NoHandle
                 THEN Objs[h] = stores[handle[h].id] /\ IsTree(Objs[h]) /\ Objs[h] # NoTree
                      /\ handle[h].id \in DOMAIN stores
                 ELSE Objs[h] = NoTree
           /\ \A k : SI!Tree(k) = IF k \in Handles THEN Objs[k] ELSE NoTree
           /\ -1 \notin DOMAIN stores
<1>1. Objs = [k \in Handles |-> Objs[k]]
  BY DEF Executes, View
<1>2. ASSUME NEW h \in Handles, handle[h] # NoHandle
      PROVE  Objs[h] = stores[handle[h].id] /\ IsTree(Objs[h]) /\ Objs[h] # NoTree
             /\ handle[h].id \in DOMAIN stores
  <2>1. handle[h].id \in DOMAIN stores
    BY <1>2 DEF Executes, Served, Paired, Backs
  <2>2. Objs[h] = stores[handle[h].id] /\ IsTree(stores[handle[h].id])
    BY <1>2, <2>1 DEF Executes, Served, Numbered, View
  <2>3. Objs[h] # NoTree
    BY <2>2 DEF IsTree, TreesAreTrees
  <2> QED  BY <2>1, <2>2, <2>3
<1>3. ASSUME NEW h \in Handles, handle[h] = NoHandle PROVE Objs[h] = NoTree
  BY <1>3 DEF Executes, View
<1>4. \A k : SI!Tree(k) = IF k \in Handles THEN Objs[k] ELSE NoTree
  BY DEF SI!Tree, Executes, Untimed
<1>5. -1 \notin DOMAIN stores
  BY DEF Executes, Served, Numbered
<1> QED  BY <1>1, <1>2, <1>3, <1>4, <1>5

(* The answer is the one that was sent. *)
LEMMA SentIs ==
    ASSUME NEW m, NEW r, NEW q, Executes(m, r), Send(q)
    PROVE  q = r
<1>1. toClient' = <<r>> /\ toClient' = <<q>>
  BY OneMessage DEF Executes, Served, Send
<1> QED  BY <1>1

(* A request about one store's content is executed as the interface says. *)
LEMMA ContentExecuted ==
    ASSUME HandlesAreHandles, TreesAreTrees, NEW m, NEW r, Executes(m, r),
           \/ DoFillData(m) \/ DoBulkLoad(m) \/ DoReadPath(m) \/ DoReadMulti(m) \/ DoWrite(m)
           \/ DoReset(m)
    PROVE  SI!Effect(call)
<1>0. m.op = call.op /\ m.arg = call.arg
  BY DEF Executes, Served, MessageOf
<1>1. call.op \in OneStoreOps \ {"DESTROY"}
  BY <1>0 DEF DoFillData, DoBulkLoad, DoReadPath, DoReadMulti, DoWrite, DoReset, OneStoreOps
<1>2. PICK h \in Handles : /\ handle[h] # NoHandle /\ call.hs = <<h>>
                           /\ Backs(handle[h], stores) /\ m.ids[1] = handle[h].id
  BY <1>1, NamesStore DEF Executes
<1>3. Objs[h] = stores[handle[h].id] /\ Objs[h] # NoTree
  BY <1>2, ObjsAreTrees
<1> DEFINE t == Objs[h]
<1>4. ASSUME NEW u, NEW fmt, NEW val, OnStore(m, u, fmt, val)
      PROVE  /\ Objs' = [Objs EXCEPT ![h] = u] /\ Phase' = Answered(call, val)
  <2>1. Send(OkAnswer(fmt, val, <<>>))
    BY <1>4 DEF OnStore, SendOk
  <2>2. r = OkAnswer(fmt, val, <<>>)
    BY <2>1, SentIs
  <2>3. Phase' = Answered(call, val)
    BY <2>2 DEF Executes, AnswerOf, OkAnswer
  <2>4. stores' = [stores EXCEPT ![handle[h].id] = u]
    BY <1>2, <1>4 DEF OnStore
  <2>5. View(handle, stores') = [Objs EXCEPT ![h] = u]
    <3>1. Paired(handle, stores) /\ Objs = View(handle, stores)
      BY DEF Executes, Served
    <3>2. View(handle, [stores EXCEPT ![handle[h].id] = u]) = [View(handle, stores) EXCEPT ![h] = u]
      BY <1>2, <3>1, ViewOfChange
    <3> QED  BY <2>4, <3>1, <3>2
  <2>6. View(After(call, r), stores') = View(handle, stores')
    <3>1. CASE call.op # "RESET"
      BY <1>1, <2>2, <3>1 DEF After, Remember, OkAnswer, OneStoreOps
    <3>2. CASE call.op = "RESET"
      <4> DEFINE hd == After(call, r)
      <4>1. hd = [handle EXCEPT ![h].level = r.val[1], ![h].bucket_size = call.arg.bucket_size]
        BY <1>2, <2>2, <3>2 DEF After, Remember, OkAnswer
      <4>2. DOMAIN handle = Handles /\ IsHandle(handle[h])
        BY <1>2 DEF Executes, Served, Paired, Backs
      <4>3. \A g \in Handles : g # h => hd[g] = handle[g]
        BY <4>1, <4>2
      <4>4. hd[h] = [handle[h] EXCEPT !.level = r.val[1], !.bucket_size = call.arg.bucket_size]
        BY <4>1, <4>2
      <4>5. hd[h] # NoHandle /\ hd[h].id = handle[h].id
        BY <4>2, <4>4 DEF IsHandle, HandlesAreHandles
      <4> HIDE DEF hd
      <4>6. View(hd, stores') = View(handle, stores')
        BY <1>2, <4>3, <4>5 DEF View
      <4> QED  BY <4>6 DEF hd
    <3> QED  BY <3>1, <3>2
  <2> QED  BY <2>3, <2>5, <2>6 DEF Executes
<1>5. ASSUME NEW u, NEW fmt, NEW val, OnStore(m, u, fmt, val), ChangesTo(call, t, u, val)
      PROVE  SI!Effect(call)
  <2>1. Objs' = [Objs EXCEPT ![h] = u] /\ Phase' = Answered(call, val) /\ Untimed
    BY <1>4, <1>5 DEF Executes
  <2> QED  BY <1>2, <1>3, <1>5, <2>1, EffectOnOne
<1>6. CASE DoReset(m)
  <2>1. OnStore(m, NewTree(m.arg), "geometry", Geometry(NewTree(m.arg))) /\ call.op = "RESET"
    BY <1>0, <1>6 DEF DoReset
  <2> QED  BY <1>0, <1>5, <2>1 DEF ChangesTo
<1>7. CASE DoFillData(m)
  <2>1. OnStore(m, Fill(t, m.arg), "void", Void) /\ call.op = "FILL_DATA"
    BY <1>0, <1>2, <1>3, <1>7 DEF DoFillData
  <2> QED  BY <1>0, <1>5, <2>1 DEF ChangesTo
<1>8. CASE DoBulkLoad(m)
  <2>1. OnStore(m, Load(t, m.arg), "placed", Placed(Load(t, m.arg))) /\ call.op = "BULK_LOAD"
    BY <1>0, <1>2, <1>3, <1>8 DEF DoBulkLoad
  <2> QED  BY <1>0, <1>5, <2>1 DEF ChangesTo
<1>9. CASE DoReadPath(m)
  <2>1. /\ OnStore(m, t, "path", ReadNodes(t, PathNodes(t.level, m.arg)))
        /\ call.op = "READ_PATH"
    BY <1>0, <1>2, <1>3, <1>9 DEF DoReadPath
  <2> QED  BY <1>0, <1>5, <2>1 DEF ChangesTo
<1>10. CASE DoReadMulti(m)
  <2>1. /\ OnStore(m, t, "path",
                  ReadNodes(t, MergedNodes(t.level, {m.arg[i] : i \in DOMAIN m.arg})))
        /\ call.op = "READ_MULTI"
    BY <1>0, <1>2, <1>3, <1>10 DEF DoReadMulti
  <2> QED  BY <1>0, <1>5, <2>1 DEF ChangesTo
<1>11. CASE DoWrite(m)
  <2>1. /\ OnStore(m, WriteNodes(t, m.arg), "void", Void)
        /\ call.op \in {"WRITE_PATH", "WRITE_MULTI"}
    BY <1>0, <1>2, <1>3, <1>11 DEF DoWrite
  <2> QED  BY <1>0, <1>5, <2>1 DEF ChangesTo
<1> QED  BY <1>6, <1>7, <1>8, <1>9, <1>10, <1>11

(* Objects that are made and destroyed. *)
LEMMA MakesExecuted ==
    ASSUME HandlesAreHandles, TreesAreTrees, NEW m, NEW r, Executes(m, r),
           DoCreate(m) \/ DoDestroy(m)
    PROVE  SI!Effect(call)
<1>0. m.op = call.op /\ m.arg = call.arg /\ DOMAIN handle = Handles
  BY DEF Executes, Served, MessageOf, Paired
<1>1. CASE DoCreate(m)
  <2> DEFINE t == NewTree(m.arg)
             q == OkAnswer("store", <<Geometry(t)>>, <<next_id>>)
             o == [id |-> next_id, level |-> t.level, bucket_size |-> call.arg.bucket_size]
             hd == After(call, r)
  <2>1. call.op = "CREATE" /\ Send(q)
    BY <1>0, <1>1 DEF DoCreate, SendOk
  <2>2. r = q
    BY <2>1, SentIs
  <2>3. PICK h \in Handles : h \notin Live /\ call.hs = <<h>>
    BY <2>1 DEF Executes, Served, Legal, OneStoreOps
  <2>4. hd = [handle EXCEPT ![h] = o]
    BY <1>0, <2>1, <2>2, <2>3 DEF After, Remember, OkAnswer, Geometry
  <2>5. stores' = [i \in DOMAIN stores \cup {next_id} |-> IF i = next_id THEN t ELSE stores[i]]
    BY <1>1 DEF DoCreate
  <2> HIDE DEF t
  <2>6. hd[h] = o /\ hd[h] # NoHandle /\ \A g \in Handles : g # h => hd[g] = handle[g]
    BY <1>0, <2>4 DEF HandlesAreHandles
  <2> HIDE DEF hd
  <2>7. stores'[hd[h].id] = t
    BY <2>5, <2>6
  <2>8. \A g \in Handles : handle[g] # NoHandle =>
            handle[g].id \in DOMAIN stores /\ handle[g].id # next_id
    BY DEF Executes, Served, Paired, Backs, Numbered
  <2>9. \A g \in Handles : handle[g] # NoHandle => stores'[handle[g].id] = stores[handle[g].id]
    BY <2>5, <2>8
  <2>10. View(hd, stores') = [View(handle, stores) EXCEPT ![h] = t]
    BY <2>6, <2>7, <2>9 DEF View
  <2>11. Objs' = [Objs EXCEPT ![h] = NewTree(call.arg)] /\ Untimed
    BY <1>0, <2>10 DEF Executes, hd, t
  <2>12. Phase' = Answered(call, <<Geometry(NewTree(call.arg))>>)
    BY <1>0, <2>2 DEF Executes, AnswerOf, OkAnswer, t
  <2> QED  BY <2>1, <2>3, <2>11, <2>12, EffectMakes
<1>2. CASE DoDestroy(m)
  <2> DEFINE q == OkAnswer("void", Void, <<>>)
             hd == After(call, r)
  <2>1. call.op = "DESTROY" /\ Send(q)
    BY <1>0, <1>2 DEF DoDestroy, SendOk
  <2>2. r = q
    BY <2>1, SentIs
  <2>3. PICK h \in Handles : handle[h] # NoHandle /\ call.hs = <<h>> /\ m.ids[1] = handle[h].id
    BY <2>1, NamesStore DEF Executes, OneStoreOps
  <2>4. hd = [handle EXCEPT ![h] = NoHandle]
    BY <2>1, <2>2, <2>3 DEF After, Remember, OkAnswer
  <2>5. stores' = [i \in DOMAIN stores \ {handle[h].id} |-> stores[i]]
    BY <1>2, <2>3 DEF DoDestroy
  <2>6. hd[h] = NoHandle /\ \A g \in Handles : g # h => hd[g] = handle[g]
    BY <1>0, <2>4
  <2> HIDE DEF hd
  <2>7. \A g \in Handles : handle[g] # NoHandle /\ g # h =>
            handle[g].id \in DOMAIN stores \ {handle[h].id}
    BY <2>3 DEF Executes, Served, Paired, Backs
  <2>8. \A g \in Handles : handle[g] # NoHandle /\ g # h =>
            stores'[handle[g].id] = stores[handle[g].id]
    BY <2>5, <2>7
  <2>9. View(hd, stores') = [View(handle, stores) EXCEPT ![h] = NoTree]
    BY <2>6, <2>8 DEF View
  <2>10. Objs' = [Objs EXCEPT ![h] = NoTree] /\ Untimed
    BY <2>9 DEF Executes, hd
  <2>11. Phase' = Answered(call, Void)
    BY <2>2 DEF Executes, AnswerOf, OkAnswer
  <2> QED  BY <2>1, <2>3, <2>10, <2>11, EffectMakes
<1> QED  BY <1>1, <1>2

(* The ids of a batch name the stores of its objects, and only those. *)
LEMMA BatchIds ==
    ASSUME TreesAreTrees, NEW m, NEW r, Executes(m, r),
           call.op \in {"BATCH_READ", "BATCH_WRITE"}
    PROVE  \E g, h \in Handles \cup {LocalStore} :
              /\ call.hs = <<g, h>> /\ DOMAIN m.ids = {1, 2}
              /\ \A i \in {1, 2} :
                    /\ m.ids[i] \in DOMAIN stores <=> SI!Tree(call.hs[i]) # NoTree
                    /\ m.ids[i] \in DOMAIN stores =>
                          /\ call.hs[i] \in Handles /\ handle[call.hs[i]] # NoHandle
                          /\ m.ids[i] = handle[call.hs[i]].id
                          /\ SI!Tree(call.hs[i]) = stores[m.ids[i]]
<1>1. PICK g, h \in Live \cup {LocalStore} : call.hs = <<g, h>>
  BY DEF Executes, Served, Legal, OneStoreOps
<1>2. m.ids = [i \in DOMAIN call.hs |-> IdOf(call.hs[i])]
  BY DEF Executes, Served, MessageOf
<1>3. DOMAIN call.hs = {1, 2} /\ \A i \in {1, 2} : call.hs[i] \in Live \cup {LocalStore}
  BY <1>1
<1>4. \A k \in Live \cup {LocalStore} :
         IF k = LocalStore THEN IdOf(k) = -1 /\ SI!Tree(k) = NoTree /\ -1 \notin DOMAIN stores
         ELSE /\ k \in Handles /\ handle[k] # NoHandle /\ IdOf(k) = handle[k].id
              /\ IdOf(k) \in DOMAIN stores /\ SI!Tree(k) = stores[IdOf(k)]
              /\ SI!Tree(k) # NoTree
  <2>1. LocalStore \notin Handles
    BY NetAssumption
  <2> QED  BY <2>1, ObjsAreTrees DEF Live, IdOf
<1>5. DOMAIN m.ids = {1, 2} /\ \A i \in {1, 2} : m.ids[i] = IdOf(call.hs[i])
  BY <1>2, <1>3
<1>6. g \in Handles \cup {LocalStore} /\ h \in Handles \cup {LocalStore}
  BY DEF Live
<1> QED  BY <1>1, <1>3, <1>4, <1>5, <1>6

(* Batches of reads, and requests the server refuses. *)
LEMMA ReadsExecuted ==
    ASSUME TreesAreTrees, NEW m, NEW r, Executes(m, r), DoBatchRead(m) \/ DoBadId(m)
    PROVE  SI!Effect(call)
<1>0. m.op = call.op /\ m.arg = call.arg
  BY DEF Executes, Served, MessageOf
<1>1. ~DoBadId(m)
  BY <1>0, NamesStore DEF DoBadId, OneStoreOps, Backs, Executes
<1>2. call.op = "BATCH_READ" /\ DoBatchRead(m)
  BY <1>0, <1>1 DEF DoBatchRead
<1>3. PICK g, h \in Handles \cup {LocalStore} :
         /\ call.hs = <<g, h>> /\ DOMAIN m.ids = {1, 2}
         /\ \A i \in {1, 2} :
               /\ m.ids[i] \in DOMAIN stores <=> SI!Tree(call.hs[i]) # NoTree
               /\ m.ids[i] \in DOMAIN stores => SI!Tree(call.hs[i]) = stores[m.ids[i]]
  BY <1>2, BatchIds
<1>4. CASE Good(m)
  <2> DEFINE val == [i \in DOMAIN m.ids |->
               LET t == stores[m.ids[i]] IN ReadNodes(t, PathNodes(t.level, m.arg[i]))]
             q == OkAnswer("paths", val, <<>>)
             T == [i \in {1, 2} |-> SI!Tree(call.hs[i])]
  <2>1. Send(q) /\ stores' = stores
    BY <1>2, <1>4 DEF DoBatchRead, SendOk
  <2>2. r = q
    BY <2>1, SentIs
  <2>3. Phase' = Answered(call, val) /\ Untimed
    BY <2>2 DEF Executes, AnswerOf, OkAnswer
  <2>4. Objs' = Objs
    BY <1>2, <2>1, <2>2 DEF Executes, After, Remember, OkAnswer
  <2>5. \A i \in {1, 2} : T[i] # NoTree /\ T[i] = stores[m.ids[i]]
    BY <1>3, <1>4 DEF Good
  <2>6. val = [i \in {1, 2} |-> ReadNodes(T[i], PathNodes(T[i].level, call.arg[i]))]
    BY <1>0, <1>3, <2>5
  <2> HIDE DEF val
  <2> QED  BY <1>2, <1>3, <2>3, <2>4, <2>5, <2>6, EffectReads
<1>5. CASE ~Good(m)
  <2> DEFINE T == [i \in {1, 2} |-> SI!Tree(call.hs[i])]
  <2>1. Send(ErrAnswer) /\ stores' = stores
    BY <1>2, <1>5 DEF DoBatchRead, SendErr
  <2>2. r = ErrAnswer
    BY <2>1, SentIs
  <2>3. Phase' = Answered(call, Threw) /\ Untimed
    BY <2>2 DEF Executes, AnswerOf, ErrAnswer
  <2>4. Objs' = Objs
    BY <2>1, <2>2 DEF Executes, After, ErrAnswer
  <2>5. T[1] = NoTree \/ T[2] = NoTree
    BY <1>3, <1>5 DEF Good
  <2> QED  BY <1>2, <1>3, <2>3, <2>4, <2>5, EffectReads
<1> QED  BY <1>4, <1>5

(* A write to the store of an object. *)
LEMMA ViewOfWrite ==
    ASSUME NEW hd, NEW st, NEW h \in Handles, NEW d, Paired(hd, st), hd[h] # NoHandle,
           \A i \in DOMAIN st : IsTree(st[i])
    PROVE  LET sv == [st EXCEPT ![hd[h].id] = WriteNodes(st[hd[h].id], d)]
           IN  /\ View(hd, sv) = Wrote(View(hd, st), h, d)
               /\ Paired(hd, sv) /\ \A i \in DOMAIN sv : IsTree(sv[i])
               /\ DOMAIN sv = DOMAIN st
<1> DEFINE sv == [st EXCEPT ![hd[h].id] = WriteNodes(st[hd[h].id], d)]
<1>1. hd[h].id \in DOMAIN st /\ View(hd, st)[h] = st[hd[h].id]
  BY DEF Paired, Backs, View
<1>2. View(hd, sv) = Wrote(View(hd, st), h, d)
  BY <1>1, ViewOfChange DEF Wrote
<1>3. DOMAIN sv = DOMAIN st /\ \A i \in DOMAIN st : SameShape(st[i], sv[i])
  BY <1>1, ShapesKept
<1> HIDE DEF sv
<1>4. Paired(hd, sv)
  BY <1>3, PairedKept
<1>5. \A i \in DOMAIN sv : IsTree(sv[i])
  BY <1>3 DEF SameShape
<1> QED  BY <1>2, <1>3, <1>4, <1>5 DEF sv

(* Batches of writes: each before the first bad id is done. *)
LEMMA WritesExecuted ==
    ASSUME TreesAreTrees, NEW m, NEW r, Executes(m, r), DoBatchWrite(m)
    PROVE  SI!Effect(call)
<1>0. m.op = call.op /\ m.arg = call.arg /\ call.op = "BATCH_WRITE" /\ Untimed
  BY DEF Executes, Served, MessageOf, DoBatchWrite
<1>1. PICK g, h \in Handles \cup {LocalStore} :
         /\ call.hs = <<g, h>> /\ DOMAIN m.ids = {1, 2}
         /\ \A i \in {1, 2} :
               /\ m.ids[i] \in DOMAIN stores <=> SI!Tree(call.hs[i]) # NoTree
               /\ m.ids[i] \in DOMAIN stores =>
                     /\ call.hs[i] \in Handles /\ handle[call.hs[i]] # NoHandle
                     /\ m.ids[i] = handle[call.hs[i]].id
                     /\ SI!Tree(call.hs[i]) = stores[m.ids[i]]
  BY <1>0, BatchIds
<1>2. call.hs[1] = g /\ call.hs[2] = h
  BY <1>1
<1>3. /\ Objs = [k \in Handles |-> Objs[k]]
      /\ \A k \in Handles : Objs[k] = NoTree \/ IsTree(Objs[k])
      /\ Objs = View(handle, stores) /\ Paired(handle, stores)
      /\ \A i \in DOMAIN stores : IsTree(stores[i])
  BY ObjsAreTrees DEF Executes, Served, Numbered
<1> DEFINE id1 == m.ids[1]
           id2 == m.ids[2]
           d1  == call.arg[1]
           d2  == call.arg[2]
           st1 == [stores EXCEPT ![id1] = WriteNodes(stores[id1], d1)]
           st2 == [st1 EXCEPT ![id2] = WriteNodes(st1[id2], d2)]
<1>4. ASSUME NEW st, stores' = st, Send(ErrAnswer)
      PROVE  Objs' = View(handle, st) /\ Phase' = Answered(call, Threw)
  <2>1. r = ErrAnswer
    BY <1>4, SentIs
  <2> QED  BY <1>4, <2>1 DEF Executes, After, AnswerOf, ErrAnswer
<1>5. ASSUME NEW st, stores' = st, Send(OkAnswer("void", Void, <<>>))
      PROVE  Objs' = View(handle, st) /\ Phase' = Answered(call, Void)
  <2>1. r = OkAnswer("void", Void, <<>>)
    BY <1>5, SentIs
  <2>2. After(call, r) = handle /\ AnswerOf(call, r) = Void
    BY <1>0, <2>1 DEF After, Remember, AnswerOf, OkAnswer
  <2> QED  BY <1>5, <2>2 DEF Executes
<1>6. CASE id1 \notin DOMAIN stores
  <2>1. WriteLoop(m) = [ok |-> FALSE, st |-> stores]
    BY <1>6 DEF WriteLoop, WriteOne
  <2>2. stores' = stores /\ Send(ErrAnswer)
    BY <2>1 DEF DoBatchWrite, SendErr
  <2>3. Objs' = Objs /\ Phase' = Answered(call, Threw) /\ SI!Tree(g) = NoTree
    BY <1>1, <1>2, <1>3, <1>4, <1>6, <2>2
  <2> QED  BY <1>0, <1>1, <1>3, <2>3, EffectWrites
<1>7. ASSUME id1 \in DOMAIN stores
      PROVE  /\ g \in Handles /\ handle[g] # NoHandle /\ id1 = handle[g].id
             /\ View(handle, st1) = Wrote(Objs, g, d1) /\ Paired(handle, st1)
             /\ \A i \in DOMAIN st1 : IsTree(st1[i])
             /\ DOMAIN st1 = DOMAIN stores /\ SI!Tree(g) # NoTree
  <2>1. g \in Handles /\ handle[g] # NoHandle /\ id1 = handle[g].id /\ SI!Tree(g) # NoTree
    BY <1>1, <1>2, <1>7
  <2> QED  BY <1>3, <2>1, ViewOfWrite
<1>8. CASE id1 \in DOMAIN stores /\ id2 \notin DOMAIN stores
  <2>1. WriteLoop(m) = [ok |-> FALSE, st |-> st1]
    BY <1>0, <1>8 DEF WriteLoop, WriteOne
  <2>2. stores' = st1 /\ Send(ErrAnswer)
    BY <2>1 DEF DoBatchWrite, SendErr
  <2> HIDE DEF st1
  <2>3. Objs' = Wrote(Objs, g, d1) /\ Phase' = Answered(call, Threw)
    BY <1>4, <1>7, <1>8, <2>2
  <2>4. SI!Tree(g) # NoTree /\ SI!Tree(h) = NoTree
    BY <1>1, <1>2, <1>7, <1>8
  <2> QED  BY <1>0, <1>1, <1>3, <2>3, <2>4, EffectWrites
<1>9. CASE id1 \in DOMAIN stores /\ id2 \in DOMAIN stores
  <2>1. WriteLoop(m) = [ok |-> TRUE, st |-> st2]
    BY <1>0, <1>9 DEF WriteLoop, WriteOne
  <2>2. stores' = st2 /\ Send(OkAnswer("void", Void, <<>>))
    BY <2>1 DEF DoBatchWrite, SendOk
  <2>3. h \in Handles /\ handle[h] # NoHandle /\ id2 = handle[h].id /\ SI!Tree(h) # NoTree
    BY <1>1, <1>2, <1>9
  <2> HIDE DEF st1
  <2>4. View(handle, st2) = Wrote(Wrote(Objs, g, d1), h, d2)
    <3>1. Paired(handle, st1) /\ \A i \in DOMAIN st1 : IsTree(st1[i])
      BY <1>7, <1>9
    <3>2. View(handle, [st1 EXCEPT ![handle[h].id] = WriteNodes(st1[handle[h].id], d2)])
          = Wrote(View(handle, st1), h, d2)
      BY <2>3, <3>1, ViewOfWrite
    <3>3. st2 = [st1 EXCEPT ![handle[h].id] = WriteNodes(st1[handle[h].id], d2)]
      BY <2>3
    <3>4. View(handle, st1) = Wrote(Objs, g, d1)
      BY <1>7, <1>9
    <3> QED  BY <3>2, <3>3, <3>4
  <2> HIDE DEF st2
  <2>5. Objs' = Wrote(Wrote(Objs, g, d1), h, d2) /\ Phase' = Answered(call, Void)
    BY <1>5, <2>2, <2>4
  <2>6. SI!Tree(g) # NoTree
    BY <1>7, <1>9
  <2> QED  BY <1>0, <1>1, <1>3, <2>3, <2>5, <2>6, EffectWrites
<1> QED  BY <1>6, <1>8, <1>9

(* A set-up. *)
LEMMA SetupExecuted ==
    ASSUME HandlesAreHandles, NEW m, NEW r, Executes(m, r), DoSetupBench(m)
    PROVE  SI!Effect(call)
<1>0. m.arg = call.arg /\ call.op = "SETUP_BENCH" /\ Untimed
  BY DEF Executes, Served, MessageOf, DoSetupBench
<1>1. PICK k \in 1 .. Cardinality(Handles) :
         /\ DOMAIN call.arg = 1 .. k /\ DOMAIN call.hs = 1 .. k
         /\ \A i \in 1 .. k : call.hs[i] = HandleSeq[i] /\ call.hs[i] \in Handles
         /\ \A i, j \in 1 .. k : HandleSeq[i] = HandleSeq[j] => i = j
  BY <1>0, CallNames DEF Executes, Served
<1>2. Len(call.arg) = k /\ k \in Nat
  <2>1. Cardinality(Handles) \in Nat
    BY FS_CardinalityType, NetAssumption
  <2>2. \E j \in 1 .. Cardinality(Handles) : DOMAIN call.arg = 1 .. j /\ Len(call.arg) = j
    BY <1>0 DEF Executes, Served, Legal, OneStoreOps
  <2>3. \A j \in 1 .. Cardinality(Handles) : 1 .. j = 1 .. k => j = k
    BY <2>1
  <2> QED  BY <1>1, <2>1, <2>2, <2>3
<1>3. PICK ls \in [1 .. k -> LoadSeqs] :
         /\ \A i \in 1 .. k : \A j \in DOMAIN ls[i] :
               ls[i][j].leaf < LeafRange(NewTree(call.arg[i]).level)
         /\ stores' = [id \in 0 .. k - 1 |-> Load(NewTree(call.arg[id + 1]), ls[id + 1])]
  <2>1. PICK ls \in [DOMAIN m.arg -> LoadSeqs] :
          /\ \A i \in DOMAIN m.arg : \A j \in DOMAIN ls[i] :
                ls[i][j].leaf < LeafRange(NewTree(m.arg[i]).level)
          /\ stores' = [id \in 0 .. Len(m.arg) - 1 |-> Load(NewTree(m.arg[id + 1]), ls[id + 1])]
    BY DEF DoSetupBench
  <2>2. DOMAIN m.arg = 1 .. k /\ Len(m.arg) = k
    BY <1>0, <1>1, <1>2
  <2>3. /\ ls \in [1 .. k -> LoadSeqs]
        /\ \A i \in 1 .. k : \A j \in DOMAIN ls[i] :
              ls[i][j].leaf < LeafRange(NewTree(call.arg[i]).level)
    BY <1>0, <2>1, <2>2
  <2>4. stores' = [id \in 0 .. k - 1 |-> Load(NewTree(call.arg[id + 1]), ls[id + 1])]
    BY <1>0, <2>1, <2>2
  <2> QED  BY <2>3, <2>4
<1> DEFINE val == [i \in 1 .. k |-> Append(Geometry(NewTree(call.arg[i])), call.arg[i].bucket_size)]
           q   == OkAnswer("blob", val, [i \in 1 .. k |-> i - 1])
           hd  == After(call, r)
           at(h) == CHOOSE j \in 1 .. k : call.hs[j] = h
           new(h) == Load(NewTree(call.arg[at(h)]), ls[at(h)])
<1>4. Send(q)
  BY <1>0, <1>1 DEF DoSetupBench, SendOk
<1>5. r = q
  BY <1>4, SentIs
<1>6. Phase' = Answered(call, val)
  BY <1>5 DEF Executes, AnswerOf, OkAnswer
<1>7. ASSUME NEW h \in Handles, \A i \in 1 .. k : call.hs[i] # h
      PROVE  hd[h] = NoHandle
  <2>1. h \notin {HandleSeq[i] : i \in 1 .. k}
    BY <1>1, <1>7
  <2> QED  BY <1>0, <1>5, <2>1 DEF After, Remember, OkAnswer
<1>8. ASSUME NEW h \in Handles, NEW i \in 1 .. k, call.hs[i] = h
      PROVE  at(h) = i /\ hd[h] # NoHandle /\ hd[h].id = i - 1
  <2>1. at(h) = i /\ (CHOOSE j \in 1 .. k : HandleSeq[j] = h) = i
    BY <1>1, <1>8
  <2>2. h \in {HandleSeq[j] : j \in 1 .. k}
    BY <1>1, <1>8
  <2>3. hd[h] = [id |-> r.ids[i], level |-> r.val[i][1], bucket_size |-> r.val[i][3]]
    BY <1>0, <1>5, <2>1, <2>2 DEF After, Remember, OkAnswer
  <2>4. r.ids[i] = i - 1
    BY <1>5 DEF OkAnswer
  <2> QED  BY <2>1, <2>3, <2>4 DEF HandlesAreHandles
<1> HIDE DEF hd, at, val
<1>9. ASSUME NEW h \in Handles, NEW i \in 1 .. k, call.hs[i] = h
      PROVE  stores'[hd[h].id] = new(h)
  <2>1. hd[h].id = i - 1 /\ at(h) = i /\ i - 1 \in 0 .. k - 1 /\ (i - 1) + 1 = i
    BY <1>2, <1>8, <1>9
  <2> QED  BY <1>3, <2>1
<1> HIDE DEF new
<1>10. View(hd, stores') = [h \in Handles |-> IF \A i \in 1 .. k : call.hs[i] # h THEN NoTree
                                              ELSE new(h)]
  BY <1>7, <1>8, <1>9 DEF View
<1>11. Objs' = [h \in Handles |-> IF \A i \in DOMAIN call.hs : call.hs[i] # h THEN NoTree
                  ELSE LET i == CHOOSE j \in DOMAIN call.hs : call.hs[j] = h
                       IN  Load(NewTree(call.arg[i]), ls[i])]
  BY <1>1, <1>10 DEF Executes, hd, new, at
<1>12. Phase' = Answered(call, [i \in DOMAIN call.arg |->
                  Append(Geometry(NewTree(call.arg[i])), call.arg[i].bucket_size)])
  BY <1>1, <1>6 DEF val
<1>13. /\ DOMAIN call.arg = DOMAIN call.hs /\ ls \in [DOMAIN call.arg -> LoadSeqs]
       /\ \A i \in DOMAIN call.arg : \A j \in DOMAIN ls[i] :
             ls[i][j].leaf < LeafRange(NewTree(call.arg[i]).level)
  BY <1>1, <1>3
<1> QED  BY <1>0, <1>11, <1>12, <1>13, EffectSetup

-----------------------------------------------------------------------------
(* Every case of dispatch executes the call as StorageInterface does. *)
LEMMA DispatchExecutes ==
    ASSUME HandlesAreHandles, TreesAreTrees, Untimed, Mapped, Mapped', Dispatch
    PROVE  SI!SINext
<1>1. call # NoCall /\ Connected /\ toClient = <<>> /\ toServer' = <<>>
  BY DispatchServes DEF Mapped
<1>2. PICK m : toServer = <<m>> /\ Served(m)
  BY DispatchServes DEF Mapped
<1>3. PICK r : Send(r) /\ Fits(call, r)
  BY DispatchServes DEF Mapped, Serves
<1>4. Head(toServer) = m /\ toClient' = <<r>> /\ Head(toClient') = r /\ toClient' # <<>>
      /\ toServer # <<>>
  BY <1>1, <1>2, <1>3, OneMessage DEF Send
<1>5. handle' = handle /\ call' = call /\ ret' = ret /\ Connected'
  BY <1>1 DEF Dispatch, clientVars, Connected
<1>6. Phase = Called(call) /\ Phase' = Answered(call, AnswerOf(call, r))
  <2>1. Phase = Called(call)
    BY <1>1, <1>4, Phases
  <2>2. Phase' = Answered(call', AnswerOf(call, Head(toClient))')
    BY <1>1, <1>4, <1>5, PhasesNext DEF Answered
  <2> QED  BY <1>4, <1>5, <2>1, <2>2 DEF AnswerOf
<1>7. Objs = View(handle, stores)
  BY <1>1, ObjsView DEF HandleNow
<1>8. Objs' = View(After(call, r), stores')
  <2>1. HandleNow' = After(call, r)
    BY <1>1, <1>4, <1>5 DEF HandleNow, After, Remember
  <2>2. Objs' = View(HandleNow', stores')
    BY <1>5, ObjsViewNext DEF View
  <2> QED  BY <2>1, <2>2
<1>9. Executes(m, r)
  BY <1>2, <1>3, <1>6, <1>7, <1>8 DEF Executes, Fits, ErrAnswer
<1>10. SI!Effect(call)
  BY <1>4, <1>9, ContentExecuted, MakesExecuted, ReadsExecuted, WritesExecuted, SetupExecuted
  DEF Dispatch
<1> QED  BY <1>1, <1>5, <1>6, <1>10, IsExecute

(* The steps of the callers. *)
LEMMA CallsInvoke ==
    ASSUME CallsAreCalls, HandlesAreHandles, Untimed, Mapped, Mapped', ClientCall
    PROVE  SI!SINext \/ UNCHANGED SI!siVars
<1>1. CASE \E op, hs, arg : Request(op, hs, arg)
  <2>1. PICK op, hs, arg : Request(op, hs, arg)
    BY <1>1
  <2> DEFINE c == [op |-> op, hs |-> hs, arg |-> arg]
  <2>2. call = NoCall /\ call' = c /\ c # NoCall /\ ret' = Void /\ handle' = handle
        /\ toClient' = toClient /\ stores' = stores /\ Connected' = Connected
    BY <2>1 DEF Request, CallsAreCalls, serverVars, Connected
  <2>3. toServer = <<>> /\ toClient = <<>>
    BY <2>2 DEF Mapped, InStep, Lockstep
  <2>4. IF Connected THEN toServer' # <<>> ELSE toServer' = <<>>
    BY <2>1, <2>3, OneMessage DEF Request
  <2>5. Phase = Idle
    BY <2>2, Phases
  <2>6. Phase' = IF Connected THEN Called(c) ELSE Lost(c)
    <3>1. /\ toServer' # <<>> => Phase' = Called(call)'
          /\ toServer' = <<>> => Phase' = Lost(call)'
      BY <2>2, <2>3, PhasesNext
    <3> QED  BY <2>2, <2>4, <3>1 DEF Called, Lost
  <2>7. Objs' = Objs
    <3>1. HandleNow = handle /\ HandleNow' = handle
      BY <2>2, <2>3 DEF HandleNow
    <3>2. Objs = IF Connected THEN View(HandleNow, stores) ELSE Gone
      BY ObjsView
    <3>3. Objs' = IF Connected' THEN View(HandleNow', stores') ELSE Gone
      BY ObjsViewNext DEF View, Gone
    <3> QED  BY <2>2, <3>1, <3>2, <3>3
  <2> QED  BY <2>2, <2>5, <2>6, <2>7, IsInvoke
<1>2. CASE ~fdOpen /\ call = NoCall /\ UNCHANGED <<call, ret, netVars, serverVars>>
  <2>1. ~Connected /\ ~Connected' /\ call' = NoCall /\ ret' = ret
    BY <1>2 DEF netVars, Connected
  <2>2. Phase = Idle /\ Phase' = Idle
    BY <1>2, <2>1, Phases, PhasesNext DEF Idle
  <2>3. Objs = Gone /\ Objs' = Gone
    BY <2>1, ObjsView, ObjsViewNext DEF Gone
  <2>4. Connected' = Connected
    BY <2>1 DEF Connected
  <2> QED  BY <2>1, <2>2, <2>3, <2>4, IsStutter
<1> QED  BY <1>1, <1>2, CallsAreLegal

(* The end of a call, and of the connection. *)
LEMMA RestReturns ==
    ASSUME HandlesAreHandles, Untimed, Mapped, Mapped',
           Receive \/ Disconnected \/ Close \/ Lose
    PROVE  SI!SINext \/ UNCHANGED SI!siVars
<1>1. /\ Objs = IF Connected THEN View(HandleNow, stores) ELSE Gone
      /\ Objs' = IF Connected' THEN View(HandleNow', stores') ELSE Gone
  BY ObjsView, ObjsViewNext DEF View, Gone
<1>2. CASE Receive
  <2> DEFINE r == Head(toClient)
  <2>1. call # NoCall /\ toClient # <<>> /\ Fits(call, r) /\ call' = NoCall
        /\ Connected' = Connected /\ stores' = stores
    BY <1>2 DEF Receive, Mapped, InStep, Throws, Connected, serverVars
  <2>2. handle' = After(call, r) /\ ret' = AnswerOf(call, r)
    <3>1. CASE r.type = "ERROR"
      BY <1>2, <2>1, <3>1 DEF Receive, Throws, Fits, After, AnswerOf
    <3>2. CASE r.type = "OK"
      BY <1>2, <2>1, <3>2 DEF Receive, After, AnswerOf, Fits, ErrAnswer
    <3> QED  BY <1>2, <3>1, <3>2 DEF Receive
  <2>3. HandleNow' = HandleNow
    BY <2>1, <2>2 DEF HandleNow
  <2>4. Phase = Answered(call, AnswerOf(call, r)) /\ Phase' = Idle
    BY <2>1, Phases, PhasesNext DEF Idle
  <2> QED  BY <1>1, <2>1, <2>2, <2>3, <2>4, IsReturn
<1>3. CASE Disconnected
  <2>1. call # NoCall /\ toClient = <<>> /\ ~Connected /\ ~Connected' /\ call' = NoCall
        /\ ret' = Threw
    BY <1>3 DEF Disconnected, Throws, netVars, Connected
  <2>2. toServer = <<>>
    BY <2>1 DEF Mapped, InStep, Lockstep
  <2>3. Phase = Lost(call) /\ Phase' = Idle
    BY <2>1, <2>2, Phases, PhasesNext DEF Idle
  <2>4. Connected' = Connected
    BY <2>1 DEF Connected
  <2> QED  BY <1>1, <2>1, <2>3, <2>4, IsThrow
<1>4. CASE Close
  <2>1. call = NoCall /\ call' = NoCall /\ ret' = ret /\ ~Connected'
    BY <1>4 DEF Close, clientVars, Connected
  <2>2. Phase = Idle /\ Phase' = Idle
    BY <2>1, Phases, PhasesNext DEF Idle
  <2>3. CASE Connected
    BY <1>1, <2>1, <2>2, <2>3, IsGoDown
  <2>4. CASE ~Connected
    <3>1. Connected' = Connected
      BY <2>1, <2>4 DEF Connected
    <3> QED  BY <1>1, <2>1, <2>2, <2>4, <3>1, IsStutter
  <2> QED  BY <2>3, <2>4
<1>5. CASE Lose
  <2>1. Connected /\ ~Connected' /\ call' = call /\ ret' = ret /\ toServer' = <<>>
    BY <1>5 DEF Lose, HangUp, clientVars, Connected
  <2>2. toClient' = <<>> \/ toClient' = toClient
    <3>1. PICK i \in 0 .. Len(toClient) : toClient' = SubSeq(toClient, 1, i)
      BY <1>5 DEF Lose
    <3>2. CASE toClient = <<>>
      BY <3>1, <3>2, OneMessage
    <3>3. ASSUME NEW r, toClient = <<r>> PROVE toClient' = <<>> \/ toClient' = toClient
      BY <3>1, <3>3, OneMessage
    <3> QED  BY <3>2, <3>3 DEF InStep, Lockstep, Mapped
  <2>3. Objs' = Gone
    BY <1>1, <2>1
  <2>4. CASE call = NoCall
    <3>1. Phase = Idle /\ Phase' = Idle
      BY <2>1, <2>4, Phases, PhasesNext DEF Idle
    <3> QED  BY <2>1, <2>3, <3>1, IsGoDown
  <2>5. CASE call # NoCall /\ toClient' # <<>>
    <3>1. toClient' = toClient /\ toClient # <<>>
      BY <2>2, <2>5
    <3>2. Phase = Answered(call, AnswerOf(call, Head(toClient)))
      BY <2>5, <3>1, Phases
    <3>3. Phase' = Answered(call, AnswerOf(call, Head(toClient)))'
      BY <2>1, <2>5, PhasesNext
    <3>4. Phase' = Phase
      BY <2>1, <3>1, <3>2, <3>3 DEF Answered, AnswerOf
    <3> QED  BY <2>1, <2>3, <3>2, <3>4, IsGoDown
  <2>6. CASE call # NoCall /\ toClient' = <<>>
    <3>1. Phase' = Lost(call)
      <4>1. Phase' = Lost(call)'
        BY <2>1, <2>6, PhasesNext
      <4> QED  BY <2>1, <4>1 DEF Lost
    <3>2. \/ Phase = Called(call) \/ Phase = Lost(call)
          \/ Phase = Answered(call, AnswerOf(call, Head(toClient)))
      BY <2>6, Phases
    <3> QED  BY <2>1, <2>3, <3>1, <3>2, IsGoDown
  <2> QED  BY <2>4, <2>5, <2>6
<1> QED  BY <1>2, <1>3, <1>4, <1>5

(* Every step of the client, the channel and the server is a step of       *)
(* StorageInterface or leaves the mapped state alone.                      *)
LEMMA StepsMapped ==
    ASSUME CallsAreCalls, HandlesAreHandles, TreesAreTrees, timed \/ Mapped,
           (timed \/ Mapped)', [Next]_vars
    PROVE  [SI!SINext]_(SI!siVars)
<1>0. timed' = timed
  BY DEF Next, vars, ClientCall, Construct, Reset, FillData, BulkLoad, ReadPath, WritePath,
         ReadMulti, WriteMulti, BatchRead, BatchWrite, SetupBench, Destruct, Request, Close,
         Receive, Misparse, Disconnected, Timeout, Lose, Dispatch, netVars
<1>1. CASE timed
  BY <1>0, <1>1 DEF SI!siVars
<1>2. CASE ~timed
  <2>1. Untimed /\ Mapped /\ Mapped'
    BY <1>0, <1>2 DEF Untimed
  <2>2. CASE ClientCall
    BY <2>1, <2>2, CallsInvoke
  <2>3. CASE Receive \/ Disconnected \/ Close \/ Lose
    BY <2>1, <2>3, RestReturns
  <2>4. CASE Dispatch
    BY <2>1, <2>4, DispatchExecutes
  <2>5. CASE Timeout \/ Misparse
    BY <1>2, <2>1, <2>5 DEF Timeout, Misparse, Mapped, InStep, Fits, ErrAnswer
  <2>6. CASE UNCHANGED vars
    <3>1. /\ Phase' = Phase /\ Objs' = Objs /\ Connected' = Connected /\ ret' = ret
      BY <2>6 DEF vars, Phase, Objs, Connected, IdNow, AnswerOf
    <3> QED  BY <2>1, <3>1, IsStutter
  <2> QED  BY <2>2, <2>3, <2>4, <2>5, <2>6 DEF Next
<1> QED  BY <1>1, <1>2

(* At the start there is no store and no call. *)
LEMMA InitMapped ==
    ASSUME HandlesAreHandles, Init
    PROVE  SI!SIInit /\ Mapped
<1>1. Mapped
  BY InitInStep DEF Init, Mapped, AnswerNames
<1>2. Connected /\ Phase = Idle /\ ret = Void
  BY Phases DEF Init, Connected
<1>3. Objs = Gone
  <2>1. HandleNow = handle
    BY DEF Init, HandleNow
  <2>2. View(handle, stores) = Gone
    BY DEF Init, View, Gone
  <2> QED  BY <1>1, <1>2, <2>1, <2>2, ObjsView
<1> QED  BY <1>1, <1>2, <1>3 DEF SI!SIInit, SI!Idle, Idle, Gone

(* Without a receive timeout the objects of NetworkStorage, the channel    *)
(* and the server are together a StorageInterface, for any number of       *)
(* objects, shapes, blocks and ids: each call takes effect at most once,   *)
(* on the store of its own object, and returns what that effect computed   *)
(* or throws.                                                              *)
THEOREM NetworkImplementsStorage ==
    ASSUME CallsAreCalls, HandlesAreHandles, TreesAreTrees
    PROVE  Spec => ImplementsStorageInterface
<1>1. Init => SI!SIInit /\ (timed \/ Mapped)
  BY InitMapped
<1>2. (timed \/ Mapped) /\ [Next]_vars => (timed \/ Mapped)'
  BY MappedKept
<1>3. (timed \/ Mapped) /\ (timed \/ Mapped)' /\ [Next]_vars => [SI!SINext]_(SI!siVars)
  BY StepsMapped
<1> QED  BY <1>1, <1>2, <1>3, PTL DEF Spec, ImplementsStorageInterface, SI!SISpec
=============================================================================
