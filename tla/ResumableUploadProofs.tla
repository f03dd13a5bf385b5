------------------------ MODULE ResumableUploadProofs ------------------------
(***************************************************************************)
(* What can be reached of an upload, for any connections, uploads and      *)
(* event loops: it is registered while a client may resume it, and its     *)
(* timer runs exactly while nobody feeds it.  If all connections share one *)
(* loop, it and its handler agree on each other, and if the client and the *)
(* application are orderly besides, a request gets one response and an     *)
(* application one end.                                                    *)
(*                                                                         *)
(* The methods of the code take a state to a state, and so do the lemmas:  *)
(* each says which fields its method may change.  Detaching, closing and   *)
(* responding only take things away (Retreats), in whatever order they     *)
(* call each other, so what holds of every retreat is proved once; and so  *)
(* is what a retreat spares: every count.                                  *)
(***************************************************************************)
EXTENDS ResumableUpload, SequenceTheorems, TLAPS

-----------------------------------------------------------------------------
(* Types.                                                                  *)

Bodies == [open : BOOLEAN, pos : 0..FileLength, left : Lengths, whole : BOOLEAN]

HandlerRecords ==
  [conn : {"open", "closing", "closed"}, context : BOOLEAN, shouldReset : BOOLEAN,
   upload : Uploads \cup {Fresh, Spent}, body : Bodies,
   requests : Nat, heads : Nat, ends : Nat]

UploadRecords ==
  [loop : Loops \cup {None}, handler : Handlers \cup {None}, channel : BOOLEAN,
   resumable : BOOLEAN, offset : Nat, length : {Unknown, FileLength},
   requestIsComplete : BOOLEAN, uploadComplete : BOOLEAN, responseStarted : BOOLEAN,
   timer : BOOLEAN]

AppRecords ==
  [received : Nat, ordered : BOOLEAN, ends : Nat, inactive : Nat,
   written : {"none", "head", "end"}]

HandlerTasks ==
  [op : {"head", "finish", "respond"}, h : Handlers]
    \cup [op : {"detach"}, h : Handlers, close : BOOLEAN]

UploadTasks ==
  [op : {"body", "end", "gone"}, u : Uploads, h : Handlers, pos : 0..FileLength]
    \cup [op : {"append"}, u : Uploads, h : Handlers, request : UploadRequests]
    \cup [op : {"offset", "cancel"}, u : Uploads, h : Handlers]

Tasks == HandlerTasks \cup UploadTasks

States ==
  [hd : [Handlers -> HandlerRecords], up : [Uploads -> UploadRecords],
   app : [Uploads -> AppRecords], uploads : SUBSET Uploads,
   queue : [Loops -> Seq(Tasks)]]

-----------------------------------------------------------------------------
(* Writing one field of a state.                                           *)

PutHd(s, h, r) == [s EXCEPT !.hd[h] = r]
PutUp(s, u, r) == [s EXCEPT !.up[u] = r]
PutApp(s, u, r) == [s EXCEPT !.app[u] = r]
PutUploads(s, S) == [s EXCEPT !.uploads = S]
PutQueue(s, l, q) == [s EXCEPT !.queue[l] = q]

\* What the write of a handler's record leaves alone.
LEMMA PutHdIs ==
  ASSUME NEW s \in States, NEW h \in Handlers, NEW r \in HandlerRecords
  PROVE  /\ PutHd(s, h, r) \in States
         /\ PutHd(s, h, r).hd[h] = r
         /\ \A g \in Handlers \ {h} : PutHd(s, h, r).hd[g] = s.hd[g]
         /\ PutHd(s, h, r).up = s.up
         /\ PutHd(s, h, r).app = s.app
         /\ PutHd(s, h, r).uploads = s.uploads
         /\ PutHd(s, h, r).queue = s.queue
  BY DEF States, PutHd

\* What the write of an upload's record leaves alone.
LEMMA PutUpIs ==
  ASSUME NEW s \in States, NEW u \in Uploads, NEW r \in UploadRecords
  PROVE  /\ PutUp(s, u, r) \in States
         /\ PutUp(s, u, r).up[u] = r
         /\ \A v \in Uploads \ {u} : PutUp(s, u, r).up[v] = s.up[v]
         /\ PutUp(s, u, r).hd = s.hd
         /\ PutUp(s, u, r).app = s.app
         /\ PutUp(s, u, r).uploads = s.uploads
         /\ PutUp(s, u, r).queue = s.queue
  BY DEF States, PutUp

\* What the write of an application's record leaves alone.
LEMMA PutAppIs ==
  ASSUME NEW s \in States, NEW u \in Uploads, NEW r \in AppRecords
  PROVE  /\ PutApp(s, u, r) \in States
         /\ PutApp(s, u, r).app[u] = r
         /\ \A v \in Uploads \ {u} : PutApp(s, u, r).app[v] = s.app[v]
         /\ PutApp(s, u, r).hd = s.hd
         /\ PutApp(s, u, r).up = s.up
         /\ PutApp(s, u, r).uploads = s.uploads
         /\ PutApp(s, u, r).queue = s.queue
  BY DEF States, PutApp

\* What the write of the context's uploads leaves alone.
LEMMA PutUploadsIs ==
  ASSUME NEW s \in States, NEW S \in SUBSET Uploads
  PROVE  /\ PutUploads(s, S) \in States
         /\ PutUploads(s, S).uploads = S
         /\ PutUploads(s, S).hd = s.hd
         /\ PutUploads(s, S).up = s.up
         /\ PutUploads(s, S).app = s.app
         /\ PutUploads(s, S).queue = s.queue
  BY DEF States, PutUploads

\* What the write of a loop's queue leaves alone.
LEMMA PutQueueIs ==
  ASSUME NEW s \in States, NEW l \in Loops, NEW q \in Seq(Tasks)
  PROVE  /\ PutQueue(s, l, q) \in States
         /\ PutQueue(s, l, q).queue[l] = q
         /\ \A m \in Loops \ {l} : PutQueue(s, l, q).queue[m] = s.queue[m]
         /\ PutQueue(s, l, q).hd = s.hd
         /\ PutQueue(s, l, q).up = s.up
         /\ PutQueue(s, l, q).app = s.app
         /\ PutQueue(s, l, q).uploads = s.uploads
  BY DEF States, PutQueue

\* The fields of a state have their types.
LEMMA StateFields ==
  ASSUME NEW s \in States
  PROVE  /\ \A h \in Handlers : s.hd[h] \in HandlerRecords
         /\ \A u \in Uploads : s.up[u] \in UploadRecords
         /\ \A u \in Uploads : s.app[u] \in AppRecords
         /\ s.uploads \in SUBSET Uploads
         /\ \A l \in Loops : s.queue[l] \in Seq(Tasks)
  BY DEF States

\* An action that becomes t leads to t.
LEMMA Becomes ==
  ASSUME NEW t \in States, Become(t)
  PROVE  State' = t
  BY DEF Become, State, States

-----------------------------------------------------------------------------
(* Letting go.                                                             *)

\* Queue r has only tasks for handlers behind the tasks of q.
Lengthens(q, r) ==
  /\ Len(q) <= Len(r)
  /\ \A i \in 1..Len(q) : r[i] = q[i]
  /\ \A i \in (Len(q) + 1)..Len(r) : r[i] \in HandlerTasks

SameUploads(s, t, u) ==
  /\ \A v \in Uploads \ {u} : t.up[v] = s.up[v]
  /\ t.up[u].loop = s.up[u].loop
  /\ t.up[u].resumable = s.up[u].resumable
  /\ t.up[u].offset = s.up[u].offset
  /\ t.up[u].requestIsComplete = s.up[u].requestIsComplete
  /\ t.up[u].handler \in {s.up[u].handler, None}
  /\ t.up[u].channel => s.up[u].channel

SameHandlers(s, t, u) ==
  \A h \in Handlers :
    /\ t.hd[h].upload = s.hd[h].upload
    /\ t.hd[h].body = s.hd[h].body
    /\ t.hd[h].shouldReset = s.hd[h].shouldReset
    /\ t.hd[h].conn = "open" => s.hd[h].conn = "open"
    /\ \/ t.hd[h].context = s.hd[h].context
       \/ s.up[u].handler = h /\ t.up[u].handler = None

SameShown(s, t) ==
  \A v \in Uploads :
    /\ t.app[v].received = s.app[v].received
    /\ t.app[v].ordered = s.app[v].ordered
    /\ t.app[v].ends = s.app[v].ends

\* What upload u does when it lets go of its handler or its channel.
Retreats(s, t, u) ==
  /\ t \in States
  /\ SameUploads(s, t, u)
  /\ SameHandlers(s, t, u)
  /\ SameShown(s, t)
  /\ t.uploads \subseteq s.uploads
  /\ \A v \in s.uploads : v \in t.uploads \/ (v = u /\ ~t.up[u].channel)
  /\ \A l \in Loops : Lengthens(s.queue[l], t.queue[l])
  /\ (\A g \in Handlers : HandlerLoop[g] = s.up[u].loop) => t.queue = s.queue

\* A task of the handler changes nothing but the handler, which stays with its upload.
LEMMA HandlerTaskIs ==
  ASSUME NEW s \in States, NEW t \in HandlerTasks
  PROVE  /\ HandlerTask(s, t) \in States
         /\ HandlerTask(s, t).up = s.up
         /\ HandlerTask(s, t).app = s.app
         /\ HandlerTask(s, t).uploads = s.uploads
         /\ HandlerTask(s, t).queue = s.queue
         /\ \A g \in Handlers \ {t.h} : HandlerTask(s, t).hd[g] = s.hd[g]
         /\ HandlerTask(s, t).hd[t.h].upload = s.hd[t.h].upload
         /\ HandlerTask(s, t).hd[t.h].body = s.hd[t.h].body
         /\ HandlerTask(s, t).hd[t.h].shouldReset = s.hd[t.h].shouldReset
         /\ HandlerTask(s, t).hd[t.h].conn = "open" => s.hd[t.h].conn = "open"
         /\ t.op # "detach" => HandlerTask(s, t).hd[t.h].context = s.hd[t.h].context
  <1> DEFINE h == t.h
             old == s.hd[h]
             reached == old.context /\ old.conn = "open"
             Fine(r) ==
               /\ r \in HandlerRecords
               /\ r.upload = old.upload
               /\ r.body = old.body
               /\ r.shouldReset = old.shouldReset
               /\ r.conn = "open" => old.conn = "open"
               /\ t.op # "detach" => r.context = old.context
  <1>1. h \in Handlers /\ old \in HandlerRecords /\ t.op \in {"head", "finish", "respond", "detach"}
    BY StateFields DEF HandlerTasks
  <1> HIDE DEF h, old
  <1>2. SUFFICES \E r : Fine(r) /\ HandlerTask(s, t) = PutHd(s, h, r)
    BY <1>1, PutHdIs DEF h, old
  <1>3. CASE t.op = "head" /\ reached
    <2> DEFINE r == [old EXCEPT !.heads = @ + 1]
    <2>1. r \in HandlerRecords
      BY <1>1 DEF HandlerRecords
    <2>2. Fine(r)
      BY <1>1, <2>1 DEF HandlerRecords
    <2>3. HandlerTask(s, t) = PutHd(s, h, r)
      BY <1>1, <1>3 DEF HandlerTask, PutHd, States, h, old
    <2> QED BY <2>2, <2>3
  <1>4. CASE t.op = "finish" /\ reached
    <2> DEFINE r == [old EXCEPT !.ends = @ + 1]
    <2>1. r \in HandlerRecords
      BY <1>1 DEF HandlerRecords
    <2>2. Fine(r)
      BY <1>1, <2>1 DEF HandlerRecords
    <2>3. HandlerTask(s, t) = PutHd(s, h, r)
      BY <1>1, <1>4 DEF HandlerTask, PutHd, States, h, old
    <2> QED BY <2>2, <2>3
  <1>5. CASE t.op = "respond" /\ reached
    <2> DEFINE r == [old EXCEPT !.heads = @ + 1, !.ends = @ + 1]
    <2>0. old.heads + 1 \in Nat /\ old.ends + 1 \in Nat
      BY <1>1 DEF HandlerRecords
    <2>1. \A m, n \in Nat : [old EXCEPT !.heads = m, !.ends = n] \in HandlerRecords
      BY <1>1 DEF HandlerRecords
    <2>2. Fine(r)
      BY <1>1, <2>0, <2>1 DEF HandlerRecords
    <2>3. HandlerTask(s, t) = PutHd(s, h, r)
      BY <1>1, <1>5 DEF HandlerTask, PutHd, States, h, old
    <2> QED BY <2>2, <2>3
  <1>6. CASE t.op = "detach"
    <2> DEFINE conn == IF t.close /\ reached THEN "closing" ELSE old.conn
               r == [old EXCEPT !.context = FALSE, !.conn = conn]
    <2>1. conn \in {"open", "closing", "closed"} /\ (conn = "open" => old.conn = "open")
      BY <1>1 DEF HandlerRecords
    <2>2. Fine(r)
      BY <1>1, <1>6, <2>1 DEF HandlerRecords
    <2>3. HandlerTask(s, t) = PutHd(s, h, r)
      BY <1>1, <1>6 DEF HandlerTask, PutHd, States, h, old
    <2> QED BY <2>2, <2>3
  <1>7. CASE t.op \in {"head", "finish", "respond"} /\ ~reached
    <2>1. Fine(old)
      BY <1>1, <1>7 DEF HandlerRecords
    <2>2. HandlerTask(s, t) = PutHd(s, h, old)
      BY <1>1, <1>7 DEF HandlerTask, PutHd, States, h, old
    <2> QED BY <2>1, <2>2
  <1> QED BY <1>1, <1>3, <1>4, <1>5, <1>6, <1>7

\* A task that is put on a queue comes last.
LEMMA EnqueueIs ==
  ASSUME NEW s \in States, NEW l \in Loops, NEW t \in Tasks
  PROVE  /\ Enqueue(s, l, t) \in States
         /\ Enqueue(s, l, t).queue[l] = Append(s.queue[l], t)
         /\ \A m \in Loops \ {l} : Enqueue(s, l, t).queue[m] = s.queue[m]
         /\ Enqueue(s, l, t).hd = s.hd
         /\ Enqueue(s, l, t).up = s.up
         /\ Enqueue(s, l, t).app = s.app
         /\ Enqueue(s, l, t).uploads = s.uploads
  <1> DEFINE q == Append(s.queue[l], t)
  <1>1. q \in Seq(Tasks)
    BY StateFields, AppendProperties
  <1>2. Enqueue(s, l, t) = PutQueue(s, l, q)
    BY DEF Enqueue, PutQueue
  <1> HIDE DEF q
  <1>3. SUFFICES /\ PutQueue(s, l, q) \in States
                 /\ PutQueue(s, l, q).queue[l] = q
                 /\ \A m \in Loops \ {l} : PutQueue(s, l, q).queue[m] = s.queue[m]
                 /\ PutQueue(s, l, q).hd = s.hd
                 /\ PutQueue(s, l, q).up = s.up
                 /\ PutQueue(s, l, q).app = s.app
                 /\ PutQueue(s, l, q).uploads = s.uploads
    BY <1>2 DEF q
  <1> QED BY <1>1, PutQueueIs

\* A queue lengthens itself, and lengthening goes on.
LEMMA LengthensTransitive ==
  ASSUME NEW q \in Seq(Tasks), NEW r \in Seq(Tasks), NEW z \in Seq(Tasks)
  PROVE  /\ Lengthens(q, q)
         /\ Lengthens(q, r) /\ Lengthens(r, z) => Lengthens(q, z)
  <1>1. Len(q) \in Nat /\ Len(r) \in Nat /\ Len(z) \in Nat
    BY LenProperties
  <1>2. Lengthens(q, q)
    BY <1>1 DEF Lengthens
  <1>3. ASSUME Lengthens(q, r), Lengthens(r, z)
        PROVE  Lengthens(q, z)
    <2>1. Len(q) <= Len(z)
      BY <1>1, <1>3 DEF Lengthens
    <2>2. \A i \in 1..Len(q) : z[i] = q[i]
      BY <1>1, <1>3 DEF Lengthens
    <2>3. ASSUME NEW i \in (Len(q) + 1)..Len(z)
          PROVE  z[i] \in HandlerTasks
      <3>1. CASE i <= Len(r)
        BY <1>1, <1>3, <3>1 DEF Lengthens
      <3>2. CASE i > Len(r)
        BY <1>1, <1>3, <3>2 DEF Lengthens
      <3> QED BY <1>1, <3>1, <3>2
    <2> QED BY <2>1, <2>2, <2>3 DEF Lengthens
  <1> QED BY <1>2, <1>3

\* A task for a handler lengthens the queue.
LEMMA LengthensByTask ==
  ASSUME NEW q \in Seq(Tasks), NEW t \in HandlerTasks
  PROVE  Lengthens(q, Append(q, t))
  BY AppendProperties, LenProperties DEF Lengthens, Tasks

\* Letting go of nothing, and one after the other.
LEMMA RetreatsTransitive ==
  ASSUME NEW s \in States, NEW u \in Uploads
  PROVE  /\ Retreats(s, s, u)
         /\ \A t, z : Retreats(s, t, u) /\ Retreats(t, z, u) => Retreats(s, z, u)
  <1>1. Retreats(s, s, u)
    <2>1. \A l \in Loops : Lengthens(s.queue[l], s.queue[l])
      BY LengthensTransitive, StateFields
    <2> QED BY <2>1 DEF Retreats, SameUploads, SameHandlers, SameShown
  <1>2. ASSUME NEW t, NEW z, Retreats(s, t, u), Retreats(t, z, u)
        PROVE  Retreats(s, z, u)
    <2>1. t \in States /\ z \in States
      BY <1>2 DEF Retreats
    <2>2. \A l \in Loops : Lengthens(s.queue[l], z.queue[l])
      BY <1>2, <2>1, LengthensTransitive, StateFields DEF Retreats
    <2>3. SameUploads(s, z, u)
      BY <1>2 DEF Retreats, SameUploads
    <2>4. ASSUME NEW h \in Handlers
          PROVE  /\ z.hd[h].upload = s.hd[h].upload
                 /\ z.hd[h].body = s.hd[h].body
                 /\ z.hd[h].shouldReset = s.hd[h].shouldReset
                 /\ z.hd[h].conn = "open" => s.hd[h].conn = "open"
                 /\ \/ z.hd[h].context = s.hd[h].context
                    \/ s.up[u].handler = h /\ z.up[u].handler = None
      <3>1. SameHandlers(s, t, u) /\ SameHandlers(t, z, u)
        BY <1>2 DEF Retreats
      <3>2. /\ t.up[u].handler = s.up[u].handler \/ t.up[u].handler = None
            /\ z.up[u].handler = t.up[u].handler \/ z.up[u].handler = None
        BY <1>2 DEF Retreats, SameUploads
      <3>3. \/ z.hd[h].context = s.hd[h].context
            \/ s.up[u].handler = h /\ z.up[u].handler = None
        <4>1. \/ t.hd[h].context = s.hd[h].context
              \/ s.up[u].handler = h /\ t.up[u].handler = None
          BY <3>1 DEF SameHandlers
        <4>2. \/ z.hd[h].context = t.hd[h].context
              \/ t.up[u].handler = h /\ z.up[u].handler = None
          BY <3>1 DEF SameHandlers
        <4>3. h # None
          BY ValueAssumption
        <4> QED BY <3>2, <4>1, <4>2, <4>3
      <3> QED BY <3>1, <3>3 DEF SameHandlers
    <2>5. SameShown(s, z)
      BY <1>2 DEF Retreats, SameShown
    <2>6. \A v \in s.uploads : v \in z.uploads \/ (v = u /\ ~z.up[u].channel)
      BY <1>2 DEF Retreats, SameUploads
    <2>7. (\A g \in Handlers : HandlerLoop[g] = s.up[u].loop) => z.queue = s.queue
      BY <1>2 DEF Retreats, SameUploads
    <2>8. z.uploads \subseteq s.uploads
      BY <1>2 DEF Retreats
    <2> QED BY <2>1, <2>2, <2>3, <2>4, <2>5, <2>6, <2>7, <2>8 DEF Retreats, SameHandlers
  <1> QED BY <1>1, <1>2

\* What an upload's record may lose without its being more than letting go.
Loses(old, r) ==
  /\ r \in UploadRecords
  /\ r.loop = old.loop
  /\ r.resumable = old.resumable
  /\ r.offset = old.offset
  /\ r.requestIsComplete = old.requestIsComplete
  /\ r.handler \in {old.handler, None}
  /\ r.channel => old.channel

\* The write of an upload's record is a retreat if that is all it loses.
LEMMA PutUpRetreats ==
  ASSUME NEW s \in States, NEW u \in Uploads, NEW r, Loses(s.up[u], r)
  PROVE  Retreats(s, PutUp(s, u, r), u)
  <1> DEFINE z == PutUp(s, u, r)
  <1>1. /\ z \in States
        /\ z.up[u] = r
        /\ \A v \in Uploads \ {u} : z.up[v] = s.up[v]
        /\ z.hd = s.hd /\ z.app = s.app /\ z.uploads = s.uploads /\ z.queue = s.queue
    BY PutUpIs DEF Loses
  <1> HIDE DEF z
  <1>2. \A l \in Loops : Lengthens(s.queue[l], z.queue[l])
    BY <1>1, LengthensTransitive, StateFields
  <1>3. SameUploads(s, z, u) /\ SameHandlers(s, z, u) /\ SameShown(s, z)
    BY <1>1 DEF Loses, SameUploads, SameHandlers, SameShown
  <1>4. Retreats(s, z, u)
    BY <1>1, <1>2, <1>3 DEF Retreats
  <1> QED BY <1>4 DEF z

\* So is the write of an application's record that shows it nothing.
LEMMA PutAppRetreats ==
  ASSUME NEW s \in States, NEW u \in Uploads, NEW a \in AppRecords,
         a.received = s.app[u].received, a.ordered = s.app[u].ordered, a.ends = s.app[u].ends
  PROVE  /\ Retreats(s, PutApp(s, u, a), u)
         /\ PutApp(s, u, a).up = s.up
  <1> DEFINE z == PutApp(s, u, a)
  <1>1. /\ z \in States
        /\ z.app[u] = a
        /\ \A v \in Uploads \ {u} : z.app[v] = s.app[v]
        /\ z.hd = s.hd /\ z.up = s.up /\ z.uploads = s.uploads /\ z.queue = s.queue
    BY PutAppIs
  <1> HIDE DEF z
  <1>2. \A l \in Loops : Lengthens(s.queue[l], z.queue[l])
    BY <1>1, LengthensTransitive, StateFields
  <1>3. SameUploads(s, z, u) /\ SameHandlers(s, z, u) /\ SameShown(s, z)
    BY <1>1 DEF SameUploads, SameHandlers, SameShown
  <1>4. Retreats(s, z, u)
    BY <1>1, <1>2, <1>3 DEF Retreats
  <1> QED BY <1>1, <1>4 DEF z

\* What reaches the handler changes the handler or the queue of its loop.
LEMMA WithHandlerIs ==
  ASSUME NEW s \in States, NEW here, NEW t \in HandlerTasks
  PROVE  LET z == WithHandler(s, here, t) IN
         /\ z \in States
         /\ z.up = s.up
         /\ z.app = s.app
         /\ z.uploads = s.uploads
         /\ \A h \in Handlers :
              /\ z.hd[h].upload = s.hd[h].upload
              /\ z.hd[h].body = s.hd[h].body
              /\ z.hd[h].shouldReset = s.hd[h].shouldReset
              /\ z.hd[h].conn = "open" => s.hd[h].conn = "open"
              /\ z.hd[h].context = s.hd[h].context \/ (t.op = "detach" /\ h = t.h)
         /\ \A l \in Loops : Lengthens(s.queue[l], z.queue[l])
         /\ HandlerLoop[t.h] = here => z.queue = s.queue
  <1> DEFINE l == HandlerLoop[t.h]
             z == WithHandler(s, here, t)
  <1>1. t.h \in Handlers /\ l \in Loops /\ t \in Tasks
    BY LoopAssumption DEF HandlerTasks, Tasks
  <1>2. \A m \in Loops : Lengthens(s.queue[m], s.queue[m])
    BY LengthensTransitive, StateFields
  <1>3. CASE l = here
    <2>1. z = HandlerTask(s, t)
      BY <1>3 DEF WithHandler
    <2>2. /\ z \in States
          /\ z.up = s.up /\ z.app = s.app /\ z.uploads = s.uploads /\ z.queue = s.queue
          /\ \A g \in Handlers \ {t.h} : z.hd[g] = s.hd[g]
          /\ z.hd[t.h].upload = s.hd[t.h].upload
          /\ z.hd[t.h].body = s.hd[t.h].body
          /\ z.hd[t.h].shouldReset = s.hd[t.h].shouldReset
          /\ z.hd[t.h].conn = "open" => s.hd[t.h].conn = "open"
          /\ t.op # "detach" => z.hd[t.h].context = s.hd[t.h].context
      BY <2>1, HandlerTaskIs
    <2> HIDE DEF z
    <2>3. ASSUME NEW g \in Handlers
          PROVE  /\ z.hd[g].upload = s.hd[g].upload
                 /\ z.hd[g].body = s.hd[g].body
                 /\ z.hd[g].shouldReset = s.hd[g].shouldReset
                 /\ z.hd[g].conn = "open" => s.hd[g].conn = "open"
                 /\ z.hd[g].context = s.hd[g].context \/ (t.op = "detach" /\ g = t.h)
      <3>1. CASE g = t.h
        BY <2>2, <3>1
      <3>2. CASE g # t.h
        BY <2>2, <3>2
      <3> QED BY <3>1, <3>2
    <2>4. \A m \in Loops : Lengthens(s.queue[m], z.queue[m])
      BY <1>2, <2>2
    <2> QED BY <2>2, <2>3, <2>4 DEF z
  <1>4. CASE l # here
    <2>1. z = Enqueue(s, l, t)
      BY <1>4 DEF WithHandler
    <2>2. Lengthens(s.queue[l], Append(s.queue[l], t))
      BY <1>1, LengthensByTask, StateFields
    <2> HIDE DEF z, l
    <2>3. ASSUME NEW m \in Loops
          PROVE  Lengthens(s.queue[m], Enqueue(s, l, t).queue[m])
      <3>1. CASE m = l
        BY <1>1, <2>2, <3>1, EnqueueIs
      <3>2. CASE m # l
        BY <1>1, <1>2, <3>2, EnqueueIs
      <3> QED BY <3>1, <3>2
    <2>4. /\ Enqueue(s, l, t) \in States
          /\ Enqueue(s, l, t).hd = s.hd
          /\ Enqueue(s, l, t).up = s.up
          /\ Enqueue(s, l, t).app = s.app
          /\ Enqueue(s, l, t).uploads = s.uploads
      BY <1>1, EnqueueIs
    <2> QED BY <1>4, <2>1, <2>3, <2>4 DEF z, l
  <1> QED BY <1>3, <1>4

\* What holds of the timer of u, and of an upload that is not there yet.
TimedAt(s, u) ==
  /\ s.up[u].channel /\ s.up[u].handler = None => s.up[u].timer
  /\ s.up[u].handler # None => ~s.up[u].timer
  /\ s.up[u].loop = None => ~s.up[u].timer /\ ~s.up[u].channel /\ s.up[u].handler = None

\* The record r of an upload without its handler.
WithoutHandler(old, r) ==
  /\ r \in UploadRecords
  /\ r.handler = None
  /\ r.loop = old.loop
  /\ r.channel = old.channel
  /\ r.resumable = old.resumable
  /\ r.offset = old.offset
  /\ r.requestIsComplete = old.requestIsComplete

\* The upload forgets the handler, and then the handler the upload.
LEMMA Detached ==
  ASSUME NEW s \in States, NEW u \in Uploads, NEW close \in BOOLEAN,
         s.up[u].handler # None, NEW r, WithoutHandler(s.up[u], r)
  PROVE  LET t == [op |-> "detach", h |-> s.up[u].handler, close |-> close]
             z == WithHandler(PutUp(s, u, r), s.up[u].loop, t) IN
         /\ Retreats(s, z, u)
         /\ z.up[u] = r
         /\ z.app = s.app
         /\ z.uploads = s.uploads
  <1> DEFINE h == s.up[u].handler
             t == [op |-> "detach", h |-> h, close |-> close]
             y == PutUp(s, u, r)
             z == WithHandler(y, s.up[u].loop, t)
  <1>1. h \in Handlers /\ s.up[u] \in UploadRecords /\ r \in UploadRecords
    BY StateFields DEF UploadRecords, WithoutHandler
  <1>2. t \in HandlerTasks /\ t.h = h /\ t.op = "detach"
    BY <1>1 DEF HandlerTasks
  <1>3. /\ y \in States
        /\ y.up[u] = r
        /\ \A v \in Uploads \ {u} : y.up[v] = s.up[v]
        /\ y.hd = s.hd
        /\ y.app = s.app
        /\ y.uploads = s.uploads
        /\ y.queue = s.queue
    BY <1>1, PutUpIs
  <1> HIDE DEF t, y, h
  <1>4. /\ z \in States
        /\ z.up = y.up
        /\ z.app = y.app
        /\ z.uploads = y.uploads
        /\ \A g \in Handlers :
             /\ z.hd[g].upload = y.hd[g].upload
             /\ z.hd[g].body = y.hd[g].body
             /\ z.hd[g].shouldReset = y.hd[g].shouldReset
             /\ z.hd[g].conn = "open" => y.hd[g].conn = "open"
             /\ z.hd[g].context = y.hd[g].context \/ (t.op = "detach" /\ g = t.h)
        /\ \A l \in Loops : Lengthens(y.queue[l], z.queue[l])
        /\ HandlerLoop[t.h] = s.up[u].loop => z.queue = y.queue
    BY <1>2, <1>3, WithHandlerIs
  <1> HIDE DEF z
  <1>5. SameUploads(s, z, u)
    BY <1>3, <1>4 DEF SameUploads, WithoutHandler
  <1>6. SameHandlers(s, z, u)
    <2>1. z.up[u].handler = None
      BY <1>3, <1>4 DEF WithoutHandler
    <2> QED BY <2>1, <1>2, <1>3, <1>4 DEF SameHandlers, h
  <1>7. SameShown(s, z)
    BY <1>3, <1>4 DEF SameShown
  <1>8. Retreats(s, z, u)
    BY <1>1, <1>2, <1>3, <1>4, <1>5, <1>6, <1>7 DEF Retreats
  <1> QED BY <1>3, <1>4, <1>8 DEF z, y, t, h

\* detachUploadHandler leaves the channel to the timer.
LEMMA DetachIs ==
  ASSUME NEW s \in States, NEW u \in Uploads, NEW close \in BOOLEAN
  PROVE  LET z == DetachUploadHandler(s, u, close) IN
         /\ Retreats(s, z, u)
         /\ z.up[u].handler = None
         /\ z.up[u].channel = s.up[u].channel
         /\ z.app = s.app
         /\ z.uploads = s.uploads
         /\ TimedAt(s, u) => TimedAt(z, u)
  <1> DEFINE old == s.up[u]
             z == DetachUploadHandler(s, u, close)
  <1>1. CASE old.handler = None
    BY <1>1, RetreatsTransitive DEF DetachUploadHandler
  <1>2. CASE old.handler # None
    <2> DEFINE r == [old EXCEPT !.handler = None, !.timer = old.channel \/ @]
               t == [op |-> "detach", h |-> old.handler, close |-> close]
    <2>1. old \in UploadRecords
      BY StateFields
    <2>2. (old.channel \/ old.timer) \in BOOLEAN
      OBVIOUS
    <2>3. \A b \in BOOLEAN : WithoutHandler(old, [old EXCEPT !.handler = None, !.timer = b])
      BY <2>1 DEF UploadRecords, WithoutHandler
    <2>4. WithoutHandler(old, r)
      BY <2>2, <2>3
    <2>5. r.timer = (old.channel \/ old.timer)
      BY <2>1 DEF UploadRecords
    <2>6. [s EXCEPT !.up[u].handler = None, !.up[u].timer = s.up[u].channel \/ @] = PutUp(s, u, r)
      BY DEF PutUp, States
    <2>7. z = WithHandler(PutUp(s, u, r), old.loop, t)
      BY <1>2, <2>6 DEF DetachUploadHandler
    <2> HIDE DEF r
    <2>8. /\ Retreats(s, z, u)
          /\ z.up[u] = r
          /\ z.app = s.app
          /\ z.uploads = s.uploads
      BY <1>2, <2>4, <2>7, Detached
    <2>9. TimedAt(s, u) => TimedAt(z, u)
      BY <1>2, <2>4, <2>5, <2>8 DEF TimedAt, WithoutHandler
    <2> HIDE DEF z
    <2> QED BY <2>4, <2>8, <2>9 DEF WithoutHandler, z
  <1> QED BY <1>1, <1>2

\* close(mode:) stops the timer too.
LEMMA LetGoIs ==
  ASSUME NEW s \in States, NEW u \in Uploads
  PROVE  LET z == LetGo(s, u) IN
         /\ Retreats(s, z, u)
         /\ z.up[u].handler = None
         /\ z.up[u].channel = s.up[u].channel
         /\ z.app = s.app
         /\ z.uploads = s.uploads
         /\ ~s.up[u].channel => TimedAt(z, u)
  <1> DEFINE old == s.up[u]
             r == [old EXCEPT !.handler = None, !.timer = FALSE]
             z == LetGo(s, u)
  <1>1. old \in UploadRecords
    BY StateFields
  <1>2. WithoutHandler(old, r) /\ r.timer = FALSE
    BY <1>1 DEF UploadRecords, WithoutHandler
  <1>3. [s EXCEPT !.up[u].handler = None, !.up[u].timer = FALSE] = PutUp(s, u, r)
    BY DEF PutUp, States
  <1> HIDE DEF r
  <1>4. /\ Retreats(s, z, u)
        /\ z.up[u] = r
        /\ z.app = s.app
        /\ z.uploads = s.uploads
    <2>1. CASE old.handler = None
      <3>1. z = PutUp(s, u, r)
        BY <1>3, <2>1 DEF LetGo
      <3>2. /\ PutUp(s, u, r) \in States
            /\ PutUp(s, u, r).up[u] = r
            /\ \A v \in Uploads \ {u} : PutUp(s, u, r).up[v] = s.up[v]
            /\ PutUp(s, u, r).hd = s.hd
            /\ PutUp(s, u, r).app = s.app
            /\ PutUp(s, u, r).uploads = s.uploads
            /\ PutUp(s, u, r).queue = s.queue
        BY <1>2, PutUpIs DEF WithoutHandler
      <3> HIDE DEF z
      <3>3. \A l \in Loops : Lengthens(s.queue[l], z.queue[l])
        BY <3>1, <3>2, LengthensTransitive, StateFields
      <3>4. SameUploads(s, z, u)
        BY <1>2, <3>1, <3>2 DEF SameUploads, WithoutHandler
      <3>5. SameHandlers(s, z, u) /\ SameShown(s, z)
        BY <3>1, <3>2 DEF SameHandlers, SameShown
      <3> QED BY <3>1, <3>2, <3>3, <3>4, <3>5 DEF Retreats
    <2>2. CASE old.handler # None
      <3>1. PICK close \in BOOLEAN : close = TRUE
        OBVIOUS
      <3> DEFINE t == [op |-> "detach", h |-> old.handler, close |-> close]
      <3>2. z = WithHandler(PutUp(s, u, r), old.loop, t)
        BY <1>3, <2>2, <3>1 DEF LetGo
      <3> QED BY <1>2, <2>2, <3>2, Detached
    <2> QED BY <2>1, <2>2
  <1> HIDE DEF z
  <1>5. ~old.channel => TimedAt(z, u)
    BY <1>2, <1>4 DEF TimedAt, WithoutHandler
  <1> QED BY <1>2, <1>4, <1>5 DEF WithoutHandler, z

\* destroyChannel takes the upload out of the context.
LEMMA DestroyIs ==
  ASSUME NEW s \in States, NEW u \in Uploads
  PROVE  LET z == DestroyChannel(s, u) IN
         /\ Retreats(s, z, u)
         /\ ~z.up[u].channel
         /\ TimedAt(s, u) => TimedAt(z, u)
  <1> DEFINE r == [s.up[u] EXCEPT !.channel = FALSE]
             a == [s.app[u] EXCEPT !.inactive = @ + 1]
             ended == [s EXCEPT !.uploads = @ \ {u},
                                !.up[u].channel = FALSE,
                                !.app[u].inactive = @ + 1]
             z == DestroyChannel(s, u)
  <1>1. s.up[u] \in UploadRecords /\ s.app[u] \in AppRecords
    BY StateFields
  <1>2. CASE ~s.up[u].channel
    BY <1>2, RetreatsTransitive DEF DestroyChannel
  <1>3. CASE s.up[u].channel
    <2>1. /\ r \in UploadRecords
          /\ r.channel = FALSE
          /\ r.handler = s.up[u].handler
          /\ r.timer = s.up[u].timer
          /\ r.loop = s.up[u].loop
          /\ r.resumable = s.up[u].resumable
          /\ r.offset = s.up[u].offset
          /\ r.requestIsComplete = s.up[u].requestIsComplete
      BY <1>1 DEF UploadRecords
    <2>2. /\ a \in AppRecords
          /\ a.received = s.app[u].received
          /\ a.ordered = s.app[u].ordered
          /\ a.ends = s.app[u].ends
      BY <1>1 DEF AppRecords
    <2>3. ended = PutApp(PutUp(PutUploads(s, s.uploads \ {u}), u, r), u, a)
      BY DEF PutApp, PutUp, PutUploads, States
    <2> DEFINE y1 == PutUploads(s, s.uploads \ {u})
               y2 == PutUp(y1, u, r)
               y3 == PutApp(y2, u, a)
    <2> HIDE DEF r, a, ended
    <2>4. /\ y1 \in States /\ y1.uploads = s.uploads \ {u} /\ y1.hd = s.hd
          /\ y1.up = s.up /\ y1.app = s.app /\ y1.queue = s.queue
      <3>1. s.uploads \ {u} \in SUBSET Uploads
        BY StateFields
      <3> QED BY <3>1, PutUploadsIs
    <2> HIDE DEF y1
    <2>5. /\ y2 \in States /\ y2.uploads = s.uploads \ {u} /\ y2.hd = s.hd
          /\ y2.up[u] = r /\ (\A v \in Uploads \ {u} : y2.up[v] = s.up[v])
          /\ y2.app = s.app /\ y2.queue = s.queue
      BY <2>1, <2>4, PutUpIs
    <2> HIDE DEF y2
    <2>6. /\ y3 \in States /\ y3.uploads = s.uploads \ {u} /\ y3.hd = s.hd
          /\ y3.up = y2.up /\ y3.queue = s.queue
          /\ y3.app[u] = a /\ (\A v \in Uploads \ {u} : y3.app[v] = s.app[v])
      BY <2>2, <2>5, PutAppIs
    <2>7. y3 = ended
      BY <2>3 DEF y3, y2, y1
    <2> HIDE DEF y3
    <2>8. Retreats(s, ended, u)
      <3>1. \A l \in Loops : Lengthens(s.queue[l], ended.queue[l])
        BY <2>6, <2>7, LengthensTransitive, StateFields
      <3>2. SameUploads(s, ended, u)
        BY <2>1, <2>5, <2>6, <2>7 DEF SameUploads
      <3>3. SameHandlers(s, ended, u)
        BY <2>6, <2>7 DEF SameHandlers
      <3>4. SameShown(s, ended)
        BY <2>2, <2>6, <2>7 DEF SameShown
      <3>5. ~ended.up[u].channel
        BY <2>1, <2>5, <2>6, <2>7
      <3> QED BY <2>6, <2>7, <3>1, <3>2, <3>3, <3>4, <3>5 DEF Retreats
    <2>9. ended \in States /\ ~ended.up[u].channel
      BY <2>1, <2>5, <2>6, <2>7
    <2>10. TimedAt(s, u) => TimedAt(ended, u)
      BY <2>1, <2>5, <2>6, <2>7 DEF TimedAt
    <2>11. z = IF AppCloses THEN LetGo(ended, u) ELSE ended
      BY <1>3 DEF DestroyChannel, ended
    <2>12. /\ Retreats(ended, LetGo(ended, u), u)
           /\ LetGo(ended, u).up[u].channel = ended.up[u].channel
           /\ TimedAt(LetGo(ended, u), u)
      BY <2>9, LetGoIs
    <2> HIDE DEF z
    <2>13. CASE AppCloses
      BY <2>8, <2>9, <2>11, <2>12, <2>13, RetreatsTransitive DEF z
    <2>14. CASE ~AppCloses
      BY <2>8, <2>9, <2>10, <2>11, <2>14 DEF z
    <2> QED BY <2>13, <2>14
  <1> QED BY <1>2, <1>3

\* respondAndDetach lets go of the handler it answers.
LEMMA RespondAndDetachIs ==
  ASSUME NEW s \in States, NEW u \in Uploads, NEW h \in Handlers
  PROVE  LET z == RespondAndDetach(s, u, h) IN
         /\ Retreats(s, z, u)
         /\ z.up[u].handler # h
         /\ z.up[u].channel = s.up[u].channel
         /\ z.app = s.app
         /\ TimedAt(s, u) => TimedAt(z, u)
  <1> DEFINE t == [op |-> "respond", h |-> h]
             y == WithHandler(s, s.up[u].loop, t)
             z == RespondAndDetach(s, u, h)
  <1>1. t \in HandlerTasks /\ t.h = h /\ t.op # "detach"
    BY DEF HandlerTasks
  <1> HIDE DEF t
  <1>2. /\ y \in States
        /\ y.up = s.up
        /\ y.app = s.app
        /\ y.uploads = s.uploads
        /\ \A g \in Handlers :
             /\ y.hd[g].upload = s.hd[g].upload
             /\ y.hd[g].body = s.hd[g].body
             /\ y.hd[g].shouldReset = s.hd[g].shouldReset
             /\ y.hd[g].conn = "open" => s.hd[g].conn = "open"
             /\ y.hd[g].context = s.hd[g].context \/ (t.op = "detach" /\ g = t.h)
        /\ \A l \in Loops : Lengthens(s.queue[l], y.queue[l])
        /\ HandlerLoop[t.h] = s.up[u].loop => y.queue = s.queue
    BY <1>1, WithHandlerIs
  <1>3. z = IF s.up[u].handler = h THEN DetachUploadHandler(y, u, FALSE) ELSE y
    BY DEF RespondAndDetach, t
  <1> HIDE DEF y, z
  <1>4. Retreats(s, y, u)
    <2>1. SameUploads(s, y, u)
      BY <1>2 DEF SameUploads
    <2>2. SameHandlers(s, y, u) /\ SameShown(s, y)
      BY <1>1, <1>2 DEF SameHandlers, SameShown
    <2> QED BY <1>1, <1>2, <2>1, <2>2 DEF Retreats
  <1>5. TimedAt(s, u) => TimedAt(y, u)
    BY <1>2 DEF TimedAt
  <1>6. PICK no \in BOOLEAN : no = FALSE
    OBVIOUS
  <1>7. CASE s.up[u].handler = h
    <2> DEFINE x == DetachUploadHandler(y, u, no)
    <2>1. /\ Retreats(y, x, u)
          /\ x.up[u].handler = None
          /\ x.up[u].channel = y.up[u].channel
          /\ x.app = y.app
          /\ TimedAt(y, u) => TimedAt(x, u)
      BY <1>2, DetachIs
    <2>2. z = x
      BY <1>3, <1>6, <1>7
    <2>3. h # None
      BY ValueAssumption
    <2> HIDE DEF x
    <2>4. Retreats(s, z, u)
      BY <1>4, <2>1, <2>2, RetreatsTransitive
    <2> QED BY <1>2, <1>5, <2>1, <2>2, <2>3, <2>4 DEF z
  <1>8. CASE s.up[u].handler # h
    BY <1>2, <1>3, <1>4, <1>5, <1>8 DEF z
  <1> QED BY <1>7, <1>8

\* Detaching and then destroying.
LEMMA DetachDestroyIs ==
  ASSUME NEW s \in States, NEW u \in Uploads, NEW close \in BOOLEAN
  PROVE  LET z == DestroyChannel(DetachUploadHandler(s, u, close), u) IN
         /\ Retreats(s, z, u)
         /\ z.up[u].handler = None
         /\ TimedAt(s, u) => TimedAt(z, u)
  <1> DEFINE y == DetachUploadHandler(s, u, close)
             z == DestroyChannel(y, u)
  <1>1. Retreats(s, y, u) /\ y.up[u].handler = None /\ (TimedAt(s, u) => TimedAt(y, u))
    BY DetachIs
  <1> HIDE DEF y
  <1>2. y \in States
    BY <1>1 DEF Retreats
  <1>3. Retreats(y, z, u) /\ (TimedAt(y, u) => TimedAt(z, u))
    BY <1>2, DestroyIs
  <1> HIDE DEF z
  <1>4. z.up[u].handler = None
    BY <1>1, <1>3 DEF Retreats, SameUploads
  <1>5. Retreats(s, z, u)
    BY <1>1, <1>3, RetreatsTransitive
  <1> QED BY <1>1, <1>3, <1>4, <1>5 DEF z, y

\* The end of the handler, an offset that is asked for, and a cancellation are retreats.
LEMMA EndingIs ==
  ASSUME NEW s \in States, NEW u \in Uploads, NEW h \in Handlers, NEW z,
         \/ z = HandlerEnded(s, u)
         \/ z = OffsetRetrieving(s, u, h)
         \/ z = UploadCancellation(s, u)
  PROVE  Retreats(s, z, u) /\ z.up[u].handler = None /\ (TimedAt(s, u) => TimedAt(z, u))
  <1>1. PICK no \in BOOLEAN, yes \in BOOLEAN : no = FALSE /\ yes = TRUE
    OBVIOUS
  <1>2. CASE z = HandlerEnded(s, u)
    <2>1. CASE ~s.up[u].uploadComplete /\ s.up[u].resumable
      <3>1. z = DetachUploadHandler(s, u, no)
        BY <1>1, <1>2, <2>1 DEF HandlerEnded
      <3> QED BY <3>1, DetachIs
    <2>2. CASE ~(~s.up[u].uploadComplete /\ s.up[u].resumable)
      <3> DEFINE y == DestroyChannel(s, u)
      <3>1. z = DetachUploadHandler(y, u, no)
        BY <1>1, <1>2, <2>2 DEF HandlerEnded
      <3>2. Retreats(s, y, u) /\ (TimedAt(s, u) => TimedAt(y, u))
        BY DestroyIs
      <3> HIDE DEF y
      <3>3. y \in States
        BY <3>2 DEF Retreats
      <3>4. Retreats(y, z, u) /\ z.up[u].handler = None /\ (TimedAt(y, u) => TimedAt(z, u))
        BY <3>1, <3>3, DetachIs
      <3> QED BY <3>2, <3>4, RetreatsTransitive
    <2> QED BY <2>1, <2>2
  <1>3. CASE z = OffsetRetrieving(s, u, h)
    <2> DEFINE y == DetachUploadHandler(s, u, yes)
    <2>1. z = RespondAndDetach(y, u, h)
      BY <1>1, <1>3 DEF OffsetRetrieving
    <2>2. Retreats(s, y, u) /\ y.up[u].handler = None /\ (TimedAt(s, u) => TimedAt(y, u))
      BY DetachIs
    <2> HIDE DEF y
    <2>3. y \in States
      BY <2>2 DEF Retreats
    <2>4. Retreats(y, z, u) /\ (TimedAt(y, u) => TimedAt(z, u))
      BY <2>1, <2>3, RespondAndDetachIs
    <2>5. z.up[u].handler = None
      BY <2>2, <2>4 DEF Retreats, SameUploads
    <2> QED BY <2>2, <2>4, <2>5, RetreatsTransitive
  <1>4. CASE z = UploadCancellation(s, u)
    <2>1. z = DestroyChannel(DetachUploadHandler(s, u, yes), u)
      BY <1>1, <1>4 DEF UploadCancellation
    <2> QED BY <2>1, DetachDestroyIs
  <1> QED BY <1>2, <1>3, <1>4

\* An honest client's requests leave no length but the file's.
LEMMA SaveUploadLengthIs ==
  ASSUME NEW r \in UploadRequests, NEW known \in {Unknown, FileLength}
  PROVE  SaveUploadLength(known, r.offset, r).length \in {Unknown, FileLength}
  <1> DEFINE computed == IF r.complete /\ r.length # Unknown THEN r.offset + r.length
                                                            ELSE Unknown
  <1>1. /\ r.offset \in 0..FileLength
        /\ r.length \in Lengths
        /\ r.total \in {Unknown, FileLength}
        /\ Announces(r)
    BY DEF UploadRequests
  <1>2. computed \in {Unknown, FileLength}
    <2>1. CASE r.complete /\ r.length # Unknown
      <3>1. r.length \in 0..FileLength
        BY <1>1, <2>1 DEF Lengths
      <3>2. r.length + r.offset = FileLength
        BY <1>1, <2>1 DEF Announces
      <3>3. r.offset + r.length = FileLength
        BY <1>1, <3>1, <3>2, BoundAssumption
      <3> QED BY <2>1, <3>3
    <2>2. CASE ~(r.complete /\ r.length # Unknown)
      BY <2>2
    <2> QED BY <2>1, <2>2
  <1> HIDE DEF computed
  <1> DEFINE first == IF known = Unknown THEN computed ELSE known
             second == IF first = Unknown THEN r.total ELSE first
  <1>3. SaveUploadLength(known, r.offset, r).length
          = IF known # Unknown /\ computed # Unknown /\ known # computed THEN known ELSE second
    BY DEF SaveUploadLength, computed
  <1> QED BY <1>1, <1>2, <1>3

\* The record r of an upload that takes requests of connection h.
AttachedTo(old, r, h, request) ==
  /\ r \in UploadRecords
  /\ r.handler = h
  /\ r.timer = FALSE
  /\ r.requestIsComplete = request.complete
  /\ r.loop = old.loop
  /\ r.channel = old.channel
  /\ r.resumable = old.resumable
  /\ r.offset = old.offset

\* uploadAppending attaches the handler where the upload is, or lets go of all.
LEMMA UploadAppendingIs ==
  ASSUME NEW s \in States, NEW u \in Uploads, NEW h \in Handlers, NEW r \in UploadRequests
  PROVE  LET z == UploadAppending(s, u, h, r) IN
         \/ /\ s.up[u].handler = None
            /\ s.up[u].offset = r.offset
            /\ \E a : AttachedTo(s.up[u], a, h, r) /\ z = PutUp(s, u, a)
         \/ /\ Retreats(s, z, u)
            /\ z.up[u].handler = None
            /\ TimedAt(s, u) => TimedAt(z, u)
  <1> DEFINE old == s.up[u]
             z == UploadAppending(s, u, h, r)
             free == old.handler = None /\ old.offset = r.offset /\ ~old.responseStarted
             saved == SaveUploadLength(old.length, old.offset, r)
             longer == [old EXCEPT !.length = saved.length]
             lengthened == IF free THEN [s EXCEPT !.up[u].length = saved.length] ELSE s
  <1>1. old \in UploadRecords /\ r.complete \in BOOLEAN
    BY StateFields DEF UploadRequests
  <1>2. CASE free
    <2>1. saved.length \in {Unknown, FileLength}
      BY <1>1, <1>2, SaveUploadLengthIs DEF UploadRecords
    <2> DEFINE n == saved.length
               ok == saved.ok
               a == [longer EXCEPT !.requestIsComplete = r.complete, !.handler = h, !.timer = FALSE]
    <2>2. lengthened = PutUp(s, u, longer)
      BY <1>2 DEF PutUp, States
    <2>3. z = IF ok THEN AttachUploadHandler(
                           [lengthened EXCEPT !.up[u].requestIsComplete = r.complete], u, h)
                    ELSE RespondAndDetach(
                           DestroyChannel(DetachUploadHandler(lengthened, u, TRUE), u), u, h)
      BY <1>2 DEF UploadAppending
    <2> HIDE DEF n, ok, saved, lengthened
    <2>4. /\ longer \in UploadRecords
          /\ longer.handler = old.handler
          /\ longer.timer = old.timer
          /\ longer.loop = old.loop
          /\ longer.channel = old.channel
          /\ longer.resumable = old.resumable
          /\ longer.offset = old.offset
          /\ longer.requestIsComplete = old.requestIsComplete
      BY <1>1, <2>1 DEF UploadRecords
    <2> HIDE DEF longer
    <2>5. CASE ok
      <3>1. AttachedTo(old, a, h, r)
        BY <1>1, <2>4 DEF UploadRecords, AttachedTo
      <3>2. z = PutUp(s, u, a)
        <4>1. AttachUploadHandler(
                [PutUp(s, u, longer) EXCEPT !.up[u].requestIsComplete = r.complete], u, h)
                = PutUp(s, u, a)
          BY <2>4 DEF AttachUploadHandler, PutUp, States
        <4> QED BY <2>2, <2>3, <2>5, <4>1
      <3> QED BY <1>2, <3>1, <3>2
    <2>6. CASE ~ok
      <3> DEFINE y == PutUp(s, u, longer)
      <3>1. /\ y \in States
            /\ y.up[u] = longer
            /\ \A v \in Uploads \ {u} : y.up[v] = s.up[v]
            /\ y.hd = s.hd
            /\ y.app = s.app
            /\ y.uploads = s.uploads
            /\ y.queue = s.queue
        BY <2>4, PutUpIs
      <3> HIDE DEF y
      <3>2. Retreats(s, y, u)
        BY <1>1, <2>4, PutUpRetreats DEF Loses, y
      <3>3. TimedAt(s, u) => TimedAt(y, u)
        BY <2>4, <3>1 DEF TimedAt
      <3>4. PICK yes \in BOOLEAN : yes = TRUE
        OBVIOUS
      <3> DEFINE x == DestroyChannel(DetachUploadHandler(y, u, yes), u)
      <3>5. z = RespondAndDetach(x, u, h)
        BY <2>2, <2>3, <2>6, <3>4 DEF y
      <3>6. Retreats(y, x, u) /\ x.up[u].handler = None /\ (TimedAt(y, u) => TimedAt(x, u))
        BY <3>1, DetachDestroyIs
      <3> HIDE DEF x
      <3>7. x \in States
        BY <3>6 DEF Retreats
      <3>8. Retreats(x, z, u) /\ (TimedAt(x, u) => TimedAt(z, u))
        BY <3>5, <3>7, RespondAndDetachIs
      <3> HIDE DEF z
      <3>9. z.up[u].handler = None
        BY <3>6, <3>8 DEF Retreats, SameUploads
      <3>10. Retreats(s, z, u)
        BY <3>2, <3>6, <3>8, RetreatsTransitive
      <3> QED BY <3>3, <3>6, <3>8, <3>9, <3>10 DEF z
    <2> QED BY <2>5, <2>6
  <1>3. CASE ~free
    <2>1. PICK yes \in BOOLEAN : yes = TRUE
      OBVIOUS
    <2> DEFINE x == DestroyChannel(DetachUploadHandler(s, u, yes), u)
    <2>2. z = RespondAndDetach(x, u, h)
      BY <1>3, <2>1 DEF UploadAppending
    <2>3. Retreats(s, x, u) /\ x.up[u].handler = None /\ (TimedAt(s, u) => TimedAt(x, u))
      BY DetachDestroyIs
    <2> HIDE DEF x
    <2>4. x \in States
      BY <2>3 DEF Retreats
    <2>5. Retreats(x, z, u) /\ (TimedAt(x, u) => TimedAt(z, u))
      BY <2>2, <2>4, RespondAndDetachIs
    <2> HIDE DEF z
    <2>6. z.up[u].handler = None
      BY <2>3, <2>5 DEF Retreats, SameUploads
    <2>7. Retreats(s, z, u)
      BY <2>3, <2>5, RetreatsTransitive
    <2> QED BY <2>3, <2>5, <2>6, <2>7 DEF z
  <1> QED BY <1>2, <1>3

-----------------------------------------------------------------------------
(* The inductive invariant.                                                *)

OneLoop == \A g, h \in Handlers : HandlerLoop[g] = HandlerLoop[h]

\* An upload that is not there yet is known to nobody.
Unused(s) ==
  \A u \in Uploads :
    s.up[u].loop = None =>
      /\ ~s.up[u].resumable
      /\ u \notin s.uploads
      /\ \A h \in Handlers : s.hd[h].upload # u

UploadOps == {"append", "body", "end", "gone", "offset", "cancel"}

\* A task for an upload waits on the upload's loop, and comes from another one.
Placed(s) ==
  \A l \in Loops : \A i \in 1..Len(s.queue[l]) :
    s.queue[l][i].op \in UploadOps =>
      /\ s.up[s.queue[l][i].u].loop = l
      /\ HandlerLoop[s.queue[l][i].h] # l

\* Between requests a handler is to be reset, unless it has no upload to tell.
BetweenRequests(r) == r.conn = "open" /\ ~r.body.open /\ ~r.shouldReset

Idle(s) ==
  \A h \in Handlers : BetweenRequests(s.hd[h]) => s.hd[h].upload \notin Uploads

Registered(s) ==
  \A u \in Uploads : s.up[u].channel /\ s.up[u].resumable => u \in s.uploads

Timed(s) == \A u \in Uploads : TimedAt(s, u)

\* On one loop nothing waits, and an upload and its handler know each other.
Together(s) ==
  /\ \A l \in Loops : s.queue[l] = <<>>
  /\ \A u \in Uploads, h \in Handlers :
       /\ s.up[u].loop # None => HandlerLoop[h] = s.up[u].loop
       /\ s.up[u].handler = h => s.hd[h].upload = u /\ s.hd[h].context
  /\ \A h \in Handlers : BetweenRequests(s.hd[h]) => s.hd[h].context

Sound(s) ==
  /\ s \in States
  /\ Unused(s)
  /\ Placed(s)
  /\ Idle(s)
  /\ Registered(s)
  /\ OneLoop => Together(s)

IInv == Sound(State) /\ Timed(State)

\* Letting go leaves the rest sound.
LEMMA RetreatKeepsSound ==
  ASSUME NEW s, Sound(s), NEW u \in Uploads, s.up[u].loop # None, NEW t, Retreats(s, t, u)
  PROVE  Sound(t)
  <1>1. s \in States /\ t \in States
    BY DEF Sound, Retreats
  <1>2. \A v \in Uploads :
          /\ t.up[v].loop = s.up[v].loop
          /\ t.up[v].resumable = s.up[v].resumable
          /\ t.up[v].channel => s.up[v].channel
          /\ t.up[v].handler = s.up[v].handler \/ t.up[v].handler = None
    BY DEF Retreats, SameUploads
  <1>3. Unused(t)
    BY <1>2 DEF Sound, Unused, Retreats, SameHandlers
  <1>4. Placed(t)
    <2> SUFFICES ASSUME NEW l \in Loops, NEW i \in 1..Len(t.queue[l]),
                        t.queue[l][i].op \in UploadOps
                 PROVE  /\ t.up[t.queue[l][i].u].loop = l
                        /\ HandlerLoop[t.queue[l][i].h] # l
      BY DEF Placed
    <2>1. Lengthens(s.queue[l], t.queue[l])
      BY DEF Retreats
    <2>2. Len(s.queue[l]) \in Nat /\ Len(t.queue[l]) \in Nat
      BY <1>1, StateFields, LenProperties
    <2>3. t.queue[l][i] \notin HandlerTasks
      BY DEF HandlerTasks, UploadOps
    <2>4. i \in 1..Len(s.queue[l]) /\ t.queue[l][i] = s.queue[l][i]
      BY <2>1, <2>2, <2>3 DEF Lengthens
    <2>5. s.queue[l][i] \in Tasks /\ s.queue[l][i].op \in UploadOps
      BY <1>1, <2>4, StateFields, ElementOfSeq
    <2>6. s.queue[l][i].u \in Uploads
      BY <2>3, <2>4, <2>5 DEF Tasks, UploadTasks
    <2> QED BY <1>2, <2>4, <2>5, <2>6 DEF Sound, Placed
  <1>5. Idle(t)
    BY DEF Sound, Idle, BetweenRequests, Retreats, SameHandlers
  <1>6. Registered(t)
    BY <1>2 DEF Sound, Registered, Retreats
  <1>7. ASSUME OneLoop
        PROVE  Together(t)
    <2>1. Together(s)
      BY <1>7 DEF Sound
    <2>2. t.queue = s.queue
      BY <2>1 DEF Together, Retreats
    <2>3. ASSUME NEW h \in Handlers, BetweenRequests(t.hd[h])
          PROVE  t.hd[h].context
      <3>1. BetweenRequests(s.hd[h])
        BY <2>3 DEF BetweenRequests, Retreats, SameHandlers
      <3>2. s.hd[h].context /\ s.hd[h].upload \notin Uploads
        BY <2>1, <3>1 DEF Together, Sound, Idle
      <3>3. s.up[u].handler # h
        BY <2>1, <3>2 DEF Together
      <3> QED BY <3>2, <3>3 DEF Retreats, SameHandlers
    <2>4. ASSUME NEW v \in Uploads, NEW h \in Handlers, t.up[v].handler = h
          PROVE  t.hd[h].upload = v /\ t.hd[h].context
      <3>1. h # None
        BY ValueAssumption
      <3>2. s.up[v].handler = h
        BY <1>2, <2>4, <3>1
      <3>3. s.hd[h].upload = v /\ s.hd[h].context
        BY <2>1, <3>2 DEF Together
      <3>4. s.up[u].handler = h => u = v
        BY <2>1, <3>3 DEF Together
      <3>5. t.hd[h].context = s.hd[h].context \/ (s.up[u].handler = h /\ t.up[u].handler = None)
        BY DEF Retreats, SameHandlers
      <3>6. t.hd[h].context
        BY <2>4, <3>1, <3>3, <3>4, <3>5
      <3> QED BY <3>3, <3>6 DEF Retreats, SameHandlers
    <2> QED BY <1>2, <2>1, <2>2, <2>3, <2>4 DEF Together
  <1> QED BY <1>1, <1>3, <1>4, <1>5, <1>6, <1>7 DEF Sound

\* Letting go leaves the other timers alone.
LEMMA RetreatKeepsTimed ==
  ASSUME NEW s, Timed(s), NEW u \in Uploads, NEW t, Retreats(s, t, u),
         TimedAt(s, u) => TimedAt(t, u)
  PROVE  Timed(t)
  BY DEF Timed, TimedAt, Retreats, SameUploads

\* What counts the bytes of an upload, or says that it is complete.
LEMMA CountKeepsSound ==
  ASSUME NEW s, Sound(s), Timed(s), NEW u \in Uploads, NEW r \in UploadRecords,
         r.loop = s.up[u].loop, r.resumable = s.up[u].resumable, r.channel = s.up[u].channel,
         r.handler = s.up[u].handler, r.timer = s.up[u].timer
  PROVE  Sound(PutUp(s, u, r)) /\ Timed(PutUp(s, u, r))
  <1> DEFINE t == PutUp(s, u, r)
  <1>1. s \in States
    BY DEF Sound
  <1>2. /\ t \in States
        /\ \A v \in Uploads :
             /\ t.up[v].loop = s.up[v].loop
             /\ t.up[v].resumable = s.up[v].resumable
             /\ t.up[v].channel = s.up[v].channel
             /\ t.up[v].handler = s.up[v].handler
             /\ t.up[v].timer = s.up[v].timer
        /\ t.hd = s.hd
        /\ t.uploads = s.uploads
        /\ t.queue = s.queue
    BY <1>1, PutUpIs
  <1> HIDE DEF t
  <1>3. Unused(t) /\ Idle(t) /\ Registered(t)
    BY <1>2 DEF Sound, Unused, Idle, Registered
  <1>4. Placed(t)
    <2> SUFFICES ASSUME NEW l \in Loops, NEW i \in 1..Len(s.queue[l]),
                        s.queue[l][i].op \in UploadOps
                 PROVE  /\ t.up[s.queue[l][i].u].loop = l
                        /\ HandlerLoop[s.queue[l][i].h] # l
      BY <1>2 DEF Placed
    <2>1. s.queue[l][i] \in Tasks
      BY <1>1, StateFields, ElementOfSeq
    <2>2. s.queue[l][i].u \in Uploads
      BY <2>1 DEF Tasks, UploadTasks, HandlerTasks, UploadOps
    <2> QED BY <1>2, <2>2 DEF Sound, Placed
  <1>5. OneLoop => Together(t)
    BY <1>2 DEF Sound, Together
  <1>6. Timed(t)
    BY <1>2 DEF Timed, TimedAt
  <1> QED BY <1>2, <1>3, <1>4, <1>5, <1>6 DEF Sound, t

\* What the application is shown.
LEMMA ShowKeepsSound ==
  ASSUME NEW s, Sound(s), Timed(s), NEW u \in Uploads, NEW a \in AppRecords
  PROVE  Sound(PutApp(s, u, a)) /\ Timed(PutApp(s, u, a))
  <1> DEFINE t == PutApp(s, u, a)
  <1>1. /\ t \in States
        /\ t.hd = s.hd
        /\ t.up = s.up
        /\ t.uploads = s.uploads
        /\ t.queue = s.queue
    BY PutAppIs DEF Sound
  <1> HIDE DEF t
  <1>2. Sound(t)
    BY <1>1 DEF Sound, Unused, Placed, Idle, Registered, Together
  <1>3. Timed(t)
    BY <1>1 DEF Timed, TimedAt
  <1> QED BY <1>2, <1>3 DEF t

\* A handler is attached to an upload that has none; on one loop, to the one it knows.
LEMMA AttachKeepsSound ==
  ASSUME NEW s, Sound(s), Timed(s), NEW u \in Uploads, NEW h \in Handlers, NEW request,
         s.up[u].loop # None, s.up[u].handler = None,
         OneLoop => s.hd[h].upload = u /\ s.hd[h].context,
         NEW r, AttachedTo(s.up[u], r, h, request)
  PROVE  Sound(PutUp(s, u, r)) /\ Timed(PutUp(s, u, r))
  <1> DEFINE t == PutUp(s, u, r)
  <1>1. s \in States
    BY DEF Sound
  <1>2. /\ t \in States
        /\ \A v \in Uploads :
             /\ t.up[v].loop = s.up[v].loop
             /\ t.up[v].resumable = s.up[v].resumable
             /\ t.up[v].channel = s.up[v].channel
             /\ v # u => t.up[v] = s.up[v]
        /\ t.up[u].handler = h
        /\ t.up[u].timer = FALSE
        /\ t.hd = s.hd
        /\ t.uploads = s.uploads
        /\ t.queue = s.queue
    BY <1>1, PutUpIs DEF AttachedTo
  <1> HIDE DEF t
  <1>3. Unused(t) /\ Idle(t) /\ Registered(t)
    BY <1>2 DEF Sound, Unused, Idle, Registered
  <1>4. Placed(t)
    <2> SUFFICES ASSUME NEW l \in Loops, NEW i \in 1..Len(s.queue[l]),
                        s.queue[l][i].op \in UploadOps
                 PROVE  /\ t.up[s.queue[l][i].u].loop = l
                        /\ HandlerLoop[s.queue[l][i].h] # l
      BY <1>2 DEF Placed
    <2>1. s.queue[l][i] \in Tasks
      BY <1>1, StateFields, ElementOfSeq
    <2>2. s.queue[l][i].u \in Uploads
      BY <2>1 DEF Tasks, UploadTasks, HandlerTasks, UploadOps
    <2> QED BY <1>2, <2>2 DEF Sound, Placed
  <1>5. ASSUME OneLoop
        PROVE  Together(t)
    <2>1. Together(s)
      BY <1>5 DEF Sound
    <2>2. ASSUME NEW v \in Uploads, NEW g \in Handlers, t.up[v].handler = g
          PROVE  t.hd[g].upload = v /\ t.hd[g].context
      BY <1>2, <1>5, <2>1, <2>2 DEF Together
    <2> QED BY <1>2, <2>1, <2>2 DEF Together
  <1>6. Timed(t)
    <2>1. h # None
      BY ValueAssumption
    <2> QED BY <1>2, <2>1 DEF Timed, TimedAt
  <1> QED BY <1>2, <1>3, <1>4, <1>5, <1>6 DEF Sound, t

\* The record of a handler changes.  On one loop it keeps what its upload relies on.
LEMMA HandlerKeepsSound ==
  ASSUME NEW s, Sound(s), Timed(s), NEW h \in Handlers, NEW r \in HandlerRecords,
         \A u \in Uploads : r.upload = u => s.up[u].loop # None,
         BetweenRequests(r) => r.upload \notin Uploads /\ (OneLoop => r.context),
         OneLoop => \A u \in Uploads : s.up[u].handler = h => r.upload = u /\ r.context
  PROVE  Sound(PutHd(s, h, r)) /\ Timed(PutHd(s, h, r))
  <1> DEFINE t == PutHd(s, h, r)
  <1>1. /\ t \in States
        /\ t.hd[h] = r
        /\ \A g \in Handlers \ {h} : t.hd[g] = s.hd[g]
        /\ t.up = s.up
        /\ t.uploads = s.uploads
        /\ t.queue = s.queue
    BY PutHdIs DEF Sound
  <1> HIDE DEF t
  <1>2. Unused(t)
    BY <1>1 DEF Sound, Unused
  <1>3. Placed(t) /\ Registered(t)
    BY <1>1 DEF Sound, Placed, Registered
  <1>4. Idle(t)
    BY <1>1 DEF Sound, Idle
  <1>5. ASSUME OneLoop
        PROVE  Together(t)
    <2>1. Together(s)
      BY <1>5 DEF Sound
    <2>2. ASSUME NEW v \in Uploads, NEW g \in Handlers, t.up[v].handler = g
          PROVE  t.hd[g].upload = v /\ t.hd[g].context
      BY <1>1, <1>5, <2>1, <2>2 DEF Together
    <2>3. \A g \in Handlers : BetweenRequests(t.hd[g]) => t.hd[g].context
      BY <1>1, <1>5, <2>1 DEF Together
    <2> QED BY <1>1, <2>1, <2>2, <2>3 DEF Together
  <1>6. Timed(t)
    BY <1>1 DEF Timed, TimedAt
  <1> QED BY <1>1, <1>2, <1>3, <1>4, <1>5, <1>6 DEF Sound, t

\* A task for an upload of another loop waits there.
LEMMA EnqueueKeepsSound ==
  ASSUME NEW s, Sound(s), Timed(s), NEW t \in UploadTasks, NEW l \in Loops,
         s.up[t.u].loop = l, HandlerLoop[t.h] # l
  PROVE  Sound(Enqueue(s, l, t)) /\ Timed(Enqueue(s, l, t))
  <1> DEFINE z == Enqueue(s, l, t)
  <1>1. s \in States /\ t \in Tasks /\ t.u \in Uploads /\ t.h \in Handlers
    BY DEF Sound, Tasks, UploadTasks
  <1>2. /\ z \in States
        /\ z.queue[l] = Append(s.queue[l], t)
        /\ \A m \in Loops \ {l} : z.queue[m] = s.queue[m]
        /\ z.hd = s.hd
        /\ z.up = s.up
        /\ z.uploads = s.uploads
    BY <1>1, EnqueueIs
  <1> HIDE DEF z
  <1>3. Placed(z)
    <2> SUFFICES ASSUME NEW m \in Loops, NEW i \in 1..Len(z.queue[m]),
                        z.queue[m][i].op \in UploadOps
                 PROVE  /\ s.up[z.queue[m][i].u].loop = m
                        /\ HandlerLoop[z.queue[m][i].h] # m
      BY <1>2 DEF Placed
    <2>1. CASE m # l
      BY <1>2, <2>1 DEF Sound, Placed
    <2>2. CASE m = l
      <3>1. s.queue[l] \in Seq(Tasks)
        BY <1>1, StateFields
      <3>2. /\ Len(s.queue[l]) \in Nat
            /\ Len(z.queue[l]) = Len(s.queue[l]) + 1
            /\ z.queue[l][Len(s.queue[l]) + 1] = t
            /\ \A k \in 1..Len(s.queue[l]) : z.queue[l][k] = s.queue[l][k]
        BY <1>1, <1>2, <3>1, AppendProperties, LenProperties
      <3>3. CASE i \in 1..Len(s.queue[l])
        <4>1. z.queue[m][i] = s.queue[l][i]
          BY <2>2, <3>2, <3>3
        <4> QED BY <2>2, <3>3, <4>1 DEF Sound, Placed
      <3>4. CASE i = Len(s.queue[l]) + 1
        BY <2>2, <3>2, <3>4
      <3> QED BY <2>2, <3>2, <3>3, <3>4
    <2> QED BY <2>1, <2>2
  <1>4. OneLoop => Together(z)
    BY <1>1, LoopAssumption, ValueAssumption DEF Sound, Together
  <1>5. Unused(z) /\ Idle(z) /\ Registered(z)
    BY <1>2 DEF Sound, Unused, Idle, Registered
  <1>6. Timed(z)
    BY <1>2 DEF Timed, TimedAt
  <1> QED BY <1>2, <1>3, <1>4, <1>5, <1>6 DEF Sound, z

\* The end of a request is shown to the application while there is a channel.
LEMMA DeliverEndIs ==
  ASSUME NEW s \in States, NEW u \in Uploads
  PROVE  \/ ~s.up[u].channel /\ DeliverEnd(s, u) = s
         \/ /\ s.up[u].channel
            /\ DeliverEnd(s, u) = PutApp(s, u, [s.app[u] EXCEPT !.ends = @ + 1])
            /\ [s.app[u] EXCEPT !.ends = @ + 1] \in AppRecords
  <1>1. s.app[u] \in AppRecords
    BY StateFields
  <1>2. [s.app[u] EXCEPT !.ends = @ + 1] \in AppRecords
    BY <1>1 DEF AppRecords
  <1>3. [s EXCEPT !.app[u].ends = @ + 1] = PutApp(s, u, [s.app[u] EXCEPT !.ends = @ + 1])
    BY DEF PutApp, States
  <1> QED BY <1>2, <1>3 DEF DeliverEnd

Counted(s, u) == [s.up[u] EXCEPT !.offset = @ + 1]

ShowsInOrder(s, u, pos) ==
  s.app[u].ordered /\ pos = s.app[u].received /\ s.app[u].ends = 0

Shown(s, u, pos) ==
  [s.app[u] EXCEPT !.received = @ + 1, !.ordered = ShowsInOrder(s, u, pos)]

TooLong(s, u) == s.up[u].length # Unknown /\ s.up[u].offset + 1 > s.up[u].length

\* A byte is counted, and shown while there is a channel; unless it is one too many.
LEMMA ReceiveBodyIs ==
  ASSUME NEW s \in States, NEW u \in Uploads, NEW h \in Handlers, NEW pos
  PROVE  LET z == ReceiveBody(s, u, h, pos)
             y == PutUp(s, u, Counted(s, u)) IN
         /\ Counted(s, u) \in UploadRecords
         /\ Shown(s, u, pos) \in AppRecords
         /\ TooLong(s, u) => z = RespondAndDetach(y, u, h)
         /\ ~TooLong(s, u) /\ s.up[u].channel => z = PutApp(y, u, Shown(s, u, pos))
         /\ ~TooLong(s, u) /\ ~s.up[u].channel => z = y
  <1> DEFINE z == ReceiveBody(s, u, h, pos)
             r == Counted(s, u)
             ordered == ShowsInOrder(s, u, pos)
             a == Shown(s, u, pos)
             y == PutUp(s, u, r)
             counted == [s EXCEPT !.up[u].offset = @ + 1]
  <1>1. s.up[u] \in UploadRecords /\ s.app[u] \in AppRecords
    BY StateFields
  <1>2. r \in UploadRecords
    BY <1>1 DEF UploadRecords, Counted
  <1>3. ordered \in BOOLEAN
    BY DEF ShowsInOrder
  <1> HIDE DEF ordered
  <1>4. a \in AppRecords
    <2>1. s.app[u].received + 1 \in Nat
      BY <1>1 DEF AppRecords
    <2>2. \A n \in Nat, b \in BOOLEAN :
            [s.app[u] EXCEPT !.received = n, !.ordered = b] \in AppRecords
      BY <1>1 DEF AppRecords
    <2> QED BY <1>3, <2>1, <2>2 DEF Shown, ordered
  <1>5. counted = y
    BY DEF PutUp, States, Counted
  <1>6. y.up[u].offset = s.up[u].offset + 1
    BY DEF PutUp, States, UploadRecords, Counted
  <1>7. [y EXCEPT !.app[u].received = @ + 1, !.app[u].ordered = ordered] = PutApp(y, u, a)
    <2>1. y.app = s.app
      BY <1>2, PutUpIs
    <2>2. y \in States
      BY <1>2, PutUpIs
    <2> HIDE DEF y
    <2> QED BY <2>1, <2>2 DEF PutApp, States, Shown, ordered
  <1>8. counted.app[u].ordered = s.app[u].ordered
    BY DEF States
  <1>9. z = IF s.up[u].length # Unknown /\ counted.up[u].offset > s.up[u].length
              THEN RespondAndDetach(counted, u, h)
            ELSE IF s.up[u].channel
              THEN [counted EXCEPT !.app[u].received = @ + 1, !.app[u].ordered = ordered]
            ELSE counted
    BY <1>8 DEF ReceiveBody, ordered, ShowsInOrder
  <1> HIDE DEF counted, z, y, a
  <1>10. z = IF TooLong(s, u) THEN RespondAndDetach(y, u, h)
             ELSE IF s.up[u].channel THEN PutApp(y, u, a)
             ELSE y
    BY <1>5, <1>6, <1>7, <1>9 DEF TooLong
  <1> QED BY <1>2, <1>4, <1>10 DEF z, y, a

\* A counted byte, and an end that is delivered, leave the invariant.
LEMMA ReceiveKeepsSound ==
  ASSUME NEW s, Sound(s), Timed(s), NEW u \in Uploads, NEW h \in Handlers, NEW pos,
         s.up[u].loop # None
  PROVE  /\ Sound(ReceiveBody(s, u, h, pos)) /\ Timed(ReceiveBody(s, u, h, pos))
         /\ Sound(DeliverEnd(s, u)) /\ Timed(DeliverEnd(s, u))
         /\ Sound(ReceiveEnd(s, u, h)) /\ Timed(ReceiveEnd(s, u, h))
  <1>1. s \in States
    BY DEF Sound
  <1>2. s.up[u] \in UploadRecords
    BY <1>1, StateFields
  <1>3. ASSUME NEW y, Sound(y), Timed(y), y.up[u].loop # None
        PROVE  /\ Sound(RespondAndDetach(y, u, h)) /\ Timed(RespondAndDetach(y, u, h))
               /\ Sound(DeliverEnd(y, u)) /\ Timed(DeliverEnd(y, u))
    <2>1. y \in States
      BY <1>3 DEF Sound
    <2>2. Sound(RespondAndDetach(y, u, h)) /\ Timed(RespondAndDetach(y, u, h))
      BY <1>3, <2>1, RespondAndDetachIs, RetreatKeepsSound, RetreatKeepsTimed
    <2>3. Sound(DeliverEnd(y, u)) /\ Timed(DeliverEnd(y, u))
      <3> DEFINE a == [y.app[u] EXCEPT !.ends = @ + 1]
      <3>1. \/ DeliverEnd(y, u) = y
            \/ DeliverEnd(y, u) = PutApp(y, u, a) /\ a \in AppRecords
        BY <2>1, DeliverEndIs
      <3> HIDE DEF a
      <3>2. a \in AppRecords => Sound(PutApp(y, u, a)) /\ Timed(PutApp(y, u, a))
        BY <1>3, ShowKeepsSound
      <3> QED BY <1>3, <3>1, <3>2
    <2> QED BY <2>2, <2>3
  <1>4. Sound(ReceiveBody(s, u, h, pos)) /\ Timed(ReceiveBody(s, u, h, pos))
    <2> DEFINE z == ReceiveBody(s, u, h, pos)
               r == Counted(s, u)
               a == Shown(s, u, pos)
               y == PutUp(s, u, r)
    <2>1. /\ r \in UploadRecords
          /\ a \in AppRecords
          /\ z = RespondAndDetach(y, u, h) \/ z = PutApp(y, u, a) \/ z = y
      <3>1. /\ r \in UploadRecords
            /\ a \in AppRecords
            /\ TooLong(s, u) => z = RespondAndDetach(y, u, h)
            /\ ~TooLong(s, u) /\ s.up[u].channel => z = PutApp(y, u, a)
            /\ ~TooLong(s, u) /\ ~s.up[u].channel => z = y
        BY <1>1, ReceiveBodyIs
      <3> HIDE DEF r, a, z, y
      <3> QED BY <3>1
    <2>2. /\ r.loop = s.up[u].loop
          /\ r.resumable = s.up[u].resumable
          /\ r.channel = s.up[u].channel
          /\ r.handler = s.up[u].handler
          /\ r.timer = s.up[u].timer
      BY <1>2 DEF UploadRecords, Counted
    <2> HIDE DEF r, a, z
    <2>3. y \in States /\ y.up[u] = r
      BY <1>1, <2>1, PutUpIs
    <2>4. Sound(y) /\ Timed(y)
      BY <2>1, <2>2, CountKeepsSound
    <2> HIDE DEF y
    <2>5. Sound(PutApp(y, u, a)) /\ Timed(PutApp(y, u, a))
      BY <2>1, <2>4, ShowKeepsSound
    <2>6. Sound(RespondAndDetach(y, u, h)) /\ Timed(RespondAndDetach(y, u, h))
      BY <1>3, <2>2, <2>3, <2>4
    <2>7. Sound(z) /\ Timed(z)
      BY <2>1, <2>4, <2>5, <2>6
    <2> QED BY <2>7 DEF z
  <1>5. Sound(DeliverEnd(s, u)) /\ Timed(DeliverEnd(s, u))
    BY <1>3
  <1>6. Sound(ReceiveEnd(s, u, h)) /\ Timed(ReceiveEnd(s, u, h))
    <2> DEFINE r == [s.up[u] EXCEPT !.uploadComplete = TRUE]
               y == PutUp(s, u, r)
    <2>1. /\ r \in UploadRecords
          /\ r.loop = s.up[u].loop
          /\ r.resumable = s.up[u].resumable
          /\ r.channel = s.up[u].channel
          /\ r.handler = s.up[u].handler
          /\ r.timer = s.up[u].timer
      BY <1>2 DEF UploadRecords
    <2>2. [s EXCEPT !.up[u].uploadComplete = TRUE] = y
      BY <1>1 DEF PutUp, States
    <2>3. \/ ReceiveEnd(s, u, h) = DeliverEnd(s, u)
          \/ ReceiveEnd(s, u, h) = DeliverEnd(y, u)
          \/ ReceiveEnd(s, u, h) = RespondAndDetach(s, u, h)
      BY <2>2 DEF ReceiveEnd
    <2> HIDE DEF r
    <2>4. Sound(y) /\ Timed(y) /\ y.up[u].loop # None
      <3>1. y.up[u] = r
        BY <1>1, <2>1, PutUpIs
      <3> QED BY <2>1, <3>1, CountKeepsSound
    <2> HIDE DEF y
    <2> QED BY <1>3, <2>3, <2>4
  <1> QED BY <1>4, <1>5, <1>6

\* A task that u may be told: it is there, and on one loop a request to append comes from
\* the handler that already knows the upload.
Told(s, t) ==
  /\ t \in UploadTasks
  /\ s.up[t.u].loop # None
  /\ OneLoop /\ t.op = "append" => s.hd[t.h].upload = t.u /\ s.hd[t.h].context

\* The types of what a task holds.
LEMMA UploadTaskFields ==
  ASSUME NEW t \in UploadTasks
  PROVE  /\ t.u \in Uploads
         /\ t.h \in Handlers
         /\ t.op \in UploadOps
         /\ t.op \in {"body", "end", "gone"} => t.pos \in 0..FileLength
         /\ t.op = "append" => t.request \in UploadRequests
  BY DEF UploadTasks, UploadOps

\* Whatever u is told leaves the invariant.
LEMMA UploadTaskKeepsSound ==
  ASSUME NEW s, Sound(s), Timed(s), NEW t, Told(s, t)
  PROVE  Sound(UploadTask(s, t)) /\ Timed(UploadTask(s, t))
  <1> DEFINE u == t.u
             h == t.h
             z == UploadTask(s, t)
  <1>1. s \in States /\ u \in Uploads /\ h \in Handlers /\ s.up[u].loop # None
    BY UploadTaskFields DEF Sound, Told
  <1>2. CASE t.op = "body" /\ Expected(s, u, h)
    BY <1>1, <1>2, ReceiveKeepsSound DEF UploadTask
  <1>3. CASE t.op = "end" /\ Expected(s, u, h)
    BY <1>1, <1>3, ReceiveKeepsSound DEF UploadTask
  <1>4. CASE t.op = "append"
    <2>1. t.request \in UploadRequests
      BY <1>4, UploadTaskFields DEF Told
    <2>2. z = UploadAppending(s, u, h, t.request)
      BY <1>4 DEF UploadTask
    <2>3. OneLoop => s.hd[h].upload = u /\ s.hd[h].context
      BY <1>4 DEF Told
    <2> HIDE DEF z, u, h
    <2>4. \/ /\ s.up[u].handler = None
             /\ \E a : AttachedTo(s.up[u], a, h, t.request) /\ z = PutUp(s, u, a)
          \/ /\ Retreats(s, z, u)
             /\ TimedAt(s, u) => TimedAt(z, u)
      BY <1>1, <2>1, <2>2, UploadAppendingIs
    <2>5. CASE /\ s.up[u].handler = None
               /\ \E a : AttachedTo(s.up[u], a, h, t.request) /\ z = PutUp(s, u, a)
      <3>1. PICK a : AttachedTo(s.up[u], a, h, t.request) /\ z = PutUp(s, u, a)
        BY <2>5
      <3>2. Sound(PutUp(s, u, a)) /\ Timed(PutUp(s, u, a))
        BY <1>1, <2>3, <2>5, <3>1, AttachKeepsSound
      <3> QED BY <3>1, <3>2 DEF z
    <2>6. CASE Retreats(s, z, u) /\ (TimedAt(s, u) => TimedAt(z, u))
      <3>1. Sound(z) /\ Timed(z)
        BY <1>1, <2>6, RetreatKeepsSound, RetreatKeepsTimed
      <3> QED BY <3>1 DEF z
    <2> QED BY <2>4, <2>5, <2>6
  <1>5. CASE \/ t.op = "gone" /\ Expected(s, u, h)
             \/ t.op \in {"offset", "cancel"}
    <2>1. \/ z = HandlerEnded(s, u)
          \/ z = OffsetRetrieving(s, u, h)
          \/ z = UploadCancellation(s, u)
      BY <1>5 DEF UploadTask
    <2> HIDE DEF z, u, h
    <2>2. Retreats(s, z, u) /\ (TimedAt(s, u) => TimedAt(z, u))
      BY <1>1, <2>1, EndingIs
    <2>3. Sound(z) /\ Timed(z)
      BY <1>1, <2>2, RetreatKeepsSound, RetreatKeepsTimed
    <2> QED BY <2>3 DEF z
  <1>6. CASE t.op \in {"body", "end", "gone"} /\ ~Expected(s, u, h)
    BY <1>6 DEF UploadTask
  <1> QED BY <1>2, <1>3, <1>4, <1>5, <1>6, UploadTaskFields DEF Told, UploadOps

\* A connection tells an upload, at once or through the upload's loop.
LEMMA WithUploadKeepsSound ==
  ASSUME NEW s, Sound(s), Timed(s), NEW t, Told(s, t)
  PROVE  /\ Sound(WithUpload(s, HandlerLoop[t.h], t))
         /\ Timed(WithUpload(s, HandlerLoop[t.h], t))
  <1>1. s.up[t.u].loop \in Loops
    BY StateFields, UploadTaskFields DEF Told, Sound, UploadRecords
  <1>2. CASE s.up[t.u].loop = HandlerLoop[t.h]
    BY <1>2, UploadTaskKeepsSound DEF WithUpload
  <1>3. CASE s.up[t.u].loop # HandlerLoop[t.h]
    <2>1. WithUpload(s, HandlerLoop[t.h], t) = Enqueue(s, s.up[t.u].loop, t)
      BY <1>3 DEF WithUpload
    <2> QED BY <1>1, <1>3, <2>1, EnqueueKeepsSound DEF Told
  <1> QED BY <1>2, <1>3

-----------------------------------------------------------------------------
(* What connections do.                                                    *)

Telling(s, h, op) ==
  [op |-> op, u |-> s.hd[h].upload, h |-> h, pos |-> hd[h].body.pos]

\* What a connection tells its upload is told to an upload that is there.
LEMMA TellingIs ==
  ASSUME NEW s, Sound(s), NEW h \in Handlers, hd[h].body.pos \in 0..FileLength,
         NEW op \in {"body", "end", "gone"}
  PROVE  /\ s.hd[h].upload \notin Uploads => TellUpload(s, h, op) = s
         /\ s.hd[h].upload \in Uploads =>
              /\ Told(s, Telling(s, h, op))
              /\ Telling(s, h, op) \in UploadTasks
              /\ TellUpload(s, h, op)
                   = WithUpload(s, HandlerLoop[h], Telling(s, h, op))
  <1> DEFINE t == Telling(s, h, op)
  <1>1. CASE s.hd[h].upload \notin Uploads
    BY <1>1 DEF TellUpload
  <1>2. CASE s.hd[h].upload \in Uploads
    <2>1. t \in UploadTasks /\ t.u = s.hd[h].upload /\ t.op # "append"
      BY <1>2 DEF UploadTasks, Telling
    <2>2. s.up[t.u].loop # None
      BY <1>2, <2>1 DEF Sound, Unused
    <2>3. Told(s, t)
      BY <2>1, <2>2 DEF Told
    <2>4. TellUpload(s, h, op) = WithUpload(s, HandlerLoop[h], t)
      BY <1>2 DEF TellUpload, Telling
    <2> QED BY <1>2, <2>1, <2>3, <2>4
  <1> QED BY <1>1, <1>2

\* Telling leaves the invariant.
LEMMA TellKeepsSound ==
  ASSUME NEW s, Sound(s), Timed(s), NEW h \in Handlers, hd[h].body.pos \in 0..FileLength,
         NEW op \in {"body", "end", "gone"}
  PROVE  Sound(TellUpload(s, h, op)) /\ Timed(TellUpload(s, h, op))
  <1> DEFINE t == Telling(s, h, op)
  <1>1. CASE s.hd[h].upload \notin Uploads
    BY <1>1, TellingIs
  <1>2. CASE s.hd[h].upload \in Uploads
    <2>1. Told(s, t) /\ TellUpload(s, h, op) = WithUpload(s, HandlerLoop[h], t)
      BY <1>2, TellingIs
    <2>2. t.h = h
      BY DEF Telling
    <2> HIDE DEF t
    <2>3. Sound(WithUpload(s, HandlerLoop[t.h], t)) /\ Timed(WithUpload(s, HandlerLoop[t.h], t))
      BY <2>1, WithUploadKeepsSound
    <2> QED BY <2>1, <2>2, <2>3
  <1> QED BY <1>1, <1>2

\* What a handler that goes leaves: its upload lets go of it, or will be told.
LEMMA GoneIs ==
  ASSUME NEW s, Sound(s), NEW h \in Handlers, hd[h].body.pos \in 0..FileLength
  PROVE  LET z == TellUpload(s, h, "gone")
             u == s.hd[h].upload
             t == Telling(s, h, "gone") IN
         \/ /\ z = s
            /\ u \in Uploads => s.up[u].loop = HandlerLoop[h] /\ s.up[u].handler # h
         \/ /\ u \in Uploads
            /\ s.up[u].loop = HandlerLoop[h]
            /\ s.up[u].handler = h
            /\ Retreats(s, z, u)
            /\ z.up[u].handler = None
         \/ /\ u \in Uploads
            /\ s.up[u].loop # HandlerLoop[h]
            /\ z = Enqueue(s, s.up[u].loop, t)
  <1> DEFINE z == TellUpload(s, h, "gone")
             u == s.hd[h].upload
             t == Telling(s, h, "gone")
  <1>1. CASE u \notin Uploads
    BY <1>1, TellingIs
  <1>2. CASE u \in Uploads
    <2>1. z = WithUpload(s, HandlerLoop[h], t)
      BY <1>2, TellingIs
    <2>2. t.u = u /\ t.h = h /\ t.op = "gone"
      BY DEF Telling
    <2> HIDE DEF t, z, u
    <2>3. CASE s.up[u].loop # HandlerLoop[h]
      BY <1>2, <2>1, <2>2, <2>3 DEF WithUpload, z, t, u
    <2>4. CASE s.up[u].loop = HandlerLoop[h] /\ s.up[u].handler # h
      BY <1>2, <2>1, <2>2, <2>4 DEF WithUpload, UploadTask, Expected, z, t, u
    <2>5. CASE s.up[u].loop = HandlerLoop[h] /\ s.up[u].handler = h
      <3>1. z = HandlerEnded(s, u)
        BY <2>1, <2>2, <2>5 DEF WithUpload, UploadTask, Expected
      <3>2. Retreats(s, z, u) /\ z.up[u].handler = None
        BY <1>2, <3>1, EndingIs DEF Sound
      <3> QED BY <1>2, <2>5, <3>2 DEF z, u
    <2> QED BY <2>3, <2>4, <2>5
  <1> QED BY <1>1, <1>2

\* On one loop a handler that has gone is attached to nothing.
LEMMA GoneDetaches ==
  ASSUME NEW s, Sound(s), NEW h \in Handlers, hd[h].body.pos \in 0..FileLength, OneLoop
  PROVE  \A v \in Uploads : TellUpload(s, h, "gone").up[v].handler # h
  <1> DEFINE z == TellUpload(s, h, "gone")
  <1> SUFFICES ASSUME NEW v \in Uploads, z.up[v].handler = h
               PROVE  FALSE
    OBVIOUS
  <1>1. Together(s) /\ s \in States
    BY DEF Sound
  <1> DEFINE u == s.hd[h].upload
  <1>2. h # None
    BY ValueAssumption
  <1>3. u \in Uploads => s.up[u].loop = HandlerLoop[h]
    BY <1>1 DEF Together, Sound, Unused
  <1>4. \/ z = s /\ (u \in Uploads => s.up[u].handler # h)
        \/ u \in Uploads /\ Retreats(s, z, u) /\ z.up[u].handler = None
    BY <1>3, GoneIs
  <1> HIDE DEF z
  <1>5. s.up[v].handler = h
    BY <1>2, <1>4 DEF Retreats, SameUploads
  <1>6. u = v
    BY <1>1, <1>5 DEF Together
  <1> QED BY <1>2, <1>4, <1>5, <1>6

\* What h tells the upload of its last request when the head of the next one comes.
Parted(h) == IF hd[h].shouldReset THEN TellUpload(State, h, "gone") ELSE State

\* The head of a request makes the handler of h anew, once the last request has ended.
LEMMA AfterHeadIs ==
  ASSUME IInv, NEW h \in Handlers, SendHead(h), NEW body \in Bodies
  PROVE  \E r \in HandlerRecords :
           /\ AfterHead(h, body) = PutHd(Parted(h), h, r)
           /\ r.body = body
           /\ r.upload \in {Fresh, Spent}
           /\ OneLoop => r.context
  <1> DEFINE y == Parted(h)
             old == y.hd[h]
             last == [old EXCEPT !.body = body, !.requests = @ + 1]
             fresh == [old EXCEPT !.context = TRUE, !.upload = Fresh, !.shouldReset = FALSE]
             new == [fresh EXCEPT !.body = body, !.requests = @ + 1]
  <1>1. Sound(State) /\ State \in States /\ State.hd = hd
    BY DEF IInv, Sound, State
  <1>2. hd[h] \in HandlerRecords
    BY <1>1, StateFields
  <1>3. hd[h].body.pos \in 0..FileLength
    BY <1>2 DEF HandlerRecords, Bodies
  <1>4. y \in States
    BY <1>1, <1>3, TellKeepsSound DEF IInv, Sound, Parted
  <1>5. old \in HandlerRecords
    BY <1>4, StateFields
  <1>6. CASE ~hd[h].shouldReset
    <2>1. y = State
      BY <1>6 DEF Parted
    <2>2. AfterHead(h, body) = PutHd(y, h, last)
      <3>1. ResetUpload(State, h) = State
        BY <1>1, <1>6 DEF ResetUpload
      <3> QED BY <1>1, <2>1, <3>1 DEF AfterHead, PutHd, States
    <2>3. BetweenRequests(hd[h])
      BY <1>6 DEF BetweenRequests, SendHead
    <2>4. hd[h].upload \notin Uploads /\ (OneLoop => hd[h].context)
      BY <1>1, <2>3 DEF Sound, Idle, Together
    <2>5. /\ last \in HandlerRecords
          /\ last.body = body
          /\ last.upload = hd[h].upload
          /\ last.context = hd[h].context
      <3>1. \A n \in Nat : [old EXCEPT !.body = body, !.requests = n] \in HandlerRecords
        BY <1>5 DEF HandlerRecords
      <3>2. old.requests + 1 \in Nat
        BY <1>5 DEF HandlerRecords
      <3>3. last \in HandlerRecords
        BY <3>1, <3>2
      <3>4. last.body = body /\ last.upload = old.upload /\ last.context = old.context
        BY <1>5 DEF HandlerRecords
      <3> QED BY <1>1, <2>1, <3>3, <3>4
    <2>6. hd[h].upload \in {Fresh, Spent}
      BY <1>2, <2>4 DEF HandlerRecords
    <2> HIDE DEF last
    <2> QED BY <2>2, <2>4, <2>5, <2>6
  <1>7. CASE hd[h].shouldReset
    <2>1. y = TellUpload(State, h, "gone")
      BY <1>7 DEF Parted
    <2>2. ResetUpload(State, h) = [y EXCEPT !.hd[h].context = TRUE,
                                            !.hd[h].upload = Fresh,
                                            !.hd[h].shouldReset = FALSE]
      BY <1>1, <1>7, <2>1 DEF ResetUpload
    <2> HIDE DEF y
    <2>3. AfterHead(h, body) = PutHd(y, h, new)
      <3>1. ResetUpload(State, h) = PutHd(y, h, fresh)
        BY <1>4, <2>2 DEF PutHd, States
      <3>2. PutHd(y, h, fresh).hd[h] = fresh
        BY <1>4 DEF PutHd, States
      <3>3. AfterHead(h, body)
              = [PutHd(y, h, fresh) EXCEPT !.hd[h].body = body, !.hd[h].requests = @ + 1]
        BY <3>1 DEF AfterHead
      <3> HIDE DEF fresh
      <3>4. AfterHead(h, body) = PutHd(PutHd(y, h, fresh), h, new)
        BY <1>4, <3>2, <3>3 DEF PutHd, States
      <3> QED BY <1>4, <3>4 DEF PutHd, States
    <2>4. fresh \in HandlerRecords /\ fresh.context = TRUE /\ fresh.upload = Fresh
      BY <1>5 DEF HandlerRecords
    <2> HIDE DEF fresh
    <2>5. new \in HandlerRecords /\ new.body = body /\ new.upload = Fresh /\ new.context = TRUE
      <3>1. \A n \in Nat : [fresh EXCEPT !.body = body, !.requests = n] \in HandlerRecords
        BY <2>4 DEF HandlerRecords
      <3>2. fresh.requests + 1 \in Nat
        BY <2>4 DEF HandlerRecords
      <3>3. new \in HandlerRecords
        BY <3>1, <3>2
      <3>4. new.body = body /\ new.upload = fresh.upload /\ new.context = fresh.context
        BY <2>4 DEF HandlerRecords
      <3> QED BY <2>4, <3>3, <3>4
    <2> HIDE DEF new
    <2> QED BY <2>3, <2>5 DEF y
  <1> QED BY <1>6, <1>7

\* The state in which the head of a request is handled.
LEMMA AfterHeadKeepsSound ==
  ASSUME IInv, NEW h \in Handlers, SendHead(h), NEW body \in Bodies, body.open
  PROVE  LET z == AfterHead(h, body) IN
         /\ Sound(z)
         /\ Timed(z)
         /\ z.hd[h].body = body
         /\ z.hd[h].upload \in {Fresh, Spent}
         /\ \A u \in Uploads : /\ z.up[u].loop = up[u].loop
                               /\ z.up[u].resumable = up[u].resumable
         /\ OneLoop => /\ z.hd[h].context
                       /\ \A u \in Uploads : z.up[u].handler # h
  <1> DEFINE y == Parted(h)
             z == AfterHead(h, body)
  <1>1. Sound(State) /\ Timed(State) /\ State \in States /\ State.hd = hd /\ State.up = up
    BY DEF IInv, Sound, State
  <1>2. hd[h].body.pos \in 0..FileLength
    BY <1>1, StateFields DEF HandlerRecords, Bodies
  <1>3. Sound(y) /\ Timed(y) /\ y \in States
    BY <1>1, <1>2, TellKeepsSound DEF Sound, Parted
  <1>4. PICK r \in HandlerRecords :
           /\ z = PutHd(y, h, r)
           /\ r.body = body
           /\ r.upload \in {Fresh, Spent}
           /\ OneLoop => r.context
    BY AfterHeadIs
  <1> HIDE DEF z
  <1>5. \A u \in Uploads : y.up[u].loop = up[u].loop /\ y.up[u].resumable = up[u].resumable
    <2>1. CASE ~hd[h].shouldReset
      BY <1>1, <2>1 DEF Parted
    <2>2. CASE hd[h].shouldReset
      <3> DEFINE v == State.hd[h].upload
                 t == Telling(State, h, "gone")
      <3>1. y = TellUpload(State, h, "gone")
        BY <2>2 DEF Parted
      <3> HIDE DEF y
      <3>2. \/ y = State
            \/ v \in Uploads /\ Retreats(State, y, v)
            \/ /\ v \in Uploads
               /\ State.up[v].loop # HandlerLoop[h]
               /\ y = Enqueue(State, State.up[v].loop, t)
        BY <1>1, <1>2, <3>1, GoneIs
      <3> HIDE DEF v, t
      <3>3. CASE v \in Uploads /\ Retreats(State, y, v)
        BY <1>1, <3>3 DEF Retreats, SameUploads
      <3>4. CASE y = Enqueue(State, State.up[v].loop, t)
        BY <1>1, <3>4 DEF Enqueue, States
      <3> QED BY <1>1, <3>2, <3>3, <3>4
    <2> QED BY <2>1, <2>2
  <1>6. OneLoop => \A u \in Uploads : y.up[u].handler # h
    <2>1. CASE ~hd[h].shouldReset
      <3>1. BetweenRequests(hd[h])
        BY <2>1 DEF BetweenRequests, SendHead
      <3>2. hd[h].upload \notin Uploads
        BY <1>1, <3>1 DEF Sound, Idle
      <3> QED BY <1>1, <2>1, <3>2 DEF Sound, Together, Parted
    <2>2. CASE hd[h].shouldReset
      BY <1>1, <1>2, <2>2, GoneDetaches DEF Parted
    <2> QED BY <2>1, <2>2
  <1> HIDE DEF y
  <1>7. r.upload \notin Uploads
    BY <1>4, ValueAssumption
  <1>8. ~BetweenRequests(r)
    BY <1>4 DEF BetweenRequests
  <1>9. Sound(z) /\ Timed(z)
    BY <1>3, <1>4, <1>6, <1>7, <1>8, HandlerKeepsSound
  <1>10. z.hd[h] = r /\ z.up = y.up
    BY <1>3, <1>4, PutHdIs
  <1> QED BY <1>4, <1>5, <1>6, <1>9, <1>10 DEF z

\* A state that differs in the record of one handler.
LEMMA OnlyHandler ==
  ASSUME NEW s \in States, NEW z \in States, NEW h \in Handlers,
         \A g \in Handlers \ {h} : z.hd[g] = s.hd[g],
         z.up = s.up, z.app = s.app, z.uploads = s.uploads, z.queue = s.queue
  PROVE  z = PutHd(s, h, z.hd[h])
  <1> DEFINE r == z.hd[h]
             y == PutHd(s, h, r)
  <1>1. r \in HandlerRecords
    BY StateFields
  <1> HIDE DEF r
  <1>2. /\ y \in States
        /\ y.hd[h] = r
        /\ \A g \in Handlers \ {h} : y.hd[g] = s.hd[g]
        /\ y.up = s.up
        /\ y.app = s.app
        /\ y.uploads = s.uploads
        /\ y.queue = s.queue
    BY <1>1, PutHdIs
  <1> HIDE DEF y
  <1>3. z.hd = y.hd
    <2>1. \A g \in Handlers : z.hd[g] = y.hd[g]
      BY <1>2 DEF r
    <2> QED BY <1>2, <2>1 DEF States
  <1>4. z = y
    BY <1>2, <1>3 DEF States
  <1> QED BY <1>4 DEF y, r

\* A handler that refuses has let go of its upload.
LEMMA RefuseIs ==
  ASSUME NEW s \in States, NEW h \in Handlers
  PROVE  \E r \in HandlerRecords :
           /\ Refuse(s, h) = PutHd(s, h, r)
           /\ r.upload = Spent
           /\ r.body = s.hd[h].body
           /\ r.shouldReset = s.hd[h].shouldReset
  <1> DEFINE t == [op |-> "respond", h |-> h]
             d == [op |-> "detach", h |-> h, close |-> FALSE]
             x == HandlerTask(s, t)
             y == HandlerTask(x, d)
             r == [y.hd[h] EXCEPT !.upload = Spent]
  <1>1. t \in HandlerTasks /\ d \in HandlerTasks /\ t.h = h /\ d.h = h
    BY DEF HandlerTasks
  <1> HIDE DEF t, d
  <1>2. /\ x \in States
        /\ x.up = s.up /\ x.app = s.app /\ x.uploads = s.uploads /\ x.queue = s.queue
        /\ \A g \in Handlers \ {h} : x.hd[g] = s.hd[g]
        /\ x.hd[h].body = s.hd[h].body
        /\ x.hd[h].shouldReset = s.hd[h].shouldReset
    <2>1. /\ x \in States
          /\ x.up = s.up /\ x.app = s.app /\ x.uploads = s.uploads /\ x.queue = s.queue
          /\ \A g \in Handlers \ {t.h} : x.hd[g] = s.hd[g]
          /\ x.hd[t.h].body = s.hd[t.h].body
          /\ x.hd[t.h].shouldReset = s.hd[t.h].shouldReset
      BY <1>1, HandlerTaskIs
    <2> HIDE DEF x
    <2> QED BY <1>1, <2>1
  <1> HIDE DEF x
  <1>3. /\ y \in States
        /\ y.up = x.up /\ y.app = x.app /\ y.uploads = x.uploads /\ y.queue = x.queue
        /\ \A g \in Handlers \ {h} : y.hd[g] = x.hd[g]
        /\ y.hd[h].body = x.hd[h].body
        /\ y.hd[h].shouldReset = x.hd[h].shouldReset
    <2>1. /\ y \in States
          /\ y.up = x.up /\ y.app = x.app /\ y.uploads = x.uploads /\ y.queue = x.queue
          /\ \A g \in Handlers \ {d.h} : y.hd[g] = x.hd[g]
          /\ y.hd[d.h].body = x.hd[d.h].body
          /\ y.hd[d.h].shouldReset = x.hd[d.h].shouldReset
      BY <1>1, <1>2, HandlerTaskIs
    <2> HIDE DEF y
    <2> QED BY <1>1, <2>1
  <1>4. Refuse(s, h) = [y EXCEPT !.hd[h].upload = Spent]
    BY DEF Refuse, x, t, d
  <1> HIDE DEF y
  <1>5. y.hd[h] \in HandlerRecords
    BY <1>3, StateFields
  <1>6. /\ r \in HandlerRecords
        /\ r.upload = Spent
        /\ r.body = y.hd[h].body
        /\ r.shouldReset = y.hd[h].shouldReset
    BY <1>5 DEF HandlerRecords
  <1>7. Refuse(s, h) = PutHd(y, h, r)
    BY <1>3, <1>4 DEF PutHd, States
  <1> HIDE DEF r
  <1>8. y = PutHd(s, h, y.hd[h])
    BY <1>2, <1>3, OnlyHandler
  <1>9. PutHd(PutHd(s, h, y.hd[h]), h, r) = PutHd(s, h, r)
    BY DEF PutHd, States
  <1>10. PutHd(y, h, r) = PutHd(s, h, r)
    BY <1>8, <1>9
  <1> QED BY <1>2, <1>3, <1>6, <1>7, <1>10

\* Refusing leaves the invariant, while a body is to come and nobody is attached.
LEMMA RefuseKeepsSound ==
  ASSUME NEW s, Sound(s), Timed(s), NEW h \in Handlers, s.hd[h].body.open,
         OneLoop => \A u \in Uploads : s.up[u].handler # h
  PROVE  Sound(Refuse(s, h)) /\ Timed(Refuse(s, h))
  <1>1. PICK r \in HandlerRecords :
           /\ Refuse(s, h) = PutHd(s, h, r)
           /\ r.upload = Spent
           /\ r.body = s.hd[h].body
    BY RefuseIs DEF Sound
  <1>2. r.upload \notin Uploads /\ ~BetweenRequests(r)
    BY <1>1, ValueAssumption DEF BetweenRequests
  <1> QED BY <1>1, <1>2, HandlerKeepsSound

Owning(old, u) == [old EXCEPT !.upload = u]

Created(old, l, h, length, complete, resumable) ==
  [old EXCEPT !.loop = l, !.handler = h, !.channel = TRUE, !.resumable = resumable,
              !.length = length, !.requestIsComplete = complete]

\* What a new upload is.
LEMMA NewUploadIs ==
  ASSUME NEW s \in States, NEW u \in Uploads, NEW h \in Handlers,
         NEW length \in {Unknown, FileLength}, NEW complete \in BOOLEAN,
         NEW resumable \in BOOLEAN
  PROVE  LET z == NewUpload(s, u, h, length, complete, resumable)
             r == Owning(s.hd[h], u)
             a == Created(s.up[u], HandlerLoop[h], h, length, complete, resumable) IN
         /\ r \in HandlerRecords
         /\ a \in UploadRecords
         /\ z \in States
         /\ z.hd[h] = r
         /\ \A g \in Handlers \ {h} : z.hd[g] = s.hd[g]
         /\ z.up[u] = a
         /\ \A v \in Uploads \ {u} : z.up[v] = s.up[v]
         /\ z.app = s.app
         /\ resumable => z.uploads = s.uploads \cup {u}
         /\ ~resumable => z.uploads = s.uploads
         /\ z.queue = s.queue
  <1> DEFINE z == NewUpload(s, u, h, length, complete, resumable)
             r == Owning(s.hd[h], u)
             a == Created(s.up[u], HandlerLoop[h], h, length, complete, resumable)
             S == IF resumable THEN s.uploads \cup {u} ELSE s.uploads
             x == PutHd(s, h, r)
             y == PutUp(x, u, a)
  <1>1. s.hd[h] \in HandlerRecords /\ s.up[u] \in UploadRecords /\ s.uploads \in SUBSET Uploads
    BY StateFields
  <1>2. HandlerLoop[h] \in Loops
    BY LoopAssumption
  <1>3. r \in HandlerRecords
    BY <1>1 DEF HandlerRecords, Owning
  <1>4. a \in UploadRecords
    BY <1>1, <1>2 DEF UploadRecords, Created
  <1>5. S \in SUBSET Uploads
    BY <1>1
  <1>6. z = PutUploads(y, S)
    <2>1. z = [s EXCEPT !.hd[h] = r, !.up[u] = a, !.uploads = S]
      BY DEF NewUpload, Owning, Created, States
    <2> HIDE DEF r, a, S, z
    <2> QED BY <2>1 DEF PutUploads, PutUp, PutHd, States
  <1> HIDE DEF r, a, S, z
  <1>7. /\ x \in States
        /\ x.hd[h] = r
        /\ \A g \in Handlers \ {h} : x.hd[g] = s.hd[g]
        /\ x.up = s.up /\ x.app = s.app /\ x.uploads = s.uploads /\ x.queue = s.queue
    BY <1>3, PutHdIs
  <1> HIDE DEF x
  <1>8. /\ y \in States
        /\ y.up[u] = a
        /\ \A v \in Uploads \ {u} : y.up[v] = x.up[v]
        /\ y.hd = x.hd /\ y.app = x.app /\ y.uploads = x.uploads /\ y.queue = x.queue
    BY <1>4, <1>7, PutUpIs
  <1> HIDE DEF y
  <1>9. /\ z \in States
        /\ z.uploads = S
        /\ z.hd = y.hd /\ z.up = y.up /\ z.app = y.app /\ z.queue = y.queue
    BY <1>5, <1>6, <1>8, PutUploadsIs
  <1> QED BY <1>3, <1>4, <1>7, <1>8, <1>9 DEF z, r, a, S

\* A new upload leaves the invariant.
LEMMA NewUploadKeepsSound ==
  ASSUME NEW s, Sound(s), Timed(s), NEW u \in Uploads, NEW h \in Handlers,
         s.up[u].loop = None, s.hd[h].body.open,
         OneLoop => s.hd[h].context /\ \A v \in Uploads : s.up[v].handler # h,
         NEW length \in {Unknown, FileLength}, NEW complete \in BOOLEAN,
         NEW resumable \in BOOLEAN
  PROVE  LET z == NewUpload(s, u, h, length, complete, resumable) IN Sound(z) /\ Timed(z)
  <1> DEFINE z == NewUpload(s, u, h, length, complete, resumable)
             a == Created(s.up[u], HandlerLoop[h], h, length, complete, resumable)
             r == Owning(s.hd[h], u)
  <1>1. s \in States
    BY DEF Sound
  <1>2. s.hd[h] \in HandlerRecords /\ s.up[u] \in UploadRecords
    BY <1>1, StateFields
  <1>3. /\ z \in States
        /\ z.hd[h] = r
        /\ \A g \in Handlers \ {h} : z.hd[g] = s.hd[g]
        /\ z.up[u] = a
        /\ \A v \in Uploads \ {u} : z.up[v] = s.up[v]
        /\ resumable => z.uploads = s.uploads \cup {u}
        /\ ~resumable => z.uploads = s.uploads
        /\ z.queue = s.queue
    BY <1>1, NewUploadIs
  <1>4. /\ a.loop = HandlerLoop[h] /\ a.handler = h /\ a.channel /\ a.resumable = resumable
        /\ a.timer = s.up[u].timer
    BY <1>2 DEF Created, UploadRecords
  <1>5. /\ r.upload = u /\ r.body = s.hd[h].body /\ r.context = s.hd[h].context
        /\ ~BetweenRequests(r)
    BY <1>2 DEF HandlerRecords, BetweenRequests, Owning
  <1>6. HandlerLoop[h] \in Loops /\ HandlerLoop[h] # None /\ h # None
    BY LoopAssumption, ValueAssumption
  <1> HIDE DEF z, a, r
  <1>7. Unused(z)
    BY <1>3, <1>4, <1>5, <1>6 DEF Sound, Unused
  <1>8. Placed(z)
    <2> SUFFICES ASSUME NEW l \in Loops, NEW i \in 1..Len(s.queue[l]),
                        s.queue[l][i].op \in UploadOps
                 PROVE  /\ z.up[s.queue[l][i].u].loop = l
                        /\ HandlerLoop[s.queue[l][i].h] # l
      BY <1>3 DEF Placed
    <2>1. s.queue[l][i] \in Tasks
      BY <1>1, StateFields, ElementOfSeq
    <2>2. s.queue[l][i].u \in Uploads
      BY <2>1 DEF Tasks, UploadTasks, HandlerTasks, UploadOps
    <2>3. s.up[s.queue[l][i].u].loop = l /\ HandlerLoop[s.queue[l][i].h] # l
      BY DEF Sound, Placed
    <2>4. s.queue[l][i].u # u
      BY <2>3, ValueAssumption
    <2> QED BY <1>3, <2>2, <2>3, <2>4
  <1>9. Idle(z)
    BY <1>3, <1>5 DEF Sound, Idle
  <1>10. Registered(z)
    BY <1>3, <1>4 DEF Sound, Registered
  <1>11. ASSUME OneLoop
         PROVE  Together(z)
    <2>1. Together(s)
      BY <1>11 DEF Sound
    <2>2. \A v \in Uploads, g \in Handlers :
            z.up[v].loop # None => HandlerLoop[g] = z.up[v].loop
      BY <1>3, <1>4, <1>11, <2>1 DEF Together, OneLoop
    <2>3. ASSUME NEW v \in Uploads, NEW g \in Handlers, z.up[v].handler = g
          PROVE  z.hd[g].upload = v /\ z.hd[g].context
      <3>1. CASE v = u
        BY <1>3, <1>4, <1>5, <1>11, <2>3, <3>1
      <3>2. CASE v # u
        BY <1>3, <1>11, <2>1, <2>3, <3>2 DEF Together
      <3> QED BY <3>1, <3>2
    <2>4. \A g \in Handlers : BetweenRequests(z.hd[g]) => z.hd[g].context
      BY <1>3, <1>5, <2>1 DEF Together
    <2> QED BY <1>3, <2>1, <2>2, <2>3, <2>4 DEF Together
  <1>12. Timed(z)
    BY <1>3, <1>4, <1>6 DEF Timed, TimedAt
  <1> QED BY <1>3, <1>7, <1>8, <1>9, <1>10, <1>11, <1>12 DEF Sound, z

-----------------------------------------------------------------------------
(* The actions.                                                            *)

\* An action that becomes a sound state leaves the invariant.
LEMMA BecomesSound ==
  ASSUME NEW t, Sound(t), Timed(t), Become(t)
  PROVE  IInv'
  <1>1. State' = t
    BY Becomes DEF Sound
  <1> QED BY <1>1 DEF IInv

\* What an honest client announces makes a body.
LEMMA BodyIs ==
  ASSUME NEW pos \in 0..FileLength, NEW left \in Lengths, NEW whole \in BOOLEAN
  PROVE  Body(pos, left, whole) \in Bodies /\ Body(pos, left, whole).open
  BY DEF Body, Bodies

\* What an honest client's request holds.
LEMMA RequestFields ==
  ASSUME NEW r \in UploadRequests
  PROVE  /\ r.offset \in 0..FileLength
         /\ r.complete \in BOOLEAN
         /\ r.length \in Lengths
         /\ r.total \in {Unknown, FileLength}
  BY DEF UploadRequests

\* The length 0, a client's next byte, and no length are lengths.
LEMMA LengthsAre == 0 \in 0..FileLength /\ 0 \in Lengths /\ Unknown \in Lengths
  BY BoundAssumption DEF Lengths

\* The first request of an upload leaves the invariant.
LEMMA UploadCreationKeeps ==
  ASSUME IInv, NEW h \in Handlers, NEW u \in Uploads, NEW r \in UploadRequests,
         UploadCreation(h, u, r)
  PROVE  IInv'
  <1> DEFINE body == Body(0, r.length, r.complete)
             z == AfterHead(h, body)
             saved == SaveUploadLength(r.total, 0, r)
             n == saved.length
             c == r.complete
  <1>1. SendHead(h) /\ up[u].loop = None /\ r.offset = 0
    BY DEF UploadCreation
  <1>2. body \in Bodies /\ body.open
    BY LengthsAre, RequestFields, BodyIs
  <1>3. n \in {Unknown, FileLength} /\ c \in BOOLEAN
    BY <1>1, RequestFields, SaveUploadLengthIs
  <1>4. PICK yes \in BOOLEAN : yes = TRUE
    OBVIOUS
  <1>5. Become(IF saved.ok THEN NewUpload(z, u, h, n, c, yes) ELSE Refuse(z, h))
    BY <1>4 DEF UploadCreation
  <1> HIDE DEF body
  <1>6. /\ Sound(z) /\ Timed(z) /\ z.hd[h].body.open
        /\ z.up[u].loop = None
        /\ OneLoop => z.hd[h].context /\ \A v \in Uploads : z.up[v].handler # h
    BY <1>1, <1>2, AfterHeadKeepsSound
  <1> HIDE DEF z, saved, n, c
  <1>7. Sound(NewUpload(z, u, h, n, c, yes)) /\ Timed(NewUpload(z, u, h, n, c, yes))
    BY <1>3, <1>6, NewUploadKeepsSound
  <1>8. Sound(Refuse(z, h)) /\ Timed(Refuse(z, h))
    BY <1>6, RefuseKeepsSound
  <1> QED BY <1>5, <1>7, <1>8, BecomesSound

\* A request that is not about resumable uploads leaves the invariant.
LEMMA PlainRequestKeeps ==
  ASSUME IInv, NEW h \in Handlers, NEW u \in Uploads, NEW length \in Lengths,
         PlainRequest(h, u, length)
  PROVE  IInv'
  <1>1. PICK yes \in BOOLEAN, no \in BOOLEAN : yes = TRUE /\ no = FALSE
    OBVIOUS
  <1> DEFINE body == Body(0, length, no)
             z == AfterHead(h, body)
  <1>2. SendHead(h) /\ up[u].loop = None /\ Become(NewUpload(z, u, h, Unknown, yes, no))
    BY <1>1 DEF PlainRequest
  <1>3. body \in Bodies /\ body.open
    BY LengthsAre, BodyIs
  <1> HIDE DEF body
  <1>4. /\ Sound(z) /\ Timed(z) /\ z.hd[h].body.open
        /\ z.up[u].loop = None
        /\ OneLoop => z.hd[h].context /\ \A v \in Uploads : z.up[v].handler # h
    BY <1>2, <1>3, AfterHeadKeepsSound
  <1> HIDE DEF z
  <1>5. Sound(NewUpload(z, u, h, Unknown, yes, no)) /\ Timed(NewUpload(z, u, h, Unknown, yes, no))
    BY <1>4, NewUploadKeepsSound
  <1> QED BY <1>2, <1>5, BecomesSound

\* A handler that turns to another upload, or to none, while it reads a request.
LEMMA TurnKeepsSound ==
  ASSUME NEW s, Sound(s), Timed(s), NEW h \in Handlers, s.hd[h].body.open,
         NEW u \in Uploads \cup {Spent}, u \in Uploads => s.up[u].loop # None,
         OneLoop => \A v \in Uploads : s.up[v].handler # h
  PROVE  LET z == [s EXCEPT !.hd[h].upload = u] IN
         /\ z = PutHd(s, h, Owning(s.hd[h], u))
         /\ Owning(s.hd[h], u) \in HandlerRecords
         /\ Sound(z) /\ Timed(z)
         /\ z.up = s.up
         /\ z.hd[h].upload = u
         /\ z.hd[h].context = s.hd[h].context
  <1> DEFINE z == [s EXCEPT !.hd[h].upload = u]
             r == Owning(s.hd[h], u)
  <1>1. s \in States /\ s.hd[h] \in HandlerRecords
    BY StateFields DEF Sound
  <1>2. /\ r \in HandlerRecords
        /\ r.upload = u
        /\ r.body = s.hd[h].body
        /\ r.context = s.hd[h].context
    BY <1>1 DEF HandlerRecords, Owning
  <1>3. z = PutHd(s, h, r)
    BY <1>1 DEF PutHd, States, Owning
  <1> HIDE DEF z, r
  <1>4. ~BetweenRequests(r)
    BY <1>2 DEF BetweenRequests
  <1>5. \A v \in Uploads : r.upload = v => s.up[v].loop # None
    BY <1>2
  <1>6. Sound(PutHd(s, h, r)) /\ Timed(PutHd(s, h, r))
    BY <1>2, <1>4, <1>5, HandlerKeepsSound
  <1>7. z.hd[h] = r /\ z.up = s.up
    BY <1>1, <1>2, <1>3, PutHdIs
  <1> QED BY <1>2, <1>3, <1>6, <1>7 DEF z, r

\* A request to append leaves the invariant.
LEMMA AppendRequestKeeps ==
  ASSUME IInv, NEW h \in Handlers, NEW u \in Uploads, NEW r \in UploadRequests,
         AppendRequest(h, u, r)
  PROVE  IInv'
  <1> DEFINE body == Body(r.offset, r.length, r.complete)
             z == AfterHead(h, body)
             y == [z EXCEPT !.hd[h].upload = u]
             t == [op |-> "append", u |-> u, h |-> h, request |-> r]
  <1>1. /\ SendHead(h)
        /\ Become(IF u \in z.uploads THEN WithUpload(y, HandlerLoop[h], t) ELSE Refuse(z, h))
    BY DEF AppendRequest
  <1>2. body \in Bodies /\ body.open
    BY RequestFields, BodyIs
  <1> HIDE DEF body
  <1>3. /\ Sound(z) /\ Timed(z) /\ z.hd[h].body.open
        /\ OneLoop => z.hd[h].context /\ \A v \in Uploads : z.up[v].handler # h
    BY <1>1, <1>2, AfterHeadKeepsSound
  <1> HIDE DEF z
  <1>4. CASE u \in z.uploads
    <2>1. z.up[u].loop # None
      BY <1>3, <1>4 DEF Sound, Unused
    <2>2. /\ Sound(y) /\ Timed(y)
          /\ y.up = z.up
          /\ y.hd[h].upload = u
          /\ y.hd[h].context = z.hd[h].context
      BY <1>3, <2>1, TurnKeepsSound
    <2>3. t \in UploadTasks /\ t.u = u /\ t.h = h
      BY DEF UploadTasks
    <2> HIDE DEF y, t
    <2>4. Told(y, t)
      BY <1>3, <2>1, <2>2, <2>3 DEF Told
    <2>5. Sound(WithUpload(y, HandlerLoop[t.h], t)) /\ Timed(WithUpload(y, HandlerLoop[t.h], t))
      BY <2>2, <2>4, WithUploadKeepsSound
    <2> QED BY <1>1, <1>4, <2>3, <2>5, BecomesSound
  <1>5. CASE u \notin z.uploads
    BY <1>1, <1>3, <1>5, RefuseKeepsSound, BecomesSound
  <1> QED BY <1>4, <1>5

\* A request for the offset leaves the invariant.
LEMMA OffsetRequestKeeps ==
  ASSUME IInv, NEW h \in Handlers, NEW u \in Uploads, OffsetRequest(h, u)
  PROVE  IInv'
  <1>1. PICK no \in BOOLEAN : no = FALSE
    OBVIOUS
  <1> DEFINE body == Body(0, 0, no)
             z == AfterHead(h, body)
             y == [z EXCEPT !.hd[h].upload = Spent]
             t == [op |-> "offset", u |-> u, h |-> h]
  <1>2. /\ SendHead(h)
        /\ Become(IF u \in z.uploads THEN WithUpload(y, HandlerLoop[h], t) ELSE Refuse(z, h))
    BY <1>1 DEF OffsetRequest
  <1>3. body \in Bodies /\ body.open
    BY LengthsAre, BodyIs
  <1> HIDE DEF body
  <1>4. /\ Sound(z) /\ Timed(z) /\ z.hd[h].body.open
        /\ OneLoop => \A v \in Uploads : z.up[v].handler # h
    BY <1>2, <1>3, AfterHeadKeepsSound
  <1> HIDE DEF z
  <1>5. CASE u \in z.uploads
    <2>1. z.up[u].loop # None
      BY <1>4, <1>5 DEF Sound, Unused
    <2>2. Sound(y) /\ Timed(y) /\ y.up = z.up
      BY <1>4, ValueAssumption, TurnKeepsSound
    <2>3. t \in UploadTasks /\ t.u = u /\ t.h = h /\ t.op # "append"
      BY DEF UploadTasks
    <2> HIDE DEF y, t
    <2>4. Told(y, t)
      BY <2>1, <2>2, <2>3 DEF Told
    <2>5. Sound(WithUpload(y, HandlerLoop[t.h], t)) /\ Timed(WithUpload(y, HandlerLoop[t.h], t))
      BY <2>2, <2>4, WithUploadKeepsSound
    <2> QED BY <1>2, <1>5, <2>3, <2>5, BecomesSound
  <1>6. CASE u \notin z.uploads
    BY <1>2, <1>4, <1>6, RefuseKeepsSound, BecomesSound
  <1> QED BY <1>5, <1>6

\* What a cancellation does, at once or when the upload's loop runs it.
LEMMA CancelIs ==
  ASSUME NEW s, Sound(s), NEW h \in Handlers, NEW u \in Uploads, s.up[u].loop # None
  PROVE  LET t == [op |-> "cancel", u |-> u, h |-> h]
             z == WithUpload(s, HandlerLoop[h], t) IN
         /\ Told(s, t)
         /\ \/ Retreats(s, z, u) /\ z.up[u].handler = None
            \/ /\ s.up[u].loop # HandlerLoop[h]
               /\ s.up[u].loop \in Loops
               /\ z = Enqueue(s, s.up[u].loop, t)
  <1> DEFINE t == [op |-> "cancel", u |-> u, h |-> h]
             z == WithUpload(s, HandlerLoop[h], t)
  <1>1. s \in States /\ s.up[u] \in UploadRecords
    BY StateFields DEF Sound
  <1>2. t \in UploadTasks /\ t.u = u /\ t.op = "cancel"
    BY DEF UploadTasks
  <1> HIDE DEF t
  <1>3. Told(s, t)
    BY <1>2 DEF Told
  <1>4. CASE s.up[u].loop = HandlerLoop[h]
    <2>1. z = UploadCancellation(s, u)
      BY <1>2, <1>4 DEF WithUpload, UploadTask
    <2>2. Retreats(s, z, u) /\ z.up[u].handler = None
      BY <1>1, <2>1, EndingIs
    <2> QED BY <1>3, <2>2 DEF t
  <1>5. CASE s.up[u].loop # HandlerLoop[h]
    <2>1. z = Enqueue(s, s.up[u].loop, t)
      BY <1>2, <1>5 DEF WithUpload
    <2>2. s.up[u].loop \in Loops
      BY <1>1 DEF UploadRecords
    <2> QED BY <1>3, <1>5, <2>1, <2>2 DEF t
  <1> QED BY <1>4, <1>5

\* A cancellation leaves the invariant.
LEMMA CancelRequestKeeps ==
  ASSUME IInv, NEW h \in Handlers, NEW u \in Uploads, CancelRequest(h, u)
  PROVE  IInv'
  <1>1. PICK no \in BOOLEAN : no = FALSE
    OBVIOUS
  <1> DEFINE body == Body(0, 0, no)
             z == AfterHead(h, body)
             t == [op |-> "cancel", u |-> u, h |-> h]
             y == WithUpload(z, HandlerLoop[h], t)
  <1>2. SendHead(h) /\ Become(Refuse(IF u \in z.uploads THEN y ELSE z, h))
    BY <1>1 DEF CancelRequest
  <1>3. body \in Bodies /\ body.open
    BY LengthsAre, BodyIs
  <1> HIDE DEF body
  <1>4. /\ Sound(z) /\ Timed(z) /\ z.hd[h].body.open
        /\ OneLoop => \A v \in Uploads : z.up[v].handler # h
    BY <1>2, <1>3, AfterHeadKeepsSound
  <1> HIDE DEF z
  <1>5. CASE u \in z.uploads
    <2>1. z.up[u].loop # None
      BY <1>4, <1>5 DEF Sound, Unused
    <2>2. /\ Told(z, t)
          /\ \/ Retreats(z, y, u) /\ y.up[u].handler = None
             \/ z.up[u].loop \in Loops /\ y = Enqueue(z, z.up[u].loop, t)
      BY <1>4, <2>1, CancelIs
    <2>3. t.h = h
      OBVIOUS
    <2>4. Sound(y) /\ Timed(y)
      <3> HIDE DEF t
      <3>1. /\ Sound(WithUpload(z, HandlerLoop[t.h], t))
            /\ Timed(WithUpload(z, HandlerLoop[t.h], t))
        BY <1>4, <2>2, WithUploadKeepsSound
      <3> QED BY <2>3, <3>1
    <2> HIDE DEF y, t
    <2>5. y.hd[h].body.open /\ (OneLoop => \A v \in Uploads : y.up[v].handler # h)
      <3>1. CASE Retreats(z, y, u) /\ y.up[u].handler = None
        <4>1. h # None
          BY ValueAssumption
        <4> QED BY <1>4, <3>1, <4>1 DEF Retreats, SameHandlers, SameUploads
      <3>2. CASE z.up[u].loop \in Loops /\ y = Enqueue(z, z.up[u].loop, t)
        BY <1>4, <3>2 DEF Enqueue, Sound, States
      <3> QED BY <2>2, <3>1, <3>2
    <2> QED BY <1>2, <1>5, <2>4, <2>5, RefuseKeepsSound, BecomesSound
  <1>6. CASE u \notin z.uploads
    BY <1>2, <1>4, <1>6, RefuseKeepsSound, BecomesSound
  <1> QED BY <1>5, <1>6

\* A request that cannot be identified leaves the invariant.
LEMMA BadRequestKeeps ==
  ASSUME IInv, NEW h \in Handlers, BadRequest(h)
  PROVE  IInv'
  <1>1. PICK no \in BOOLEAN : no = FALSE
    OBVIOUS
  <1> DEFINE body == Body(0, Unknown, no)
             z == AfterHead(h, body)
  <1>2. SendHead(h) /\ Become(Refuse(z, h))
    BY <1>1 DEF BadRequest
  <1>3. body \in Bodies /\ body.open
    BY LengthsAre, BodyIs
  <1> HIDE DEF body
  <1>4. /\ Sound(z) /\ Timed(z) /\ z.hd[h].body.open
        /\ OneLoop => \A v \in Uploads : z.up[v].handler # h
    BY <1>2, <1>3, AfterHeadKeepsSound
  <1> HIDE DEF z
  <1> QED BY <1>2, <1>4, RefuseKeepsSound, BecomesSound

\* What a connection tells its upload once its handler's record is r.
LEMMA TellsKeeps ==
  ASSUME IInv, NEW h \in Handlers, NEW r \in HandlerRecords,
         r.upload = hd[h].upload, r.context = hd[h].context,
         BetweenRequests(r) => BetweenRequests(hd[h]),
         NEW op \in {"body", "end", "gone"},
         Become(TellUpload(PutHd(State, h, r), h, op)) \/ Become(PutHd(State, h, r))
  PROVE  IInv'
  <1> DEFINE z == PutHd(State, h, r)
  <1>1. Sound(State) /\ Timed(State) /\ State \in States /\ State.hd = hd /\ State.up = up
    BY DEF IInv, Sound, State
  <1>2. hd[h] \in HandlerRecords /\ hd[h].body.pos \in 0..FileLength
    BY <1>1, StateFields DEF HandlerRecords, Bodies
  <1>3. \A u \in Uploads : r.upload = u => State.up[u].loop # None
    BY <1>1 DEF Sound, Unused
  <1>4. BetweenRequests(r) => r.upload \notin Uploads /\ (OneLoop => r.context)
    BY <1>1 DEF Sound, Idle, Together
  <1>5. OneLoop => \A u \in Uploads : State.up[u].handler = h => r.upload = u /\ r.context
    BY <1>1 DEF Sound, Together
  <1>6. Sound(z) /\ Timed(z)
    BY <1>1, <1>3, <1>4, <1>5, HandlerKeepsSound
  <1> HIDE DEF z
  <1>7. Sound(TellUpload(z, h, op)) /\ Timed(TellUpload(z, h, op))
    BY <1>2, <1>6, TellKeepsSound
  <1> QED BY <1>6, <1>7, BecomesSound DEF z

Advanced(r) == [r EXCEPT !.body = NextByte(@)]

\* What a body part makes of the body.
LEMMA AdvancedIs ==
  ASSUME NEW r \in HandlerRecords, r.body.open, r.body.left # 0, r.body.pos < FileLength
  PROVE  /\ Advanced(r) \in HandlerRecords
         /\ Advanced(r).upload = r.upload
         /\ Advanced(r).context = r.context
         /\ Advanced(r).conn = r.conn
         /\ Advanced(r).shouldReset = r.shouldReset
         /\ Advanced(r).body.open = r.body.open
         /\ Advanced(r).body.pos = r.body.pos + 1
         /\ Advanced(r).body.whole = r.body.whole
  <1> DEFINE b == r.body
             p == b.pos + 1
             n == IF b.left = Unknown THEN b.left ELSE b.left - 1
             c == NextByte(b)
  <1>1. b \in Bodies
    BY DEF HandlerRecords
  <1>2. p \in 0..FileLength
    BY <1>1, BoundAssumption DEF Bodies
  <1>3. n \in Lengths
    BY <1>1, BoundAssumption DEF Bodies, Lengths
  <1> HIDE DEF n, p
  <1>4. c \in Bodies /\ c.open = b.open /\ c.pos = p /\ c.whole = b.whole
    <2>1. c = [b EXCEPT !.pos = p, !.left = n]
      BY DEF NextByte, p, n
    <2> HIDE DEF c
    <2> QED BY <1>1, <1>2, <1>3, <2>1 DEF Bodies
  <1>5. Advanced(r) = [r EXCEPT !.body = c]
    BY DEF Advanced
  <1> HIDE DEF c, b
  <1>6. /\ [r EXCEPT !.body = c] \in HandlerRecords
        /\ [r EXCEPT !.body = c].body = c
        /\ [r EXCEPT !.body = c].upload = r.upload
        /\ [r EXCEPT !.body = c].context = r.context
        /\ [r EXCEPT !.body = c].conn = r.conn
        /\ [r EXCEPT !.body = c].shouldReset = r.shouldReset
    BY <1>4 DEF HandlerRecords
  <1> QED BY <1>4, <1>5, <1>6 DEF b, p

\* A body part leaves the handler's record advanced, and is told.
LEMMA BodyPartIs ==
  ASSUME IInv, NEW h \in Handlers, BodyPart(h)
  PROVE  /\ hd[h] \in HandlerRecords
         /\ hd[h].conn = "open"
         /\ hd[h].body.open
         /\ hd[h].body.left # 0
         /\ hd[h].body.pos < FileLength
         /\ Become(TellUpload(PutHd(State, h, Advanced(hd[h])), h, "body"))
  <1> DEFINE s == [State EXCEPT !.hd[h].body = NextByte(@)]
  <1>1. State \in States /\ State.hd = hd
    BY DEF IInv, Sound, State
  <1>2. hd[h] \in HandlerRecords
    BY <1>1, StateFields
  <1>3. hd[h].body \in Bodies
    BY <1>2 DEF HandlerRecords
  <1>4. s = PutHd(State, h, Advanced(hd[h]))
    BY <1>1 DEF PutHd, Advanced, States
  <1>5. Become(TellUpload(s, h, "body"))
    BY <1>1 DEF BodyPart
  <1> QED BY <1>2, <1>4, <1>5 DEF BodyPart

\* A body part leaves the invariant.
LEMMA BodyPartKeeps ==
  ASSUME IInv, NEW h \in Handlers, BodyPart(h)
  PROVE  IInv'
  <1> DEFINE r == Advanced(hd[h])
  <1>1. /\ hd[h] \in HandlerRecords
        /\ hd[h].body.open
        /\ hd[h].body.left # 0
        /\ hd[h].body.pos < FileLength
        /\ Become(TellUpload(PutHd(State, h, r), h, "body"))
    BY BodyPartIs
  <1>2. /\ r \in HandlerRecords
        /\ r.upload = hd[h].upload
        /\ r.context = hd[h].context
        /\ r.body.open
    BY <1>1, AdvancedIs
  <1> HIDE DEF r
  <1>3. ~BetweenRequests(r)
    BY <1>2 DEF BetweenRequests
  <1> QED BY <1>1, <1>2, <1>3, TellsKeeps

Finished(r) == [r EXCEPT !.body = NoBody, !.shouldReset = TRUE]

\* The end of a request leaves the handler to be reset, and is told.
LEMMA EndPartIs ==
  ASSUME IInv, NEW h \in Handlers, EndPart(h)
  PROVE  /\ hd[h] \in HandlerRecords
         /\ hd[h].body.open
         /\ hd[h].body.whole => hd[h].body.pos = FileLength
         /\ Become(TellUpload(PutHd(State, h, Finished(hd[h])), h, "end"))
         /\ Finished(hd[h]) \in HandlerRecords
         /\ Finished(hd[h]).upload = hd[h].upload
         /\ Finished(hd[h]).context = hd[h].context
         /\ Finished(hd[h]).body = NoBody
         /\ Finished(hd[h]).shouldReset
  <1> DEFINE r == Finished(hd[h])
             s == [State EXCEPT !.hd[h].body = NoBody, !.hd[h].shouldReset = TRUE]
  <1>1. State \in States /\ State.hd = hd
    BY DEF IInv, Sound, State
  <1>2. hd[h] \in HandlerRecords
    BY <1>1, StateFields
  <1>3. NoBody \in Bodies
    BY LengthsAre DEF NoBody, Bodies
  <1>4. /\ r \in HandlerRecords
        /\ r.upload = hd[h].upload
        /\ r.context = hd[h].context
        /\ r.body = NoBody
        /\ r.shouldReset
    BY <1>2, <1>3 DEF HandlerRecords, Finished
  <1>5. s = PutHd(State, h, r)
    BY <1>1 DEF PutHd, States, Finished
  <1>6. Become(TellUpload(s, h, "end"))
    BY DEF EndPart
  <1> QED BY <1>2, <1>4, <1>5, <1>6 DEF EndPart

\* The end of a request leaves the invariant.
LEMMA EndPartKeeps ==
  ASSUME IInv, NEW h \in Handlers, EndPart(h)
  PROVE  IInv'
  <1> DEFINE r == Finished(hd[h])
  <1>1. /\ Become(TellUpload(PutHd(State, h, r), h, "end"))
        /\ r \in HandlerRecords
        /\ r.upload = hd[h].upload
        /\ r.context = hd[h].context
        /\ r.shouldReset
    BY EndPartIs
  <1> HIDE DEF r
  <1>2. ~BetweenRequests(r)
    BY <1>1 DEF BetweenRequests
  <1> QED BY <1>1, <1>2, TellsKeeps

Conn(r, conn) == [r EXCEPT !.conn = conn]

\* What becomes of a connection leaves the rest of its handler's record alone.
LEMMA ConnIs ==
  ASSUME NEW h \in Handlers, State \in States, NEW conn \in {"open", "closing", "closed"}
  PROVE  /\ [State EXCEPT !.hd[h].conn = conn] = PutHd(State, h, Conn(hd[h], conn))
         /\ Conn(hd[h], conn) \in HandlerRecords
         /\ Conn(hd[h], conn).upload = hd[h].upload
         /\ Conn(hd[h], conn).context = hd[h].context
         /\ Conn(hd[h], conn).body = hd[h].body
         /\ Conn(hd[h], conn).shouldReset = hd[h].shouldReset
         /\ Conn(hd[h], conn).conn = conn
  <1>1. State.hd = hd
    BY DEF State
  <1>2. hd[h] \in HandlerRecords
    BY <1>1, StateFields
  <1>3. [State EXCEPT !.hd[h].conn = conn] = PutHd(State, h, Conn(hd[h], conn))
    BY <1>1 DEF PutHd, States, Conn
  <1> QED BY <1>2, <1>3 DEF Conn, HandlerRecords

\* An error leaves the invariant, whether the connection survives it or not.
LEMMA ErrorCaughtKeeps ==
  ASSUME IInv, NEW h \in Handlers, ErrorCaught(h)
  PROVE  IInv'
  <1>1. PICK conn \in {"open", "closing"} :
          Become(TellUpload([State EXCEPT !.hd[h].conn = conn], h, "gone"))
    BY DEF ErrorCaught
  <1> DEFINE r == Conn(hd[h], conn)
  <1>2. hd[h].conn = "open"
    BY DEF ErrorCaught
  <1>3. /\ [State EXCEPT !.hd[h].conn = conn] = PutHd(State, h, r)
        /\ r \in HandlerRecords
        /\ r.upload = hd[h].upload
        /\ r.context = hd[h].context
        /\ r.body = hd[h].body
        /\ r.shouldReset = hd[h].shouldReset
    <2>1. conn \in {"open", "closing", "closed"} /\ State \in States
      BY DEF IInv, Sound
    <2> QED BY <2>1, ConnIs
  <1> HIDE DEF r
  <1>4. BetweenRequests(r) => BetweenRequests(hd[h])
    BY <1>2, <1>3 DEF BetweenRequests
  <1> QED BY <1>1, <1>3, <1>4, TellsKeeps

\* A connection that is lost leaves the invariant.
LEMMA ConnectionLostKeeps ==
  ASSUME IInv, NEW h \in Handlers, ConnectionLost(h)
  PROVE  IInv'
  <1> DEFINE r == Conn(hd[h], "closing")
  <1>1. Become([State EXCEPT !.hd[h].conn = "closing"])
    BY DEF ConnectionLost
  <1>2. /\ [State EXCEPT !.hd[h].conn = "closing"] = PutHd(State, h, r)
        /\ r \in HandlerRecords
        /\ r.upload = hd[h].upload
        /\ r.context = hd[h].context
        /\ r.conn = "closing"
    BY ConnIs DEF IInv, Sound
  <1> HIDE DEF r
  <1>3. ~BetweenRequests(r)
    BY <1>2 DEF BetweenRequests
  <1> QED BY <1>1, <1>2, <1>3, TellsKeeps

Shut(r) == [r EXCEPT !.conn = "closed", !.body = NoBody]

\* A connection that is closed takes its body with it, and tells.
LEMMA ChannelInactiveIs ==
  ASSUME IInv, NEW h \in Handlers, ChannelInactive(h)
  PROVE  /\ Become(TellUpload(PutHd(State, h, Shut(hd[h])), h, "gone"))
         /\ Shut(hd[h]) \in HandlerRecords
         /\ Shut(hd[h]).upload = hd[h].upload
         /\ Shut(hd[h]).context = hd[h].context
         /\ Shut(hd[h]).body = NoBody
         /\ Shut(hd[h]).conn = "closed"
  <1> DEFINE r == Shut(hd[h])
             s == [State EXCEPT !.hd[h].conn = "closed", !.hd[h].body = NoBody]
  <1>1. State \in States /\ State.hd = hd
    BY DEF IInv, Sound, State
  <1>2. hd[h] \in HandlerRecords
    BY <1>1, StateFields
  <1>3. NoBody \in Bodies
    BY LengthsAre DEF NoBody, Bodies
  <1>4. /\ r \in HandlerRecords
        /\ r.upload = hd[h].upload
        /\ r.context = hd[h].context
        /\ r.body = NoBody
        /\ r.conn = "closed"
    BY <1>2, <1>3 DEF HandlerRecords, Shut
  <1>5. s = PutHd(State, h, r)
    BY <1>1 DEF PutHd, States, Shut
  <1>6. Become(TellUpload(s, h, "gone"))
    BY DEF ChannelInactive
  <1> QED BY <1>4, <1>5, <1>6

\* A connection that is closed leaves the invariant.
LEMMA ChannelInactiveKeeps ==
  ASSUME IInv, NEW h \in Handlers, ChannelInactive(h)
  PROVE  IInv'
  <1> DEFINE r == Shut(hd[h])
  <1>1. /\ Become(TellUpload(PutHd(State, h, r), h, "gone"))
        /\ r \in HandlerRecords
        /\ r.upload = hd[h].upload
        /\ r.context = hd[h].context
        /\ r.conn = "closed"
    BY ChannelInactiveIs
  <1> HIDE DEF r
  <1>2. ~BetweenRequests(r)
    BY <1>1 DEF BetweenRequests
  <1> QED BY <1>1, <1>2, TellsKeeps

\* What retreats leaves the invariant.
LEMMA RetreatsKeep ==
  ASSUME IInv, NEW u \in Uploads, up[u].loop # None, NEW t, Retreats(State, t, u), TimedAt(t, u),
         Become(t)
  PROVE  IInv'
  <1>1. Sound(State) /\ Timed(State) /\ State.up = up
    BY DEF IInv, State
  <1>2. Sound(t) /\ Timed(t)
    BY <1>1, RetreatKeepsSound, RetreatKeepsTimed
  <1> QED BY <1>2, BecomesSound

\* A child channel is one of an upload that is there.
LEMMA ChannelIsThere ==
  ASSUME IInv, NEW u \in Uploads, up[u].channel \/ up[u].timer
  PROVE  up[u].loop # None /\ TimedAt(State, u)
  BY DEF IInv, State, Timed, TimedAt

Wrote(s, u, written) == PutApp(s, u, [s.app[u] EXCEPT !.written = written])

Responding(old) == [old EXCEPT !.responseStarted = TRUE]

\* What the application writes goes to the handler, or ends a channel that has none.
LEMMA AppWriteIs ==
  ASSUME IInv, NEW u \in Uploads, NEW written \in {"head", "end"}, NEW op \in {"head", "finish"},
         AppWrite(u, written, op)
  PROVE  LET s == Wrote(State, u, written)
             h == up[u].handler
             t == [op |-> op, h |-> h] IN
         /\ [app[u] EXCEPT !.written = written] \in AppRecords
         /\ Responding(up[u]) \in UploadRecords
         /\ up[u].channel
         /\ \/ h = None /\ Become(DestroyChannel(s, u))
            \/ /\ h \in Handlers
               /\ t \in HandlerTasks
               /\ Become(WithHandler(PutUp(s, u, Responding(up[u])), up[u].loop, t))
  <1> DEFINE s == [State EXCEPT !.app[u].written = written]
             h == up[u].handler
             t == [op |-> op, h |-> h]
  <1>1. State \in States /\ State.app = app /\ State.up = up
    BY DEF IInv, Sound, State
  <1>2. app[u] \in AppRecords /\ up[u] \in UploadRecords
    BY <1>1, StateFields
  <1>3. s = Wrote(State, u, written)
    BY <1>1 DEF Wrote, PutApp, States
  <1>4. s \in States /\ s.up = up
    <2>1. [app[u] EXCEPT !.written = written] \in AppRecords
      BY <1>2 DEF AppRecords
    <2> QED BY <1>1, <1>3, <2>1, PutAppIs DEF Wrote
  <1>5. [s EXCEPT !.up[u].responseStarted = TRUE] = PutUp(s, u, Responding(up[u]))
    BY <1>4 DEF PutUp, States, Responding
  <1>6. /\ up[u].channel
        /\ Become(IF h = None THEN DestroyChannel(s, u)
                  ELSE WithHandler([s EXCEPT !.up[u].responseStarted = TRUE], up[u].loop, t))
    BY DEF AppWrite
  <1>7. [app[u] EXCEPT !.written = written] \in AppRecords /\ Responding(up[u]) \in UploadRecords
    BY <1>2 DEF AppRecords, UploadRecords, Responding
  <1> HIDE DEF s
  <1>8. h # None => h \in Handlers /\ t \in HandlerTasks
    BY <1>2 DEF UploadRecords, HandlerTasks
  <1> HIDE DEF t
  <1>9. \/ h = None /\ Become(DestroyChannel(s, u))
        \/ h \in Handlers /\ Become(WithHandler(PutUp(s, u, Responding(up[u])), up[u].loop, t))
    BY <1>5, <1>6, <1>8
  <1> QED BY <1>3, <1>6, <1>7, <1>8, <1>9 DEF t

\* What the application writes takes nothing but what a retreat may take.
LEMMA AppWriteRetreats ==
  ASSUME IInv, NEW u \in Uploads, NEW written \in {"head", "end"}, NEW op \in {"head", "finish"},
         AppWrite(u, written, op)
  PROVE  \E z : Retreats(State, z, u) /\ TimedAt(z, u) /\ Become(z)
  <1> DEFINE a == [app[u] EXCEPT !.written = written]
             s == Wrote(State, u, written)
             r == Responding(up[u])
             y == PutUp(s, u, r)
             t == [op |-> op, h |-> up[u].handler]
  <1>1. State \in States /\ State.app = app /\ State.up = up
    BY DEF IInv, Sound, State
  <1>2. /\ a \in AppRecords
        /\ r \in UploadRecords
        /\ up[u].channel
        /\ \/ up[u].handler = None /\ Become(DestroyChannel(s, u))
           \/ /\ up[u].handler \in Handlers
              /\ t \in HandlerTasks
              /\ Become(WithHandler(y, up[u].loop, t))
    BY AppWriteIs
  <1>3. t.op # "detach"
    OBVIOUS
  <1>4. up[u] \in UploadRecords /\ app[u] \in AppRecords
    BY <1>1, StateFields
  <1>5. s = PutApp(State, u, a)
    BY <1>1 DEF Wrote
  <1>6. /\ a.received = app[u].received
        /\ a.ordered = app[u].ordered
        /\ a.ends = app[u].ends
    BY <1>4 DEF AppRecords
  <1> HIDE DEF a, s, t
  <1>7. Retreats(State, s, u) /\ s.up = up
    BY <1>1, <1>2, <1>5, <1>6, PutAppRetreats
  <1>8. s \in States
    BY <1>7 DEF Retreats
  <1>9. TimedAt(s, u)
    BY <1>1, <1>2, <1>7, ChannelIsThere DEF TimedAt
  <1>10. CASE Become(DestroyChannel(s, u))
    <2>1. Retreats(s, DestroyChannel(s, u), u) /\ TimedAt(DestroyChannel(s, u), u)
      BY <1>8, <1>9, DestroyIs
    <2>2. Retreats(State, DestroyChannel(s, u), u)
      BY <1>1, <1>7, <2>1, RetreatsTransitive
    <2> QED BY <1>10, <2>1, <2>2
  <1>11. CASE t \in HandlerTasks /\ Become(WithHandler(y, up[u].loop, t))
    <2>1. /\ Loses(up[u], r)
          /\ r.loop = up[u].loop
          /\ r.channel = up[u].channel
          /\ r.handler = up[u].handler
          /\ r.timer = up[u].timer
      BY <1>2, <1>4 DEF UploadRecords, Responding, Loses
    <2> HIDE DEF r
    <2>2. y.up[u] = r /\ Retreats(s, y, u)
      BY <1>2, <1>7, <1>8, <2>1, PutUpIs, PutUpRetreats
    <2> DEFINE z == WithHandler(y, up[u].loop, t)
    <2> HIDE DEF y
    <2>3. y \in States
      BY <2>2 DEF Retreats
    <2>4. /\ z \in States
          /\ z.up = y.up
          /\ z.app = y.app
          /\ z.uploads = y.uploads
          /\ \A h \in Handlers :
               /\ z.hd[h].upload = y.hd[h].upload
               /\ z.hd[h].body = y.hd[h].body
               /\ z.hd[h].shouldReset = y.hd[h].shouldReset
               /\ z.hd[h].conn = "open" => y.hd[h].conn = "open"
               /\ z.hd[h].context = y.hd[h].context
          /\ \A l \in Loops : Lengthens(y.queue[l], z.queue[l])
          /\ HandlerLoop[t.h] = up[u].loop => z.queue = y.queue
      BY <1>3, <1>11, <2>3, WithHandlerIs
    <2>5. t.h \in Handlers
      BY <1>11 DEF HandlerTasks
    <2> HIDE DEF z
    <2>6. Retreats(y, z, u)
      <3>1. SameUploads(y, z, u) /\ SameHandlers(y, z, u) /\ SameShown(y, z)
        BY <2>4 DEF SameUploads, SameHandlers, SameShown
      <3> QED BY <2>1, <2>2, <2>4, <2>5, <3>1 DEF Retreats
    <2>7. TimedAt(z, u)
      BY <1>7, <1>9, <2>1, <2>2, <2>4 DEF TimedAt
    <2>8. Retreats(s, z, u)
      BY <1>8, <2>2, <2>6, RetreatsTransitive
    <2>9. Retreats(State, z, u)
      BY <1>1, <1>7, <2>8, RetreatsTransitive
    <2> QED BY <1>11, <2>7, <2>9 DEF z
  <1> QED BY <1>2, <1>10, <1>11

\* Destroying the channel and letting go of the handler.
LEMMA DestroyLetGoIs ==
  ASSUME NEW s \in States, NEW u \in Uploads
  PROVE  LET z == LetGo(DestroyChannel(s, u), u) IN
         /\ Retreats(s, z, u)
         /\ z.up[u].handler = None
         /\ ~z.up[u].channel
         /\ TimedAt(z, u)
  <1> DEFINE y == DestroyChannel(s, u)
             z == LetGo(y, u)
  <1>1. Retreats(s, y, u) /\ ~y.up[u].channel
    BY DestroyIs
  <1> HIDE DEF y
  <1>2. y \in States
    BY <1>1 DEF Retreats
  <1>3. /\ Retreats(y, z, u) /\ z.up[u].handler = None /\ z.up[u].channel = y.up[u].channel
        /\ TimedAt(z, u)
    BY <1>1, <1>2, LetGoIs
  <1> HIDE DEF z
  <1>4. Retreats(s, z, u)
    BY <1>1, <1>3, RetreatsTransitive
  <1> QED BY <1>1, <1>3, <1>4 DEF z, y

\* Closing the child channel is a retreat.
LEMMA AppCloseRetreats ==
  ASSUME IInv, NEW u \in Uploads, AppClose(u)
  PROVE  \E t : Retreats(State, t, u) /\ TimedAt(t, u) /\ Become(t)
  <1> DEFINE z == LetGo(DestroyChannel(State, u), u)
  <1>1. Become(z)
    BY DEF AppClose
  <1>2. Retreats(State, z, u) /\ TimedAt(z, u)
    BY DestroyLetGoIs DEF IInv, Sound
  <1> QED BY <1>1, <1>2

Expired(old) == [old EXCEPT !.timer = FALSE]

\* When nobody came, the channel ends: what is left is a retreat.
LEMMA IdleTimeoutRetreats ==
  ASSUME IInv, NEW u \in Uploads, IdleTimeout(u)
  PROVE  \E t : Retreats(State, t, u) /\ TimedAt(t, u) /\ Become(t)
  <1> DEFINE e == Expired(up[u])
             s == PutUp(State, u, e)
             closed == IF AppCloses THEN LetGo(DestroyChannel(s, u), u) ELSE s
             a == [closed.app[u] EXCEPT !.inactive = @ + 1]
             r == [closed.up[u] EXCEPT !.channel = FALSE]
             w == PutApp(closed, u, a)
             z == PutUp(w, u, r)
  <1>1. State \in States /\ State.up = up
    BY DEF IInv, Sound, State
  <1>2. up[u] \in UploadRecords
    BY <1>1, StateFields
  <1>3. up[u].timer /\ up[u].loop # None /\ TimedAt(State, u)
    BY ChannelIsThere DEF IdleTimeout
  <1>4. up[u].handler = None
    BY <1>1, <1>3 DEF TimedAt
  <1>5. Loses(up[u], e) /\ e.loop = up[u].loop /\ e.channel = up[u].channel
    BY <1>2 DEF UploadRecords, Expired, Loses
  <1>6. [State EXCEPT !.up[u].timer = FALSE] = s
    BY <1>1 DEF PutUp, States, Expired
  <1>7. e.handler = None
    BY <1>4, <1>5 DEF Loses
  <1> HIDE DEF e
  <1>8. s \in States /\ s.up[u] = e /\ Retreats(State, s, u)
    BY <1>1, <1>5, PutUpIs, PutUpRetreats DEF Loses
  <1> HIDE DEF s
  <1>9. Retreats(State, closed, u) /\ closed.up[u].handler = None
    <2>1. Retreats(s, LetGo(DestroyChannel(s, u), u), u)
            /\ LetGo(DestroyChannel(s, u), u).up[u].handler = None
      BY <1>8, DestroyLetGoIs
    <2>2. Retreats(State, LetGo(DestroyChannel(s, u), u), u)
      BY <1>1, <1>8, <2>1, RetreatsTransitive
    <2> QED BY <1>7, <1>8, <2>1, <2>2
  <1>10. Become(IF up[u].channel
                  THEN [closed EXCEPT !.app[u].inactive = @ + 1, !.up[u].channel = FALSE]
                  ELSE s)
    BY <1>6 DEF IdleTimeout
  <1>11. CASE ~up[u].channel
    <2>1. TimedAt(s, u)
      BY <1>1, <1>3, <1>5, <1>7, <1>8, <1>11 DEF TimedAt
    <2> QED BY <1>8, <1>10, <1>11, <2>1
  <1>12. CASE up[u].channel
    <2> HIDE DEF closed
    <2>1. closed \in States
      BY <1>9 DEF Retreats
    <2>2. closed.app[u] \in AppRecords /\ closed.up[u] \in UploadRecords
      BY <2>1, StateFields
    <2>3. /\ a \in AppRecords
          /\ a.received = closed.app[u].received
          /\ a.ordered = closed.app[u].ordered
          /\ a.ends = closed.app[u].ends
      BY <2>2 DEF AppRecords
    <2>4. Loses(closed.up[u], r) /\ ~r.channel /\ r.handler = closed.up[u].handler
      BY <2>2 DEF UploadRecords, Loses
    <2>5. [closed EXCEPT !.app[u].inactive = @ + 1, !.up[u].channel = FALSE] = z
      BY <2>1 DEF PutUp, PutApp, States
    <2> HIDE DEF a, r
    <2>6. Retreats(closed, w, u) /\ w.up = closed.up
      BY <2>1, <2>3, PutAppRetreats
    <2> HIDE DEF w
    <2>7. w \in States
      BY <2>6 DEF Retreats
    <2>8. Retreats(w, z, u) /\ z.up[u] = r
      BY <2>4, <2>6, <2>7, PutUpIs, PutUpRetreats DEF Loses
    <2> HIDE DEF z
    <2>9. Retreats(closed, z, u)
      BY <2>1, <2>6, <2>8, RetreatsTransitive
    <2>10. Retreats(State, z, u)
      BY <1>1, <1>9, <2>9, RetreatsTransitive
    <2>11. TimedAt(z, u)
      BY <1>1, <1>3, <1>9, <2>4, <2>8, <2>10 DEF TimedAt, Retreats, SameUploads
    <2> QED BY <1>10, <1>12, <2>5, <2>10, <2>11
  <1> QED BY <1>11, <1>12

\* What the application does with its child channel, and the idle timer, are retreats.
LEMMA UploadStepRetreats ==
  ASSUME IInv, NEW u \in Uploads, UploadStep(u)
  PROVE  /\ up[u].loop # None
         /\ \E t : Retreats(State, t, u) /\ TimedAt(t, u) /\ Become(t)
  <1>1. CASE AppWritesHead(u) \/ AppWritesEnd(u)
    <2>1. up[u].channel
      BY <1>1 DEF AppWritesHead, AppWritesEnd, AppWrite
    <2> QED BY <1>1, <2>1, ChannelIsThere, AppWriteRetreats DEF AppWritesHead, AppWritesEnd
  <1>2. CASE AppClose(u)
    BY <1>2, ChannelIsThere, AppCloseRetreats DEF AppClose
  <1>3. CASE IdleTimeout(u)
    BY <1>3, ChannelIsThere, IdleTimeoutRetreats DEF IdleTimeout
  <1> QED BY <1>1, <1>2, <1>3 DEF UploadStep

\* Taking the first task of a loop's queue.
LEMMA DequeueIs ==
  ASSUME NEW s, Sound(s), NEW l \in Loops, s.queue[l] # <<>>
  PROVE  LET q == s.queue[l] IN
         /\ ~OneLoop
         /\ Head(q) \in Tasks
         /\ Head(q) = q[1]
         /\ 1 \in 1..Len(q)
         /\ Tail(q) \in Seq(Tasks)
         /\ Len(q) \in Nat
         /\ Len(Tail(q)) = Len(q) - 1
         /\ \A i \in 1..Len(Tail(q)) : Tail(q)[i] = q[i + 1] /\ i + 1 \in 1..Len(q)
         /\ [s EXCEPT !.queue[l] = Tail(@)] = PutQueue(s, l, Tail(q))
  <1> DEFINE q == s.queue[l]
  <1>1. s \in States /\ q \in Seq(Tasks)
    BY StateFields DEF Sound
  <1>2. ~OneLoop
    BY DEF Sound, Together
  <1>3. [s EXCEPT !.queue[l] = Tail(@)] = PutQueue(s, l, Tail(q))
    BY <1>1 DEF PutQueue, States
  <1> HIDE DEF q
  <1>4. /\ Head(q) \in Tasks
        /\ Tail(q) \in Seq(Tasks)
        /\ Len(Tail(q)) = Len(q) - 1
        /\ \A i \in 1..Len(Tail(q)) : Tail(q)[i] = q[i + 1]
    BY <1>1, HeadTailProperties DEF q
  <1>5. Len(q) \in Nat /\ Len(q) > 0 /\ Head(q) = q[1]
    BY <1>1 DEF q
  <1>6. \A i \in 1..Len(Tail(q)) : i + 1 \in 1..Len(q)
    BY <1>4, <1>5
  <1>7. 1 \in 1..Len(q)
    BY <1>5
  <1> QED BY <1>2, <1>3, <1>4, <1>5, <1>6, <1>7 DEF q

\* Without its first task the queue is still one.
LEMMA DequeueKeepsSound ==
  ASSUME NEW s, Sound(s), Timed(s), NEW l \in Loops, s.queue[l] # <<>>
  PROVE  LET z == PutQueue(s, l, Tail(s.queue[l])) IN Sound(z) /\ Timed(z)
  <1> DEFINE q == s.queue[l]
             z == PutQueue(s, l, Tail(q))
  <1>1. s \in States
    BY DEF Sound
  <1>2. /\ ~OneLoop
        /\ Tail(q) \in Seq(Tasks)
        /\ \A i \in 1..Len(Tail(q)) : Tail(q)[i] = q[i + 1] /\ i + 1 \in 1..Len(q)
    BY DequeueIs
  <1>3. /\ z \in States
        /\ z.queue[l] = Tail(q)
        /\ \A m \in Loops \ {l} : z.queue[m] = s.queue[m]
        /\ z.hd = s.hd /\ z.up = s.up /\ z.uploads = s.uploads
    BY <1>1, <1>2, PutQueueIs
  <1> HIDE DEF z
  <1>4. Placed(z)
    <2> SUFFICES ASSUME NEW m \in Loops, NEW i \in 1..Len(z.queue[m]),
                        z.queue[m][i].op \in UploadOps
                 PROVE  /\ s.up[z.queue[m][i].u].loop = m
                        /\ HandlerLoop[z.queue[m][i].h] # m
      BY <1>3 DEF Placed
    <2>1. CASE m # l
      BY <1>3, <2>1 DEF Sound, Placed
    <2>2. CASE m = l
      <3>1. i + 1 \in 1..Len(q) /\ z.queue[m][i] = q[i + 1]
        BY <1>2, <1>3, <2>2
      <3> QED BY <2>2, <3>1 DEF Sound, Placed
    <2> QED BY <2>1, <2>2
  <1>5. Unused(z) /\ Idle(z) /\ Registered(z)
    BY <1>3 DEF Sound, Unused, Idle, Registered
  <1>6. Timed(z)
    BY <1>3 DEF Timed, TimedAt
  <1> QED BY <1>2, <1>3, <1>4, <1>5, <1>6 DEF Sound, z

\* A task of a loop is the handler's or the upload's.
LEMMA RunTaskIs ==
  ASSUME IInv, NEW l \in Loops, RunTask(l)
  PROVE  LET t == Head(queue[l])
             s == PutQueue(State, l, Tail(queue[l])) IN
         /\ queue[l] # <<>>
         /\ \/ t \in HandlerTasks /\ Become(HandlerTask(s, t))
            \/ t \in UploadTasks /\ Become(UploadTask(s, t))
  <1> DEFINE t == Head(queue[l])
             s == PutQueue(State, l, Tail(queue[l]))
  <1>1. Sound(State) /\ State.queue = queue
    BY DEF IInv, State
  <1>2. queue[l] # <<>>
    BY DEF RunTask
  <1>3. t \in Tasks /\ [State EXCEPT !.queue[l] = Tail(@)] = s
    BY <1>1, <1>2, DequeueIs
  <1>4. t \in HandlerTasks => t.op \in {"head", "finish", "respond", "detach"}
    BY DEF HandlerTasks
  <1>5. t \in UploadTasks => t.op \notin {"head", "finish", "respond", "detach"}
    BY DEF UploadTasks
  <1>6. Become(IF t.op \in {"head", "finish", "respond", "detach"}
                 THEN HandlerTask(s, t) ELSE UploadTask(s, t))
    BY <1>3 DEF RunTask
  <1> HIDE DEF t, s
  <1> QED BY <1>2, <1>3, <1>4, <1>5, <1>6 DEF Tasks, t, s

\* A task of the handler leaves its upload, its body and what it has to reset alone.
LEMMA HandlerTaskKeepsSound ==
  ASSUME NEW s, Sound(s), Timed(s), ~OneLoop, NEW t \in HandlerTasks
  PROVE  Sound(HandlerTask(s, t)) /\ Timed(HandlerTask(s, t))
  <1> DEFINE h == t.h
             z == HandlerTask(s, t)
             r == z.hd[h]
  <1>1. s \in States /\ h \in Handlers
    BY DEF Sound, HandlerTasks
  <1>2. /\ z \in States
        /\ z.up = s.up /\ z.app = s.app /\ z.uploads = s.uploads /\ z.queue = s.queue
        /\ \A g \in Handlers \ {h} : z.hd[g] = s.hd[g]
        /\ z.hd[h].upload = s.hd[h].upload
        /\ z.hd[h].body = s.hd[h].body
        /\ z.hd[h].shouldReset = s.hd[h].shouldReset
        /\ z.hd[h].conn = "open" => s.hd[h].conn = "open"
    BY <1>1, HandlerTaskIs
  <1> HIDE DEF z, h
  <1>3. z = PutHd(s, h, r)
    BY <1>1, <1>2, OnlyHandler
  <1>4. r \in HandlerRecords
    BY <1>1, <1>2, StateFields
  <1>5. BetweenRequests(r) => BetweenRequests(s.hd[h])
    BY <1>2 DEF BetweenRequests
  <1>6. BetweenRequests(r) => r.upload \notin Uploads
    BY <1>1, <1>2, <1>5 DEF Sound, Idle
  <1>7. \A u \in Uploads : r.upload = u => s.up[u].loop # None
    BY <1>1, <1>2 DEF Sound, Unused
  <1> HIDE DEF r
  <1>8. Sound(PutHd(s, h, r)) /\ Timed(PutHd(s, h, r))
    BY <1>1, <1>4, <1>6, <1>7, HandlerKeepsSound
  <1>9. Sound(z) /\ Timed(z)
    BY <1>3, <1>8
  <1> QED BY <1>9 DEF z

\* A task of a loop leaves the invariant.
LEMMA RunTaskKeeps ==
  ASSUME IInv, NEW l \in Loops, RunTask(l)
  PROVE  IInv'
  <1> DEFINE t == Head(queue[l])
             s == PutQueue(State, l, Tail(queue[l]))
  <1>1. /\ Sound(State) /\ Timed(State) /\ State \in States
        /\ State.queue = queue /\ State.up = up
    BY DEF IInv, Sound, State
  <1>2. /\ queue[l] # <<>>
        /\ \/ t \in HandlerTasks /\ Become(HandlerTask(s, t))
           \/ t \in UploadTasks /\ Become(UploadTask(s, t))
    BY RunTaskIs
  <1>3. Sound(s) /\ Timed(s)
    BY <1>1, <1>2, DequeueKeepsSound
  <1>4. /\ ~OneLoop /\ t = queue[l][1] /\ 1 \in 1..Len(queue[l])
        /\ Tail(queue[l]) \in Seq(Tasks)
    BY <1>1, <1>2, DequeueIs
  <1>5. s.up = up
    BY <1>1, <1>4, PutQueueIs
  <1> HIDE DEF s
  <1>6. t \in UploadTasks => up[t.u].loop = l
    <2>1. t \in UploadTasks => t.op \in UploadOps
      BY UploadTaskFields
    <2> QED BY <1>1, <1>4, <2>1 DEF Sound, Placed
  <1> HIDE DEF t
  <1>7. CASE t \in HandlerTasks /\ Become(HandlerTask(s, t))
    <2>1. Sound(HandlerTask(s, t)) /\ Timed(HandlerTask(s, t))
      BY <1>3, <1>4, <1>7, HandlerTaskKeepsSound
    <2> QED BY <1>7, <2>1, BecomesSound
  <1>8. CASE t \in UploadTasks /\ Become(UploadTask(s, t))
    <2>1. Told(s, t)
      BY <1>4, <1>5, <1>6, <1>8, ValueAssumption DEF Told
    <2>2. Sound(UploadTask(s, t)) /\ Timed(UploadTask(s, t))
      BY <1>3, <2>1, UploadTaskKeepsSound
    <2> QED BY <1>8, <2>2, BecomesSound
  <1> QED BY <1>2, <1>7, <1>8

-----------------------------------------------------------------------------
(* The theorems.                                                           *)

\* Init satisfies the invariant: no upload is there yet.
LEMMA InitSatisfies == Init => IInv
  <1> SUFFICES ASSUME Init PROVE IInv
    OBVIOUS
  <1> DEFINE s == State
             r == [conn |-> "open", context |-> TRUE, shouldReset |-> FALSE,
                   upload |-> Fresh, body |-> NoBody, requests |-> 0, heads |-> 0, ends |-> 0]
             a == [loop |-> None, handler |-> None, channel |-> FALSE, resumable |-> FALSE,
                   offset |-> 0, length |-> Unknown, requestIsComplete |-> TRUE,
                   uploadComplete |-> FALSE, responseStarted |-> FALSE, timer |-> FALSE]
             b == [received |-> 0, ordered |-> TRUE, ends |-> 0, inactive |-> 0,
                   written |-> "none"]
  <1>1. /\ s.hd = hd /\ s.up = up /\ s.app = app /\ s.uploads = uploads /\ s.queue = queue
        /\ hd = [h \in Handlers |-> r]
        /\ up = [u \in Uploads |-> a]
        /\ app = [u \in Uploads |-> b]
        /\ uploads = {}
        /\ queue = [l \in Loops |-> <<>>]
    BY DEF Init, State
  <1>2. NoBody \in Bodies
    BY LengthsAre DEF NoBody, Bodies
  <1>3. r \in HandlerRecords /\ r.upload = Fresh /\ r.context
    BY <1>2 DEF HandlerRecords
  <1>4. a \in UploadRecords /\ b \in AppRecords
    BY DEF UploadRecords, AppRecords
  <1>5. /\ a.loop = None /\ a.handler = None /\ ~a.channel /\ ~a.resumable /\ ~a.timer
    OBVIOUS
  <1> HIDE DEF r, a, b
  <1>6. s \in States
    BY <1>1, <1>3, <1>4 DEF States, State
  <1> HIDE DEF s
  <1>7. Unused(s)
    BY <1>1, <1>3, <1>5, ValueAssumption DEF Unused
  <1>8. Placed(s)
    BY <1>1 DEF Placed
  <1>9. Idle(s)
    BY <1>1, <1>3, ValueAssumption DEF Idle
  <1>10. Registered(s) /\ Timed(s)
    BY <1>1, <1>5 DEF Registered, Timed, TimedAt
  <1>11. Together(s)
    <2>1. None \notin Handlers
      BY ValueAssumption
    <2> QED BY <1>1, <1>3, <1>5, <2>1 DEF Together
  <1> QED BY <1>6, <1>7, <1>8, <1>9, <1>10, <1>11 DEF IInv, Sound, s

\* A step that changes nothing.
LEMMA StutterKeeps ==
  ASSUME IInv, UNCHANGED vars
  PROVE  IInv'
  <1>1. State' = State
    BY DEF vars, State
  <1> QED BY <1>1 DEF IInv

\* Every step leaves the invariant.
LEMMA NextKeeps ==
  ASSUME IInv, [Next]_vars
  PROVE  IInv'
  <1>1. ASSUME NEW h \in Handlers, ClientStep(h)
        PROVE  IInv'
    BY <1>1, UploadCreationKeeps, AppendRequestKeeps, PlainRequestKeeps, OffsetRequestKeeps,
       CancelRequestKeeps, BadRequestKeeps, BodyPartKeeps, EndPartKeeps, ErrorCaughtKeeps,
       ConnectionLostKeeps, ChannelInactiveKeeps DEF ClientStep
  <1>2. ASSUME NEW u \in Uploads, UploadStep(u)
        PROVE  IInv'
    BY <1>2, UploadStepRetreats, RetreatsKeep
  <1>3. ASSUME NEW l \in Loops, RunTask(l)
        PROVE  IInv'
    BY <1>3, RunTaskKeeps
  <1> QED BY <1>1, <1>2, <1>3, StutterKeeps DEF Next

\* The invariant holds in every behaviour, for any connections, uploads and event loops.
THEOREM IInvAlways == Spec => []IInv
  <1>1. Init => IInv
    BY InitSatisfies
  <1>2. IInv /\ [Next]_vars => IInv'
    BY NextKeeps
  <1> QED BY <1>1, <1>2, PTL DEF Spec

\* A resumable upload whose channel is open can be found by its token, and a channel that
\* nobody feeds has a timer, however many event loops the connections are spread over.
THEOREM RegisteredAndTimed == Spec => [](ActiveIsRegistered /\ TimerGuards)
  <1>1. IInv => ActiveIsRegistered /\ TimerGuards
    BY DEF IInv, Sound, Registered, Timed, TimedAt, State, ActiveIsRegistered, TimerGuards
  <1> QED BY <1>1, IInvAlways, PTL

\* If all connections share one event loop, whoever has to go on with an upload can reach
\* it: a client by its token, the handler that feeds it, or the timer.
THEOREM ReachableAlways ==
  ASSUME OneLoop
  PROVE  Spec => []Reachable
  <1>1. IInv => Reachable
    BY DEF IInv, Sound, Registered, Timed, TimedAt, Together, State, Reachable,
           ActiveIsRegistered, TimerGuards, AttachedBothWays
  <1> QED BY <1>1, IInvAlways, PTL

-----------------------------------------------------------------------------
(* One response and one end.  On one loop no task is late: what a method   *)
(* answers is counted before anything else happens.                        *)

\* A handler that has counted nothing since.
SameCounts(r, old) ==
  r.requests = old.requests /\ r.heads = old.heads /\ r.ends = old.ends

\* A connection is answered in order, and asks once more when it has been answered.
Balanced(r) == r.ends <= r.heads /\ r.heads <= r.requests /\ r.requests <= r.ends + 1

\* The last request of a connection has no answer yet.
Owed(r) == r.heads = r.ends /\ r.requests = r.ends + 1

\* What the application has been shown of upload u, and what it has answered: it answers
\* behind the end, and an upload that was resumable is complete by then.
EndsAt(s, u) ==
  /\ s.app[u].ends <= 1
  /\ s.app[u].inactive <= 1
  /\ s.up[u].channel => s.app[u].inactive = 0
  /\ s.up[u].loop = None =>
       s.app[u].ends = 0 /\ s.app[u].inactive = 0 /\ s.app[u].written = "none"
  /\ s.up[u].resumable /\ s.app[u].ends > 0 => s.up[u].uploadComplete
  /\ s.app[u].written # "none" => s.app[u].ends > 0

\* What upload u owes the handler it writes to.
Owes(s, u, h) ==
  s.up[u].handler = h =>
    /\ s.app[u].ends > 0 => ~s.hd[h].body.open
    /\ s.app[u].written = "none" => Owed(s.hd[h])
    /\ s.app[u].written = "head" /\ s.hd[h].conn = "open" => s.hd[h].ends < s.hd[h].heads

\* What holds of the counts of every connection and every upload.
Once(s) ==
  /\ \A h \in Handlers : Balanced(s.hd[h])
  /\ \A u \in Uploads : EndsAt(s, u)
  /\ \A u \in Uploads, h \in Handlers : Owes(s, u, h)

\* A task of the handler counts what the client gets of it.
LEMMA HandlerTaskCounts ==
  ASSUME NEW s \in States, NEW t \in HandlerTasks
  PROVE  LET old == s.hd[t.h]
             r == HandlerTask(s, t).hd[t.h]
             reached == old.context /\ old.conn = "open" IN
         /\ r.requests = old.requests
         /\ r.heads = IF reached /\ t.op \in {"head", "respond"} THEN old.heads + 1
                                                                 ELSE old.heads
         /\ r.ends = IF reached /\ t.op \in {"finish", "respond"} THEN old.ends + 1
                                                                  ELSE old.ends
  <1> DEFINE h == t.h
             old == s.hd[h]
             reached == old.context /\ old.conn = "open"
             Counts(r) ==
               /\ r.requests = old.requests
               /\ r.heads = IF reached /\ t.op \in {"head", "respond"} THEN old.heads + 1
                                                                       ELSE old.heads
               /\ r.ends = IF reached /\ t.op \in {"finish", "respond"} THEN old.ends + 1
                                                                        ELSE old.ends
  <1>1. h \in Handlers /\ old \in HandlerRecords /\ t.op \in {"head", "finish", "respond", "detach"}
    BY StateFields DEF HandlerTasks
  <1> HIDE DEF h, old
  <1>2. ASSUME NEW r, HandlerTask(s, t) = [s EXCEPT !.hd[h] = r]
        PROVE  HandlerTask(s, t).hd[h] = r
    BY <1>1, <1>2 DEF States
  <1>3. CASE t.op = "head" /\ reached
    <2> DEFINE r == [old EXCEPT !.heads = @ + 1]
    <2>1. HandlerTask(s, t) = [s EXCEPT !.hd[h] = r]
      BY <1>1, <1>3 DEF HandlerTask, States, h, old
    <2>2. Counts(r)
      BY <1>1, <1>3 DEF HandlerRecords
    <2> QED BY <1>2, <2>1, <2>2 DEF h, old
  <1>4. CASE t.op = "finish" /\ reached
    <2> DEFINE r == [old EXCEPT !.ends = @ + 1]
    <2>1. HandlerTask(s, t) = [s EXCEPT !.hd[h] = r]
      BY <1>1, <1>4 DEF HandlerTask, States, h, old
    <2>2. Counts(r)
      BY <1>1, <1>4 DEF HandlerRecords
    <2> QED BY <1>2, <2>1, <2>2 DEF h, old
  <1>5. CASE t.op = "respond" /\ reached
    <2> DEFINE r == [old EXCEPT !.heads = @ + 1, !.ends = @ + 1]
    <2>1. HandlerTask(s, t) = [s EXCEPT !.hd[h] = r]
      BY <1>1, <1>5 DEF HandlerTask, States, h, old
    <2>2. Counts(r)
      BY <1>1, <1>5 DEF HandlerRecords
    <2> QED BY <1>2, <2>1, <2>2 DEF h, old
  <1>6. CASE t.op = "detach"
    <2> DEFINE conn == IF t.close /\ reached THEN "closing" ELSE old.conn
               r == [old EXCEPT !.context = FALSE, !.conn = conn]
    <2>1. HandlerTask(s, t) = [s EXCEPT !.hd[h] = r]
      BY <1>1, <1>6 DEF HandlerTask, States, h, old
    <2> HIDE DEF conn
    <2>2. Counts(r)
      BY <1>1, <1>6 DEF HandlerRecords
    <2> QED BY <1>2, <2>1, <2>2 DEF h, old
  <1>7. CASE t.op \in {"head", "finish", "respond"} /\ ~reached
    <2>1. HandlerTask(s, t) = s
      BY <1>1, <1>7 DEF HandlerTask, h, old
    <2> QED BY <1>7, <2>1 DEF h, old
  <1> QED BY <1>1, <1>3, <1>4, <1>5, <1>6, <1>7

\* What an upload spares when it lets go: every count, what it has answered, and all of the
\* application but a channel that ends.
Spares(s, t, u) ==
  /\ \A g \in Handlers : SameCounts(t.hd[g], s.hd[g])
  /\ t.up[u].uploadComplete = s.up[u].uploadComplete
  /\ t.up[u].channel => s.up[u].channel
  /\ \A v \in Uploads : t.app[v].written = s.app[v].written
  /\ \A v \in Uploads \ {u} : t.app[v].inactive = s.app[v].inactive
  /\ \/ t.app[u].inactive = s.app[u].inactive
     \/ /\ s.up[u].channel
        /\ ~t.up[u].channel
        /\ t.app[u].inactive = s.app[u].inactive + 1

\* What spares one after the other spares.
LEMMA SparesTransitive ==
  ASSUME NEW s, NEW u \in Uploads
  PROVE  /\ Spares(s, s, u)
         /\ \A t, z : Spares(s, t, u) /\ Spares(t, z, u) => Spares(s, z, u)
  <1>1. Spares(s, s, u)
    BY DEF Spares, SameCounts
  <1>2. ASSUME NEW t, NEW z, Spares(s, t, u), Spares(t, z, u)
        PROVE  Spares(s, z, u)
    <2>1. \A g \in Handlers : SameCounts(z.hd[g], s.hd[g])
      BY <1>2 DEF Spares, SameCounts
    <2>2. \/ z.app[u].inactive = s.app[u].inactive
          \/ /\ s.up[u].channel
             /\ ~z.up[u].channel
             /\ z.app[u].inactive = s.app[u].inactive + 1
      BY <1>2 DEF Spares
    <2> QED BY <1>2, <2>1, <2>2 DEF Spares
  <1> QED BY <1>1, <1>2

\* A handler that is detached, at once or later, counts nothing.
LEMMA DetachTaskCounts ==
  ASSUME NEW s \in States, NEW here, NEW t \in HandlerTasks, t.op = "detach"
  PROVE  \A g \in Handlers : SameCounts(WithHandler(s, here, t).hd[g], s.hd[g])
  <1>1. CASE HandlerLoop[t.h] = here
    <2>1. WithHandler(s, here, t) = HandlerTask(s, t)
      BY <1>1 DEF WithHandler
    <2>2. \A g \in Handlers \ {t.h} : HandlerTask(s, t).hd[g] = s.hd[g]
      BY HandlerTaskIs
    <2>3. SameCounts(HandlerTask(s, t).hd[t.h], s.hd[t.h])
      BY HandlerTaskCounts DEF SameCounts
    <2> QED BY <2>1, <2>2, <2>3 DEF SameCounts
  <1>2. CASE HandlerLoop[t.h] # here
    <2>1. WithHandler(s, here, t).hd = s.hd
      BY <1>2 DEF WithHandler, Enqueue, States
    <2> QED BY <2>1 DEF SameCounts
  <1> QED BY <1>1, <1>2

\* An upload's record that keeps its channel, or its end, and is as complete as it was.
LEMMA PutUpSpares ==
  ASSUME NEW s \in States, NEW u \in Uploads, NEW r \in UploadRecords,
         r.uploadComplete = s.up[u].uploadComplete, r.channel = s.up[u].channel
  PROVE  Spares(s, PutUp(s, u, r), u)
  <1> DEFINE y == PutUp(s, u, r)
  <1>1. y.up[u] = r /\ y.hd = s.hd /\ y.app = s.app
    BY PutUpIs
  <1> HIDE DEF y
  <1>2. Spares(s, y, u)
    BY <1>1 DEF Spares, SameCounts
  <1> QED BY <1>2 DEF y

\* The upload and the handler forget each other.
LEMMA ForgettingSpares ==
  ASSUME NEW s \in States, NEW u \in Uploads, NEW close \in BOOLEAN, NEW h \in Handlers,
         NEW r \in UploadRecords,
         r.uploadComplete = s.up[u].uploadComplete, r.channel = s.up[u].channel
  PROVE  LET t == [op |-> "detach", h |-> h, close |-> close] IN
         Spares(s, WithHandler(PutUp(s, u, r), s.up[u].loop, t), u)
  <1> DEFINE t == [op |-> "detach", h |-> h, close |-> close]
             y == PutUp(s, u, r)
             here == s.up[u].loop
             z == WithHandler(y, here, t)
  <1>1. t \in HandlerTasks /\ t.op = "detach"
    BY DEF HandlerTasks
  <1>2. y \in States /\ Spares(s, y, u)
    BY PutUpIs, PutUpSpares
  <1> HIDE DEF t, y, here
  <1>3. z.up = y.up /\ z.app = y.app
    BY <1>1, <1>2, WithHandlerIs
  <1>4. \A g \in Handlers : SameCounts(z.hd[g], y.hd[g])
    BY <1>1, <1>2, DetachTaskCounts
  <1> HIDE DEF z
  <1>5. Spares(y, z, u)
    BY <1>3, <1>4 DEF Spares
  <1>6. Spares(s, z, u)
    BY <1>2, <1>5, SparesTransitive
  <1> QED BY <1>6 DEF z, y, t, here

\* detachUploadHandler spares.
LEMMA DetachSpares ==
  ASSUME NEW s \in States, NEW u \in Uploads, NEW close \in BOOLEAN
  PROVE  Spares(s, DetachUploadHandler(s, u, close), u)
  <1> DEFINE old == s.up[u]
             r == [old EXCEPT !.handler = None, !.timer = old.channel \/ @]
             t == [op |-> "detach", h |-> old.handler, close |-> close]
  <1>1. CASE old.handler = None
    BY <1>1, SparesTransitive DEF DetachUploadHandler
  <1>2. CASE old.handler # None
    <2>1. old \in UploadRecords /\ old.handler \in Handlers
      BY <1>2, StateFields DEF UploadRecords
    <2>2. (old.channel \/ old.timer) \in BOOLEAN
      OBVIOUS
    <2>3. \A b \in BOOLEAN :
            LET x == [old EXCEPT !.handler = None, !.timer = b] IN
            /\ x \in UploadRecords
            /\ x.uploadComplete = old.uploadComplete
            /\ x.channel = old.channel
      BY <2>1 DEF UploadRecords
    <2>4. /\ r \in UploadRecords
          /\ r.uploadComplete = old.uploadComplete
          /\ r.channel = old.channel
      BY <2>2, <2>3
    <2>5. [s EXCEPT !.up[u].handler = None, !.up[u].timer = s.up[u].channel \/ @] = PutUp(s, u, r)
      BY DEF PutUp, States
    <2>6. DetachUploadHandler(s, u, close) = WithHandler(PutUp(s, u, r), old.loop, t)
      BY <1>2, <2>5 DEF DetachUploadHandler
    <2> HIDE DEF r
    <2> QED BY <2>1, <2>4, <2>6, ForgettingSpares
  <1> QED BY <1>1, <1>2

\* So does close(mode:), besides destroying the channel.
LEMMA LetGoSpares ==
  ASSUME NEW s \in States, NEW u \in Uploads
  PROVE  Spares(s, LetGo(s, u), u)
  <1> DEFINE old == s.up[u]
             r == [old EXCEPT !.handler = None, !.timer = FALSE]
  <1>1. old \in UploadRecords
    BY StateFields
  <1>2. /\ r \in UploadRecords
        /\ r.uploadComplete = old.uploadComplete
        /\ r.channel = old.channel
    BY <1>1 DEF UploadRecords
  <1>3. [s EXCEPT !.up[u].handler = None, !.up[u].timer = FALSE] = PutUp(s, u, r)
    BY DEF PutUp, States
  <1> HIDE DEF r
  <1>4. CASE old.handler = None
    <2>1. LetGo(s, u) = PutUp(s, u, r)
      BY <1>3, <1>4 DEF LetGo
    <2> QED BY <1>2, <2>1, PutUpSpares
  <1>5. CASE old.handler # None
    <2>1. PICK close \in BOOLEAN : close = TRUE
      OBVIOUS
    <2>2. LetGo(s, u) = WithHandler(PutUp(s, u, r), old.loop,
                                    [op |-> "detach", h |-> old.handler, close |-> close])
      BY <1>3, <1>5, <2>1 DEF LetGo
    <2>3. old.handler \in Handlers
      BY <1>1, <1>5 DEF UploadRecords
    <2> QED BY <1>2, <2>2, <2>3, ForgettingSpares
  <1> QED BY <1>4, <1>5

\* destroyChannel ends the channel it finds, once, if the application closes in no callback.
LEMMA DestroySpares ==
  ASSUME NEW s \in States, NEW u \in Uploads, ~AppCloses
  PROVE  Spares(s, DestroyChannel(s, u), u)
  <1> DEFINE z == [s EXCEPT !.uploads = @ \ {u},
                            !.up[u].channel = FALSE,
                            !.app[u].inactive = @ + 1]
  <1>1. s.up[u] \in UploadRecords /\ s.app[u] \in AppRecords
    BY StateFields
  <1>2. CASE ~s.up[u].channel
    BY <1>2, SparesTransitive DEF DestroyChannel
  <1>3. CASE s.up[u].channel
    <2>1. DestroyChannel(s, u) = z
      BY <1>3 DEF DestroyChannel
    <2>2. z.hd = s.hd
      BY DEF States
    <2>3. ~z.up[u].channel /\ z.up[u].uploadComplete = s.up[u].uploadComplete
      BY <1>1 DEF States, UploadRecords
    <2>4. z.app[u].written = s.app[u].written /\ z.app[u].inactive = s.app[u].inactive + 1
      BY <1>1 DEF States, AppRecords
    <2>5. \A v \in Uploads \ {u} : z.app[v] = s.app[v]
      BY DEF States
    <2> HIDE DEF z
    <2>6. \A g \in Handlers : SameCounts(z.hd[g], s.hd[g])
      BY <2>2 DEF SameCounts
    <2>7. \A v \in Uploads : z.app[v].written = s.app[v].written
      BY <2>4, <2>5
    <2> QED BY <1>3, <2>1, <2>3, <2>4, <2>5, <2>6, <2>7 DEF Spares
  <1> QED BY <1>2, <1>3

\* The last request of h has no answer, and no upload is to give it one.
Waiting(s, h) ==
  Owed(s.hd[h]) /\ \A v \in Uploads : s.up[v].handler # h

\* What spares leaves counts and ends as they are to be.
LEMMA SparesOnce ==
  ASSUME NEW s \in States, Once(s), NEW u \in Uploads, s.up[u].loop # None,
         NEW t, Retreats(s, t, u), Spares(s, t, u)
  PROVE  Once(t)
  <1>1. t \in States
    BY DEF Retreats
  <1>2. \A h \in Handlers :
          /\ SameCounts(t.hd[h], s.hd[h])
          /\ t.hd[h].body = s.hd[h].body
          /\ t.hd[h].conn = "open" => s.hd[h].conn = "open"
    BY DEF Retreats, SameHandlers, Spares
  <1>3. \A v \in Uploads :
          /\ t.up[v].handler = s.up[v].handler \/ t.up[v].handler = None
          /\ t.up[v].loop = s.up[v].loop
          /\ t.up[v].resumable = s.up[v].resumable
          /\ t.up[v].uploadComplete = s.up[v].uploadComplete
          /\ t.up[v].channel => s.up[v].channel
          /\ t.app[v].ends = s.app[v].ends
          /\ t.app[v].written = s.app[v].written
    BY DEF Retreats, SameUploads, SameShown, Spares
  <1>4. ASSUME NEW h \in Handlers
        PROVE  Balanced(t.hd[h])
    BY <1>2 DEF Once, Balanced, SameCounts
  <1>5. ASSUME NEW v \in Uploads
        PROVE  EndsAt(t, v)
    <2>1. EndsAt(s, v)
      BY DEF Once
    <2>2. CASE v # u
      <3>1. t.app[v].inactive = s.app[v].inactive
        BY <2>2 DEF Spares
      <3> QED BY <1>3, <2>1, <3>1 DEF EndsAt
    <2>3. CASE v = u
      <3>1. CASE t.app[u].inactive = s.app[u].inactive
        BY <1>3, <2>1, <2>3, <3>1 DEF EndsAt
      <3>2. CASE s.up[u].channel /\ ~t.up[u].channel /\ t.app[u].inactive = s.app[u].inactive + 1
        <4>1. t.app[u].inactive = 1
          BY <2>1, <2>3, <3>2 DEF EndsAt
        <4> QED BY <1>3, <2>1, <2>3, <3>2, <4>1 DEF EndsAt
      <3> QED BY <3>1, <3>2 DEF Spares
    <2> QED BY <2>2, <2>3
  <1>6. ASSUME NEW v \in Uploads, NEW h \in Handlers, t.up[v].handler = h
        PROVE  Owes(t, v, h)
    <2>1. h # None
      BY ValueAssumption
    <2>2. s.up[v].handler = h /\ Owes(s, v, h)
      BY <1>3, <1>6, <2>1 DEF Once
    <2> QED BY <1>2, <1>3, <2>2 DEF Owes, SameCounts, Owed
  <1> QED BY <1>4, <1>5, <1>6 DEF Once, Owes

\* A request that waits goes on waiting.
LEMMA SparesWaiting ==
  ASSUME NEW s, NEW u \in Uploads, NEW t, Retreats(s, t, u), Spares(s, t, u),
         NEW h \in Handlers, Waiting(s, h)
  PROVE  Waiting(t, h)
  <1>1. h # None
    BY ValueAssumption
  <1>2. \A v \in Uploads : t.up[v].handler = s.up[v].handler \/ t.up[v].handler = None
    BY DEF Retreats, SameUploads
  <1>3. Owed(t.hd[h])
    BY DEF Waiting, Owed, Spares, SameCounts
  <1> QED BY <1>1, <1>2, <1>3 DEF Waiting

\* Upload u has answered h, if h can still be reached, and leaves the rest alone.
Answers(s, t, u, h) ==
  /\ \A g \in Handlers \ {h} : SameCounts(t.hd[g], s.hd[g])
  /\ \/ SameCounts(t.hd[h], s.hd[h])
     \/ /\ t.hd[h].requests = s.hd[h].requests
        /\ t.hd[h].heads = s.hd[h].heads + 1
        /\ t.hd[h].ends = s.hd[h].ends + 1
  /\ t.up[u].uploadComplete = s.up[u].uploadComplete
  /\ t.app = s.app

\* respondAndDetach answers its handler once, on the handler's loop.
LEMMA RespondAnswers ==
  ASSUME NEW s \in States, NEW u \in Uploads, NEW h \in Handlers, HandlerLoop[h] = s.up[u].loop
  PROVE  Answers(s, RespondAndDetach(s, u, h), u, h)
  <1> DEFINE t == [op |-> "respond", h |-> h]
             y == WithHandler(s, s.up[u].loop, t)
             z == RespondAndDetach(s, u, h)
  <1>1. t \in HandlerTasks /\ t.h = h /\ t.op = "respond" /\ y = HandlerTask(s, t)
    BY DEF HandlerTasks, WithHandler
  <1>2. PICK no \in BOOLEAN : no = FALSE
    OBVIOUS
  <1>3. z = IF s.up[u].handler = h THEN DetachUploadHandler(y, u, no) ELSE y
    BY <1>2 DEF RespondAndDetach
  <1> HIDE DEF t, y, z
  <1>4. /\ y \in States
        /\ y.up = s.up
        /\ y.app = s.app
        /\ \A g \in Handlers \ {h} : y.hd[g] = s.hd[g]
    BY <1>1, HandlerTaskIs
  <1>5. /\ y.hd[h].requests = s.hd[h].requests
        /\ \/ y.hd[h].heads = s.hd[h].heads /\ y.hd[h].ends = s.hd[h].ends
           \/ y.hd[h].heads = s.hd[h].heads + 1 /\ y.hd[h].ends = s.hd[h].ends + 1
    BY <1>1, HandlerTaskCounts
  <1>6. Answers(s, y, u, h)
    BY <1>4, <1>5 DEF Answers, SameCounts
  <1>7. CASE s.up[u].handler = h
    <2> DEFINE x == DetachUploadHandler(y, u, no)
    <2>1. x.app = y.app /\ Spares(y, x, u)
      BY <1>4, DetachIs, DetachSpares
    <2> HIDE DEF x
    <2>2. Answers(s, x, u, h)
      BY <1>6, <2>1 DEF Answers, Spares, SameCounts
    <2> QED BY <1>3, <1>7, <2>2 DEF x, z
  <1>8. CASE s.up[u].handler # h
    BY <1>3, <1>6, <1>8 DEF z
  <1> QED BY <1>7, <1>8

\* An answer to a request that has none leaves counts and ends as they are to be, once the
\* upload has let go of the handler and no other has it.
LEMMA AnswerOnce ==
  ASSUME NEW s \in States, Once(s), NEW u \in Uploads, NEW h \in Handlers, Owed(s.hd[h]),
         NEW t, Retreats(s, t, u), Answers(s, t, u, h),
         \A v \in Uploads : t.up[v].handler # h
  PROVE  Once(t)
  <1>1. \A v \in Uploads :
          /\ t.up[v].handler = s.up[v].handler \/ t.up[v].handler = None
          /\ t.up[v].loop = s.up[v].loop
          /\ t.up[v].resumable = s.up[v].resumable
          /\ t.up[v].uploadComplete = s.up[v].uploadComplete
          /\ t.up[v].channel => s.up[v].channel
          /\ t.app = s.app
    BY DEF Retreats, SameUploads, Answers
  <1>2. \A g \in Handlers :
          /\ t.hd[g].body = s.hd[g].body
          /\ t.hd[g].conn = "open" => s.hd[g].conn = "open"
          /\ g # h => SameCounts(t.hd[g], s.hd[g])
    BY DEF Retreats, SameHandlers, Answers
  <1>3. s.hd[h] \in HandlerRecords
    BY StateFields
  <1>4. ASSUME NEW g \in Handlers
        PROVE  Balanced(t.hd[g])
    <2>1. Balanced(s.hd[g])
      BY DEF Once
    <2>2. CASE SameCounts(t.hd[g], s.hd[g])
      BY <2>1, <2>2 DEF Balanced, SameCounts
    <2>3. CASE g = h /\ ~SameCounts(t.hd[g], s.hd[g])
      BY <1>3, <2>1, <2>3 DEF Answers, Balanced, Owed, HandlerRecords
    <2> QED BY <1>2, <2>2, <2>3
  <1>5. \A v \in Uploads : EndsAt(t, v)
    BY <1>1 DEF Once, EndsAt
  <1>6. ASSUME NEW v \in Uploads, NEW g \in Handlers, t.up[v].handler = g
        PROVE  Owes(t, v, g)
    <2>1. g # None /\ g # h
      BY <1>6, ValueAssumption
    <2>2. s.up[v].handler = g /\ Owes(s, v, g)
      BY <1>1, <1>6, <2>1 DEF Once
    <2> QED BY <1>1, <1>2, <2>1, <2>2 DEF Owes, SameCounts, Owed
  <1> QED BY <1>4, <1>5, <1>6 DEF Once, Owes

\* respondAndDetach, for a request that has no answer.
LEMMA RespondOnce ==
  ASSUME NEW s \in States, Once(s), NEW u \in Uploads, NEW h \in Handlers,
         HandlerLoop[h] = s.up[u].loop, Owed(s.hd[h]),
         \A v \in Uploads \ {u} : s.up[v].handler # h
  PROVE  Once(RespondAndDetach(s, u, h))
  <1> DEFINE z == RespondAndDetach(s, u, h)
  <1>1. Retreats(s, z, u) /\ z.up[u].handler # h
    BY RespondAndDetachIs
  <1>2. Answers(s, z, u, h)
    BY RespondAnswers
  <1> HIDE DEF z
  <1>3. \A v \in Uploads : z.up[v].handler # h
    BY <1>1 DEF Retreats, SameUploads
  <1>4. Once(z)
    BY <1>1, <1>2, <1>3, AnswerOnce
  <1> QED BY <1>4 DEF z

\* What an upload is that can be told something now, and not later.
Here(s, u, h) == s.up[u].loop # None /\ HandlerLoop[h] = s.up[u].loop

\* Detaching, and destroying behind it.
LEMMA LettingGoSpares ==
  ASSUME NEW s \in States, NEW u \in Uploads, NEW close \in BOOLEAN, ~AppCloses
  PROVE  LET x == DetachUploadHandler(s, u, close)
             z == DestroyChannel(x, u) IN
         /\ Retreats(s, x, u) /\ Spares(s, x, u) /\ x.up[u].handler = None
         /\ Retreats(s, z, u) /\ Spares(s, z, u) /\ z.up[u].handler = None
  <1> DEFINE x == DetachUploadHandler(s, u, close)
             z == DestroyChannel(x, u)
  <1>1. Retreats(s, x, u) /\ Spares(s, x, u) /\ x.up[u].handler = None
    BY DetachIs, DetachSpares
  <1>2. Retreats(s, z, u) /\ z.up[u].handler = None
    BY DetachDestroyIs
  <1> HIDE DEF x
  <1>3. x \in States
    BY <1>1 DEF Retreats
  <1>4. Spares(x, z, u)
    BY <1>3, DestroySpares
  <1> HIDE DEF z
  <1>5. Spares(s, z, u)
    BY <1>1, <1>4, SparesTransitive
  <1> QED BY <1>1, <1>2, <1>5 DEF x, z

\* The end of the handler, and a cancellation, spare.
LEMMA EndingSpares ==
  ASSUME NEW s \in States, NEW u \in Uploads, ~AppCloses
  PROVE  /\ Spares(s, HandlerEnded(s, u), u)
         /\ Spares(s, UploadCancellation(s, u), u)
  <1>1. PICK no \in BOOLEAN, yes \in BOOLEAN : no = FALSE /\ yes = TRUE
    OBVIOUS
  <1>2. Spares(s, HandlerEnded(s, u), u)
    <2>1. CASE ~s.up[u].uploadComplete /\ s.up[u].resumable
      <3>1. HandlerEnded(s, u) = DetachUploadHandler(s, u, no)
        BY <1>1, <2>1 DEF HandlerEnded
      <3> QED BY <3>1, DetachSpares
    <2>2. CASE ~(~s.up[u].uploadComplete /\ s.up[u].resumable)
      <3> DEFINE y == DestroyChannel(s, u)
      <3>1. HandlerEnded(s, u) = DetachUploadHandler(y, u, no)
        BY <1>1, <2>2 DEF HandlerEnded
      <3>2. Retreats(s, y, u) /\ Spares(s, y, u)
        BY DestroyIs, DestroySpares
      <3> HIDE DEF y
      <3>3. y \in States
        BY <3>2 DEF Retreats
      <3>4. Spares(y, DetachUploadHandler(y, u, no), u)
        BY <3>3, DetachSpares
      <3> QED BY <3>1, <3>2, <3>4, SparesTransitive
    <2> QED BY <2>1, <2>2
  <1>3. Spares(s, UploadCancellation(s, u), u)
    <2>1. UploadCancellation(s, u) = DestroyChannel(DetachUploadHandler(s, u, yes), u)
      BY <1>1 DEF UploadCancellation
    <2> QED BY <2>1, LettingGoSpares
  <1> QED BY <1>2, <1>3

\* The upload of a request for an offset answers it, and lets go of who fed it.
LEMMA OffsetOnce ==
  ASSUME NEW s \in States, Once(s), NEW u \in Uploads, NEW h \in Handlers, Here(s, u, h),
         Waiting(s, h), ~AppCloses
  PROVE  Once(OffsetRetrieving(s, u, h))
  <1>1. PICK yes \in BOOLEAN : yes = TRUE
    OBVIOUS
  <1> DEFINE x == DetachUploadHandler(s, u, yes)
  <1>2. OffsetRetrieving(s, u, h) = RespondAndDetach(x, u, h)
    BY <1>1 DEF OffsetRetrieving
  <1>3. Retreats(s, x, u) /\ Spares(s, x, u)
    BY DetachIs, DetachSpares
  <1> HIDE DEF x
  <1>4. x \in States /\ x.up[u].loop = s.up[u].loop
    BY <1>3 DEF Retreats, SameUploads
  <1>5. Once(x) /\ Waiting(x, h)
    BY <1>3, SparesOnce, SparesWaiting DEF Here
  <1> QED BY <1>2, <1>4, <1>5, RespondOnce DEF Waiting, Here

\* A request to append gets the upload, which is not complete and owes it the answer; or
\* it is answered, and the upload gives up.
LEMMA AppendingOnce ==
  ASSUME NEW s \in States, Once(s), NEW u \in Uploads, NEW h \in Handlers, Here(s, u, h),
         Waiting(s, h), ~AppCloses, s.app[u].ends = 0, NEW r \in UploadRequests
  PROVE  Once(UploadAppending(s, u, h, r))
  <1> DEFINE old == s.up[u]
             z == UploadAppending(s, u, h, r)
             free == old.handler = None /\ old.offset = r.offset /\ ~old.responseStarted
             saved == SaveUploadLength(old.length, old.offset, r)
             lengthened == IF free THEN [s EXCEPT !.up[u].length = saved.length] ELSE s
             longer == [old EXCEPT !.length = saved.length]
  <1>1. old \in UploadRecords
    BY StateFields
  <1>2. PICK yes \in BOOLEAN : yes = TRUE
    OBVIOUS
  <1>3. ASSUME NEW y \in States, Retreats(s, y, u), Spares(s, y, u)
        PROVE  Once(RespondAndDetach(DestroyChannel(DetachUploadHandler(y, u, yes), u), u, h))
    <2> DEFINE x == DestroyChannel(DetachUploadHandler(y, u, yes), u)
    <2>1. Retreats(y, x, u) /\ Spares(y, x, u)
      BY LettingGoSpares
    <2> HIDE DEF x
    <2>2. Retreats(s, x, u) /\ Spares(s, x, u)
      BY <1>3, <2>1, RetreatsTransitive, SparesTransitive
    <2>3. x \in States /\ x.up[u].loop = s.up[u].loop
      BY <2>2 DEF Retreats, SameUploads
    <2>4. Once(x) /\ Waiting(x, h)
      BY <2>2, SparesOnce, SparesWaiting DEF Here
    <2>5. Once(RespondAndDetach(x, u, h))
      BY <2>3, <2>4, RespondOnce DEF Waiting, Here
    <2> QED BY <2>5 DEF x
  <1>4. z = IF free /\ saved.ok
              THEN AttachUploadHandler(
                     [lengthened EXCEPT !.up[u].requestIsComplete = r.complete], u, h)
              ELSE RespondAndDetach(
                     DestroyChannel(DetachUploadHandler(lengthened, u, yes), u), u, h)
    BY <1>2 DEF UploadAppending
  <1>5. Retreats(s, lengthened, u) /\ Spares(s, lengthened, u) /\ lengthened \in States
    <2>1. CASE free
      <3>1. saved.length \in {Unknown, FileLength}
        BY <1>1, <2>1, SaveUploadLengthIs DEF UploadRecords
      <3>2. lengthened = PutUp(s, u, longer)
        BY <2>1 DEF PutUp, States
      <3> HIDE DEF saved, lengthened
      <3>3. longer \in UploadRecords /\ Loses(old, longer)
              /\ longer.uploadComplete = old.uploadComplete /\ longer.channel = old.channel
        BY <1>1, <3>1 DEF UploadRecords, Loses
      <3> HIDE DEF longer
      <3> QED BY <3>2, <3>3, PutUpRetreats, PutUpSpares, PutUpIs
    <2>2. CASE ~free
      BY <2>2, RetreatsTransitive, SparesTransitive
    <2> QED BY <2>1, <2>2
  <1>6. CASE free /\ saved.ok
    <2>1. \/ \E a : AttachedTo(old, a, h, r) /\ z = PutUp(s, u, a)
          \/ z.up[u].handler = None
      BY UploadAppendingIs
    <2>2. z.up[u].handler = h
      <3>1. z = [[lengthened EXCEPT !.up[u].requestIsComplete = r.complete]
                   EXCEPT !.up[u].handler = h, !.up[u].timer = FALSE]
        BY <1>4, <1>6 DEF AttachUploadHandler
      <3> HIDE DEF lengthened, z
      <3>2. lengthened \in States
        BY <1>5
      <3>3. lengthened.up[u] \in UploadRecords
        BY <3>2, StateFields
      <3> QED BY <3>1, <3>2, <3>3 DEF States, UploadRecords
    <2> HIDE DEF z
    <2>3. h # None
      BY ValueAssumption
    <2>4. PICK a : AttachedTo(old, a, h, r) /\ z = PutUp(s, u, a)
      BY <2>1, <2>2, <2>3
    <2>5. /\ z.up[u] = a
          /\ \A v \in Uploads \ {u} : z.up[v] = s.up[v]
          /\ z.hd = s.hd
          /\ z.app = s.app
      BY <2>4, PutUpIs DEF AttachedTo
    <2>6. a.loop = old.loop /\ a.channel = old.channel /\ a.resumable = old.resumable
            /\ a.handler = h
      BY <2>4 DEF AttachedTo
    <2>7. ASSUME NEW v \in Uploads
          PROVE  EndsAt(z, v)
      <3>1. EndsAt(s, v)
        BY DEF Once
      <3>2. CASE v # u
        BY <2>5, <3>1, <3>2 DEF EndsAt
      <3>3. CASE v = u
        BY <2>5, <2>6, <3>1, <3>3 DEF EndsAt
      <3> QED BY <3>2, <3>3
    <2>8. ASSUME NEW v \in Uploads, NEW g \in Handlers, z.up[v].handler = g
          PROVE  Owes(z, v, g)
      <3>1. CASE v # u
        BY <2>5, <2>8, <3>1 DEF Once, Owes
      <3>2. CASE v = u
        <4>1. g = h
          BY <2>5, <2>6, <2>8, <3>2
        <4>2. s.app[u].written = "none"
          BY DEF Once, EndsAt
        <4> QED BY <2>5, <3>2, <4>1, <4>2 DEF Owes, Waiting
      <3> QED BY <3>1, <3>2
    <2>9. Once(z)
      BY <2>5, <2>7, <2>8 DEF Once, Owes
    <2> QED BY <2>9 DEF z
  <1>7. CASE ~(free /\ saved.ok)
    <2> HIDE DEF lengthened, free, saved
    <2>1. z = RespondAndDetach(DestroyChannel(DetachUploadHandler(lengthened, u, yes), u), u, h)
      BY <1>4, <1>7
    <2> HIDE DEF z
    <2>2. Once(z)
      BY <1>3, <1>5, <2>1
    <2> QED BY <2>2 DEF z
  <1> QED BY <1>6, <1>7

\* Other fields of the upload's record, and of what the application has been shown.
LEMMA TellingKeepsOnce ==
  ASSUME NEW s \in States, Once(s), NEW u \in Uploads,
         NEW r \in UploadRecords, NEW a \in AppRecords,
         r.handler = s.up[u].handler, r.loop = s.up[u].loop, r.channel = s.up[u].channel,
         r.resumable = s.up[u].resumable, r.uploadComplete = s.up[u].uploadComplete,
         a.ends = s.app[u].ends, a.inactive = s.app[u].inactive, a.written = s.app[u].written
  PROVE  Once(PutUp(s, u, r)) /\ Once(PutApp(PutUp(s, u, r), u, a))
  <1> DEFINE y == PutUp(s, u, r)
             z == PutApp(y, u, a)
  <1>1. /\ y \in States /\ y.up[u] = r /\ (\A v \in Uploads \ {u} : y.up[v] = s.up[v])
        /\ y.hd = s.hd /\ y.app = s.app
    BY PutUpIs
  <1> HIDE DEF y
  <1>2. /\ z.app[u] = a /\ (\A v \in Uploads \ {u} : z.app[v] = s.app[v])
        /\ z.hd = s.hd /\ z.up = y.up
    BY <1>1, PutAppIs
  <1> HIDE DEF z
  <1>3. ASSUME NEW x, x = y \/ x = z
        PROVE  Once(x)
    <2>1. /\ x.hd = s.hd
          /\ \A v \in Uploads :
               /\ x.up[v].handler = s.up[v].handler
               /\ x.up[v].loop = s.up[v].loop
               /\ x.up[v].channel = s.up[v].channel
               /\ x.up[v].resumable = s.up[v].resumable
               /\ x.up[v].uploadComplete = s.up[v].uploadComplete
               /\ x.app[v].ends = s.app[v].ends
               /\ x.app[v].inactive = s.app[v].inactive
               /\ x.app[v].written = s.app[v].written
      <3>1. CASE x = y
        BY <1>1, <3>1
      <3>2. CASE x = z
        BY <1>1, <1>2, <3>2
      <3> QED BY <1>3, <3>1, <3>2
    <2>2. \A v \in Uploads : EndsAt(x, v)
      BY <2>1 DEF Once, EndsAt
    <2>3. \A v \in Uploads, h \in Handlers : Owes(x, v, h)
      BY <2>1 DEF Once, Owes
    <2> QED BY <2>1, <2>2, <2>3 DEF Once
  <1> QED BY <1>3 DEF y, z

\* A byte that comes while the body is open is before the end: if it is too much, the
\* request is answered for the first time.
LEMMA BodyOnce ==
  ASSUME NEW s \in States, Once(s), NEW u \in Uploads, NEW h \in Handlers, Here(s, u, h),
         s.up[u].handler = h, \A v \in Uploads \ {u} : s.up[v].handler # h,
         s.hd[h].body.open, NEW pos
  PROVE  Once(ReceiveBody(s, u, h, pos))
  <1> DEFINE z == ReceiveBody(s, u, h, pos)
             r == Counted(s, u)
             a == Shown(s, u, pos)
             y == PutUp(s, u, r)
  <1>1. s.up[u] \in UploadRecords /\ s.app[u] \in AppRecords
    BY StateFields
  <1>2. /\ r \in UploadRecords
        /\ a \in AppRecords
        /\ z = RespondAndDetach(y, u, h) \/ z = PutApp(y, u, a) \/ z = y
    <2>1. /\ r \in UploadRecords
          /\ a \in AppRecords
          /\ TooLong(s, u) => z = RespondAndDetach(y, u, h)
          /\ ~TooLong(s, u) /\ s.up[u].channel => z = PutApp(y, u, a)
          /\ ~TooLong(s, u) /\ ~s.up[u].channel => z = y
      BY ReceiveBodyIs
    <2> HIDE DEF r, a, z, y
    <2> QED BY <2>1
  <1>3. /\ r.handler = s.up[u].handler /\ r.loop = s.up[u].loop
        /\ r.channel = s.up[u].channel /\ r.resumable = s.up[u].resumable
        /\ r.uploadComplete = s.up[u].uploadComplete
    BY <1>1 DEF Counted, UploadRecords
  <1>4. /\ a.ends = s.app[u].ends /\ a.inactive = s.app[u].inactive
        /\ a.written = s.app[u].written
    <2> DEFINE b == ShowsInOrder(s, u, pos)
    <2>1. a = [s.app[u] EXCEPT !.received = @ + 1, !.ordered = b]
      BY DEF Shown
    <2> HIDE DEF a, b
    <2> QED BY <1>1, <2>1 DEF AppRecords
  <1> HIDE DEF r, a, z
  <1>5. Once(y) /\ Once(PutApp(y, u, a))
    BY <1>2, <1>3, <1>4, TellingKeepsOnce
  <1>6. /\ y \in States /\ y.up[u] = r /\ (\A v \in Uploads \ {u} : y.up[v] = s.up[v])
        /\ y.hd = s.hd
    BY <1>2, PutUpIs
  <1>7. Owed(s.hd[h])
    BY <1>1 DEF Once, Owes, EndsAt, AppRecords
  <1> HIDE DEF y
  <1>8. Once(RespondAndDetach(y, u, h))
    BY <1>3, <1>5, <1>6, <1>7, RespondOnce DEF Here
  <1> QED BY <1>2, <1>5, <1>8 DEF z

\* The end of the body is shown once, and of a resumable upload when it is complete; or
\* the request, which had no answer, is answered.
LEMMA EndOnce ==
  ASSUME NEW s \in States, Once(s), NEW u \in Uploads, NEW h \in Handlers, Here(s, u, h),
         s.up[u].handler = h, \A v \in Uploads \ {u} : s.up[v].handler # h,
         s.app[u].ends = 0, ~s.hd[h].body.open
  PROVE  Once(ReceiveEnd(s, u, h))
  <1> DEFINE r == [s.up[u] EXCEPT !.uploadComplete = TRUE]
             y == PutUp(s, u, r)
  <1>1. s.up[u] \in UploadRecords /\ s.app[u] \in AppRecords
    BY StateFields
  <1>2. s.app[u].written = "none"
    BY DEF Once, EndsAt
  <1>3. Owed(s.hd[h])
    BY <1>2 DEF Once, Owes
  <1>4. Once(RespondAndDetach(s, u, h))
    BY <1>3, RespondOnce DEF Here
  <1>5. ASSUME NEW x \in States, x.hd = s.hd, x.app = s.app, NEW c, x.up[u] = c,
               c.handler = h, c.loop = s.up[u].loop, c.channel = s.up[u].channel,
               c.resumable => c.uploadComplete,
               \A v \in Uploads \ {u} : x.up[v] = s.up[v]
        PROVE  Once(DeliverEnd(x, u))
    <2> DEFINE a == [x.app[u] EXCEPT !.ends = @ + 1]
               z == DeliverEnd(x, u)
    <2>1. x.app[u] \in AppRecords
      BY <1>5, StateFields
    <2>2. \/ z = x
          \/ z = PutApp(x, u, a) /\ a \in AppRecords
      BY <1>5, DeliverEndIs
    <2>3. /\ a.ends = 1
          /\ a.inactive = s.app[u].inactive
          /\ a.written = "none"
      BY <1>1, <1>2, <1>5 DEF AppRecords
    <2> HIDE DEF a, z
    <2>4. /\ z.hd = s.hd
          /\ z.up = x.up
          /\ \A v \in Uploads \ {u} : z.app[v] = s.app[v]
          /\ z.app[u].ends \in {0, 1}
          /\ z.app[u].inactive = s.app[u].inactive
          /\ z.app[u].written = "none"
      <3>1. CASE z = x
        BY <1>2, <1>5, <3>1
      <3>2. CASE z = PutApp(x, u, a) /\ a \in AppRecords
        BY <1>5, <2>3, <3>2, PutAppIs
      <3> QED BY <2>2, <3>1, <3>2
    <2>5. ASSUME NEW v \in Uploads
          PROVE  EndsAt(z, v)
      <3>1. EndsAt(s, v)
        BY DEF Once
      <3>2. CASE v # u
        BY <1>5, <2>4, <3>1, <3>2 DEF EndsAt
      <3>3. CASE v = u
        BY <1>5, <2>4, <3>1, <3>3 DEF EndsAt, Here
      <3> QED BY <3>2, <3>3
    <2>6. ASSUME NEW v \in Uploads, NEW g \in Handlers
          PROVE  Owes(z, v, g)
      <3>1. Owes(s, v, g)
        BY DEF Once
      <3>2. CASE v # u
        BY <1>5, <2>4, <3>1, <3>2 DEF Owes
      <3>3. CASE v = u
        BY <1>3, <1>5, <2>4, <3>3 DEF Owes
      <3> QED BY <3>2, <3>3
    <2>7. Once(z)
      BY <2>4, <2>5, <2>6 DEF Once
    <2> QED BY <2>7 DEF z
  <1>6. /\ r \in UploadRecords /\ r.handler = h /\ r.loop = s.up[u].loop
        /\ r.channel = s.up[u].channel /\ r.uploadComplete
    BY <1>1 DEF UploadRecords
  <1>7. [s EXCEPT !.up[u].uploadComplete = TRUE] = y
    BY DEF PutUp, States
  <1>8. \/ ~s.up[u].resumable /\ ReceiveEnd(s, u, h) = DeliverEnd(s, u)
        \/ ReceiveEnd(s, u, h) = DeliverEnd(y, u)
        \/ ReceiveEnd(s, u, h) = RespondAndDetach(s, u, h)
    BY <1>7 DEF ReceiveEnd
  <1> HIDE DEF r
  <1>9. /\ y \in States /\ y.up[u] = r /\ (\A v \in Uploads \ {u} : y.up[v] = s.up[v])
        /\ y.hd = s.hd /\ y.app = s.app
    BY <1>6, PutUpIs
  <1> HIDE DEF y
  <1>10. Once(DeliverEnd(y, u))
    BY <1>5, <1>6, <1>9
  <1>11. ~s.up[u].resumable => Once(DeliverEnd(s, u))
    BY <1>5
  <1> QED BY <1>4, <1>8, <1>10, <1>11

\* What a sound state is on one loop: every upload is here, and feeds one handler.
LEMMA OneLoopIs ==
  ASSUME NEW s, Sound(s), OneLoop
  PROVE  /\ s \in States
         /\ \A u \in Uploads, h \in Handlers : s.up[u].loop # None => Here(s, u, h)
         /\ \A u \in Uploads, h \in Handlers :
              s.up[u].handler = h => s.hd[h].upload = u /\ s.hd[h].context
         /\ \A u, v \in Uploads, h \in Handlers :
              s.up[u].handler = h /\ s.up[v].handler = h => u = v
  BY DEF Sound, Together, Here

\* What a handler tells its upload is told now.
LEMMA TellingNow ==
  ASSUME NEW s, Sound(s), OneLoop, NEW h \in Handlers, NEW op \in {"body", "end", "gone"}
  PROVE  LET z == TellUpload(s, h, op)
             u == s.hd[h].upload IN
         \/ z = s
         \/ /\ u \in Uploads
            /\ Here(s, u, h)
            /\ s.up[u].handler = h
            /\ \A v \in Uploads \ {u} : s.up[v].handler # h
            /\ op = "body" => z = ReceiveBody(s, u, h, hd[h].body.pos)
            /\ op = "end" => z = ReceiveEnd(s, u, h)
            /\ op = "gone" => z = HandlerEnded(s, u)
  <1> DEFINE z == TellUpload(s, h, op)
             u == s.hd[h].upload
             t == Telling(s, h, op)
  <1>1. CASE u \notin Uploads
    BY <1>1 DEF TellUpload
  <1>2. CASE u \in Uploads
    <2>1. s.up[u].loop # None
      BY <1>2 DEF Sound, Unused
    <2>2. Here(s, u, h)
      BY <1>2, <2>1, OneLoopIs
    <2>3. t.u = u /\ t.h = h /\ t.op = op /\ t.pos = hd[h].body.pos
      BY DEF Telling
    <2>4. z = WithUpload(s, HandlerLoop[h], t)
      BY <1>2 DEF TellUpload, Telling
    <2> HIDE DEF t, u, z
    <2>5. z = UploadTask(s, t)
      BY <2>2, <2>3, <2>4 DEF WithUpload, Here
    <2>6. CASE s.up[u].handler # h
      <3>1. z = s
        BY <2>3, <2>5, <2>6 DEF UploadTask, Expected
      <3> QED BY <3>1 DEF z
    <2>7. CASE s.up[u].handler = h
      <3>1. \A v \in Uploads \ {u} : s.up[v].handler # h
        BY <1>2, <2>7, OneLoopIs
      <3>2. /\ op = "body" => z = ReceiveBody(s, u, h, hd[h].body.pos)
            /\ op = "end" => z = ReceiveEnd(s, u, h)
            /\ op = "gone" => z = HandlerEnded(s, u)
        BY <2>3, <2>5, <2>7 DEF UploadTask, Expected
      <3> QED BY <1>2, <2>2, <2>7, <3>1, <3>2 DEF u, z
    <2> QED BY <2>6, <2>7
  <1> QED BY <1>1, <1>2

\* A handler that goes is spared, and what it leaves is as it is to be.
LEMMA GoneOnce ==
  ASSUME NEW s, Sound(s), Once(s), OneLoop, ~AppCloses, NEW h \in Handlers
  PROVE  LET z == TellUpload(s, h, "gone") IN
         /\ Once(z)
         /\ z = s \/ \E u \in Uploads : Retreats(s, z, u) /\ Spares(s, z, u)
  <1> DEFINE z == TellUpload(s, h, "gone")
             u == s.hd[h].upload
  <1>1. s \in States
    BY DEF Sound
  <1>2. \/ z = s
        \/ u \in Uploads /\ Here(s, u, h) /\ z = HandlerEnded(s, u)
    BY TellingNow
  <1> HIDE DEF z, u
  <1>3. CASE z = s
    BY <1>3 DEF z
  <1>4. CASE u \in Uploads /\ Here(s, u, h) /\ z = HandlerEnded(s, u)
    <2>1. Retreats(s, z, u) /\ Spares(s, z, u)
      BY <1>1, <1>4, EndingIs, EndingSpares
    <2>2. Once(z)
      BY <1>1, <1>4, <2>1, SparesOnce DEF Here
    <2> QED BY <1>4, <2>1, <2>2 DEF z
  <1> QED BY <1>2, <1>3, <1>4

\* Another record of a handler that no upload has, or with the same counts.
LEMMA PutHdOnce ==
  ASSUME NEW s \in States, Once(s), NEW h \in Handlers, NEW r \in HandlerRecords,
         \/ Balanced(r) /\ \A v \in Uploads : s.up[v].handler # h
         \/ /\ SameCounts(r, s.hd[h])
            /\ r.body.open => s.hd[h].body.open
            /\ r.conn = "open" => s.hd[h].conn = "open"
  PROVE  Once(PutHd(s, h, r))
  <1> DEFINE z == PutHd(s, h, r)
  <1>1. /\ z.hd[h] = r /\ (\A g \in Handlers \ {h} : z.hd[g] = s.hd[g])
        /\ z.up = s.up /\ z.app = s.app
    BY PutHdIs
  <1> HIDE DEF z
  <1>2. ASSUME NEW g \in Handlers
        PROVE  Balanced(z.hd[g])
    <2>1. CASE g # h
      BY <1>1, <2>1 DEF Once
    <2>2. CASE g = h
      BY <1>1, <2>2 DEF Once, Balanced, SameCounts
    <2> QED BY <2>1, <2>2
  <1>3. \A v \in Uploads : EndsAt(z, v)
    BY <1>1 DEF Once, EndsAt
  <1>4. ASSUME NEW v \in Uploads, NEW g \in Handlers
        PROVE  Owes(z, v, g)
    <2>1. Owes(s, v, g)
      BY DEF Once
    <2>2. CASE g # h
      BY <1>1, <2>1, <2>2 DEF Owes
    <2>3. CASE g = h
      BY <1>1, <2>1, <2>3 DEF Owes, Owed, SameCounts
    <2> QED BY <2>2, <2>3
  <1>5. Once(z)
    BY <1>2, <1>3, <1>4 DEF Once
  <1> QED BY <1>5 DEF z

\* All connections share one loop, no client appends to what is complete, and the
\* application answers after the end and closes the channel in none of its callbacks.
Orderly == OneLoop /\ ~Reopens /\ ~EarlyResponse /\ ~AppCloses

\* The inductive invariant of one response and one end.
OnceInv == IInv /\ Once(State)

\* The head of a request counts as a request, and as nothing else.
LEMMA AfterHeadCounts ==
  ASSUME IInv, NEW h \in Handlers, Parted(h) \in States, NEW body \in Bodies
  PROVE  LET old == Parted(h).hd[h]
             r == AfterHead(h, body).hd[h] IN
         /\ r.requests = old.requests + 1
         /\ r.heads = old.heads
         /\ r.ends = old.ends
  <1> DEFINE y == Parted(h)
             old == y.hd[h]
             z == AfterHead(h, body)
  <1>1. State \in States /\ State.hd = hd
    BY DEF IInv, Sound, State
  <1>2. old \in HandlerRecords
    BY StateFields
  <1>3. CASE ~hd[h].shouldReset
    <2>1. ResetUpload(State, h) = State
      BY <1>1, <1>3 DEF ResetUpload
    <2>2. y = State
      BY <1>3 DEF Parted
    <2>3. z = [y EXCEPT !.hd[h].body = body, !.hd[h].requests = @ + 1]
      BY <2>1, <2>2 DEF AfterHead
    <2> HIDE DEF y
    <2> QED BY <1>2, <2>3 DEF States, HandlerRecords, y
  <1>4. CASE hd[h].shouldReset
    <2> DEFINE fresh == [old EXCEPT !.context = TRUE, !.upload = Fresh, !.shouldReset = FALSE]
               new == [fresh EXCEPT !.body = body, !.requests = @ + 1]
    <2>1. y = TellUpload(State, h, "gone")
      BY <1>4 DEF Parted
    <2>2. ResetUpload(State, h) = [y EXCEPT !.hd[h].context = TRUE,
                                            !.hd[h].upload = Fresh,
                                            !.hd[h].shouldReset = FALSE]
      BY <1>1, <1>4, <2>1 DEF ResetUpload
    <2> HIDE DEF y
    <2>3. ResetUpload(State, h) = PutHd(y, h, fresh)
      BY <2>2 DEF PutHd, States, y
    <2>4. z = [PutHd(y, h, fresh) EXCEPT !.hd[h].body = body, !.hd[h].requests = @ + 1]
      BY <2>3 DEF AfterHead
    <2>5. /\ fresh \in HandlerRecords
          /\ SameCounts(fresh, old)
      BY <1>2 DEF HandlerRecords, SameCounts
    <2> HIDE DEF fresh
    <2>6. PutHd(y, h, fresh) \in States /\ PutHd(y, h, fresh).hd[h] = fresh
      BY <2>5, PutHdIs DEF y
    <2> DEFINE x == PutHd(y, h, fresh)
    <2>7. /\ x \in States
          /\ x.hd[h] = fresh
          /\ z = [x EXCEPT !.hd[h].body = body, !.hd[h].requests = @ + 1]
      BY <2>4, <2>6
    <2> HIDE DEF x, z
    <2>8. z.hd[h] = new
      <3>1. z = PutHd(x, h, new)
        BY <2>7 DEF PutHd, States
      <3> QED BY <2>7, <3>1 DEF PutHd, States
    <2>9. new.requests = fresh.requests + 1 /\ new.heads = fresh.heads /\ new.ends = fresh.ends
      BY <2>5 DEF HandlerRecords
    <2> HIDE DEF new
    <2> QED BY <2>5, <2>8, <2>9 DEF y, z, SameCounts
  <1> QED BY <1>3, <1>4

\* The state in which the head of a request is handled: its answer is owed, by nobody yet.
LEMMA AfterHeadOnce ==
  ASSUME OnceInv, Orderly, NEW h \in Handlers, SendHead(h), NEW body \in Bodies, body.open
  PROVE  LET z == AfterHead(h, body) IN
         /\ Once(z)
         /\ Waiting(z, h)
         /\ \A u \in Uploads : z.app[u].ends = app[u].ends
  <1> DEFINE y == Parted(h)
             z == AfterHead(h, body)
  <1>1. /\ Sound(State) /\ State \in States /\ State.hd = hd /\ State.app = app
        /\ Once(State) /\ IInv
    BY DEF OnceInv, IInv, Sound, State
  <1>2. \/ y = State
        \/ y = TellUpload(State, h, "gone")
    BY DEF Parted
  <1> HIDE DEF y
  <1>3. Once(y) /\ (y = State \/ \E u \in Uploads : Retreats(State, y, u) /\ Spares(State, y, u))
    BY <1>1, <1>2, GoneOnce DEF Orderly
  <1>4. /\ y \in States
        /\ SameCounts(y.hd[h], hd[h])
        /\ \A u \in Uploads : y.app[u].ends = app[u].ends
    BY <1>1, <1>3 DEF Retreats, Spares, SameShown, SameCounts
  <1>5. PICK r \in HandlerRecords : z = PutHd(y, h, r)
    BY <1>1, AfterHeadIs DEF y
  <1>6. /\ z.hd[h].requests = y.hd[h].requests + 1
        /\ z.hd[h].heads = y.hd[h].heads
        /\ z.hd[h].ends = y.hd[h].ends
    BY <1>1, <1>4, AfterHeadCounts DEF y
  <1>7. \A u \in Uploads : z.up[u].handler # h
    BY <1>1, AfterHeadKeepsSound DEF Orderly
  <1> HIDE DEF z
  <1>8. z.hd[h] = r /\ z.up = y.up /\ z.app = y.app
    BY <1>4, <1>5, PutHdIs
  <1>9. /\ hd[h].ends = hd[h].requests
        /\ hd[h].heads = hd[h].requests
        /\ hd[h].requests \in Nat
    <2>1. Balanced(hd[h]) /\ hd[h].ends >= hd[h].requests
      BY <1>1 DEF Once, SendHead
    <2>2. hd[h] \in HandlerRecords
      BY <1>1, StateFields
    <2> QED BY <2>1, <2>2 DEF Balanced, HandlerRecords
  <1>10. Owed(r) /\ Balanced(r)
    BY <1>4, <1>6, <1>8, <1>9 DEF SameCounts, Owed, Balanced
  <1>11. Once(z)
    BY <1>3, <1>4, <1>5, <1>7, <1>8, <1>10, PutHdOnce
  <1> QED BY <1>4, <1>7, <1>8, <1>10, <1>11 DEF Waiting, z

\* A handler that refuses answers the request once.
LEMMA RefuseOnce ==
  ASSUME NEW s \in States, Once(s), NEW h \in Handlers, Waiting(s, h)
  PROVE  Once(Refuse(s, h))
  <1> DEFINE t == [op |-> "respond", h |-> h]
             d == [op |-> "detach", h |-> h, close |-> FALSE]
             x == HandlerTask(s, t)
             y == HandlerTask(x, d)
             z == Refuse(s, h)
  <1>1. t \in HandlerTasks /\ d \in HandlerTasks /\ t.h = h /\ d.h = h
          /\ t.op = "respond" /\ d.op = "detach"
    BY DEF HandlerTasks
  <1>2. z = [y EXCEPT !.hd[h].upload = Spent]
    BY DEF Refuse
  <1> HIDE DEF t, d, z
  <1>3. x \in States
    BY <1>1, HandlerTaskIs
  <1>4. /\ x.hd[h].requests = s.hd[h].requests
        /\ \/ x.hd[h].heads = s.hd[h].heads /\ x.hd[h].ends = s.hd[h].ends
           \/ x.hd[h].heads = s.hd[h].heads + 1 /\ x.hd[h].ends = s.hd[h].ends + 1
    BY <1>1, HandlerTaskCounts
  <1> HIDE DEF x
  <1>5. y \in States
    BY <1>1, <1>3, HandlerTaskIs
  <1>6. SameCounts(y.hd[h], x.hd[h])
    BY <1>1, <1>3, HandlerTaskCounts DEF SameCounts
  <1> HIDE DEF y
  <1>7. y.hd[h] \in HandlerRecords
    BY <1>5, StateFields
  <1>8. SameCounts(z.hd[h], y.hd[h])
    BY <1>2, <1>5, <1>7 DEF States, HandlerRecords, SameCounts
  <1>9. PICK r \in HandlerRecords : z = PutHd(s, h, r)
    BY RefuseIs DEF z
  <1>10. z.hd[h] = r
    BY <1>9, PutHdIs
  <1>11. s.hd[h] \in HandlerRecords
    BY StateFields
  <1>12. Balanced(r)
    BY <1>4, <1>6, <1>8, <1>10, <1>11 DEF SameCounts, Balanced, Waiting, Owed, HandlerRecords
  <1>13. Once(z)
    BY <1>9, <1>12, PutHdOnce DEF Waiting
  <1> QED BY <1>13 DEF z

\* A new upload owes the answer to the request that made it.
LEMMA NewUploadOnce ==
  ASSUME NEW s \in States, Once(s), NEW u \in Uploads, NEW h \in Handlers, Waiting(s, h),
         s.up[u].loop = None,
         NEW length \in {Unknown, FileLength}, NEW complete \in BOOLEAN,
         NEW resumable \in BOOLEAN
  PROVE  Once(NewUpload(s, u, h, length, complete, resumable))
  <1> DEFINE z == NewUpload(s, u, h, length, complete, resumable)
             r == Owning(s.hd[h], u)
             a == Created(s.up[u], HandlerLoop[h], h, length, complete, resumable)
  <1>1. /\ z.hd[h] = r
        /\ \A g \in Handlers \ {h} : z.hd[g] = s.hd[g]
        /\ z.up[u] = a
        /\ \A v \in Uploads \ {u} : z.up[v] = s.up[v]
        /\ z.app = s.app
    BY NewUploadIs
  <1>2. s.hd[h] \in HandlerRecords /\ s.up[u] \in UploadRecords
    BY StateFields
  <1>3. SameCounts(r, s.hd[h]) /\ r.body = s.hd[h].body /\ r.conn = s.hd[h].conn
    BY <1>2 DEF HandlerRecords, Owning, SameCounts
  <1>4. a.handler = h /\ a.loop = HandlerLoop[h]
    BY <1>2 DEF UploadRecords, Created
  <1> HIDE DEF r, a, z
  <1>5. ASSUME NEW g \in Handlers
        PROVE  SameCounts(z.hd[g], s.hd[g]) /\ z.hd[g].body = s.hd[g].body
                 /\ z.hd[g].conn = s.hd[g].conn
    <2>1. CASE g = h
      BY <1>1, <1>3, <2>1
    <2>2. CASE g # h
      BY <1>1, <2>2 DEF SameCounts
    <2> QED BY <2>1, <2>2
  <1>6. ASSUME NEW g \in Handlers
        PROVE  Balanced(z.hd[g])
    BY <1>5 DEF Once, Balanced, SameCounts
  <1>7. s.app[u].ends = 0 /\ s.app[u].inactive = 0 /\ s.app[u].written = "none"
    BY DEF Once, EndsAt
  <1>8. ASSUME NEW v \in Uploads
        PROVE  EndsAt(z, v)
    <2>1. CASE v # u
      BY <1>1, <2>1 DEF Once, EndsAt
    <2>2. CASE v = u
      BY <1>1, <1>7, <2>2 DEF EndsAt
    <2> QED BY <2>1, <2>2
  <1>9. ASSUME NEW v \in Uploads, NEW g \in Handlers
        PROVE  Owes(z, v, g)
    <2>1. CASE v # u
      BY <1>1, <1>5, <2>1 DEF Once, Owes, Owed, SameCounts
    <2>2. CASE v = u
      <3>1. SameCounts(z.hd[h], s.hd[h])
        BY <1>5
      <3> QED BY <1>1, <1>4, <1>7, <2>2, <3>1 DEF Owes, Waiting, Owed, SameCounts
    <2> QED BY <2>1, <2>2
  <1>10. Once(z)
    BY <1>6, <1>8, <1>9 DEF Once
  <1> QED BY <1>10 DEF z

\* A handler that turns to another upload still waits.
LEMMA TurnOnce ==
  ASSUME NEW s \in States, Once(s), NEW h \in Handlers, Waiting(s, h),
         NEW u \in Uploads \cup {Spent}
  PROVE  LET z == [s EXCEPT !.hd[h].upload = u] IN
         z \in States /\ Once(z) /\ Waiting(z, h) /\ z.up = s.up /\ z.app = s.app
  <1> DEFINE z == [s EXCEPT !.hd[h].upload = u]
             r == Owning(s.hd[h], u)
  <1>1. s.hd[h] \in HandlerRecords
    BY StateFields
  <1>2. /\ r \in HandlerRecords
        /\ SameCounts(r, s.hd[h])
        /\ r.body = s.hd[h].body
        /\ r.conn = s.hd[h].conn
    BY <1>1 DEF HandlerRecords, Owning, SameCounts
  <1>3. z = PutHd(s, h, r)
    BY DEF PutHd, States, Owning
  <1> HIDE DEF r, z
  <1>4. Once(z)
    BY <1>2, <1>3, PutHdOnce
  <1>5. z \in States /\ z.hd[h] = r /\ z.up = s.up /\ z.app = s.app
    BY <1>2, <1>3, PutHdIs
  <1>6. Waiting(z, h)
    BY <1>2, <1>5 DEF Waiting, Owed, SameCounts
  <1> QED BY <1>4, <1>5, <1>6 DEF z

\* An action that becomes a state in which each is answered once.
LEMMA BecomesOnce ==
  ASSUME NEW t \in States, Once(t), Become(t)
  PROVE  Once(State')
  <1>1. State' = t
    BY Becomes
  <1> QED BY <1>1

\* What the invariant says of the present state.
LEMMA OnceInvIs ==
  ASSUME OnceInv, Orderly
  PROVE  /\ IInv /\ Sound(State) /\ Timed(State) /\ State \in States /\ Once(State) /\ OneLoop
         /\ ~AppCloses /\ ~EarlyResponse /\ ~Reopens
         /\ State.hd = hd /\ State.up = up /\ State.app = app /\ State.uploads = uploads
         /\ State.queue = queue
         /\ \A h \in Handlers : hd[h] \in HandlerRecords
         /\ \A u \in Uploads : up[u] \in UploadRecords /\ app[u] \in AppRecords
  BY StateFields DEF OnceInv, Orderly, IInv, Sound, State

\* A new upload, or a refusal.
LEMMA CreationOnce ==
  ASSUME OnceInv, Orderly, NEW h \in Handlers, NEW u \in Uploads, NEW r \in UploadRequests,
         UploadCreation(h, u, r)
  PROVE  Once(State')
  <1> DEFINE body == Body(0, r.length, r.complete)
             z == AfterHead(h, body)
             saved == SaveUploadLength(r.total, 0, r)
             n == saved.length
             c == r.complete
  <1>1. SendHead(h) /\ up[u].loop = None /\ r.offset = 0
    BY DEF UploadCreation
  <1>2. body \in Bodies /\ body.open
    BY LengthsAre, RequestFields, BodyIs
  <1>3. n \in {Unknown, FileLength} /\ c \in BOOLEAN
    BY <1>1, RequestFields, SaveUploadLengthIs
  <1>4. PICK yes \in BOOLEAN : yes = TRUE
    OBVIOUS
  <1>5. Become(IF saved.ok THEN NewUpload(z, u, h, n, c, yes) ELSE Refuse(z, h))
    BY <1>4 DEF UploadCreation
  <1> HIDE DEF body
  <1>6. z \in States /\ z.up[u].loop = None
    BY <1>1, <1>2, OnceInvIs, AfterHeadKeepsSound DEF Sound
  <1>7. Once(z) /\ Waiting(z, h)
    BY <1>1, <1>2, AfterHeadOnce
  <1> HIDE DEF z, saved, n, c
  <1>8. Once(NewUpload(z, u, h, n, c, yes)) /\ NewUpload(z, u, h, n, c, yes) \in States
    BY <1>3, <1>6, <1>7, NewUploadOnce, NewUploadIs
  <1>9. Once(Refuse(z, h)) /\ Refuse(z, h) \in States
    BY <1>6, <1>7, RefuseOnce, RefuseIs, PutHdIs
  <1> QED BY <1>5, <1>8, <1>9, BecomesOnce

\* A request that is not about resumable uploads.
LEMMA PlainOnce ==
  ASSUME OnceInv, Orderly, NEW h \in Handlers, NEW u \in Uploads, NEW length \in Lengths,
         PlainRequest(h, u, length)
  PROVE  Once(State')
  <1>1. PICK yes \in BOOLEAN, no \in BOOLEAN : yes = TRUE /\ no = FALSE
    OBVIOUS
  <1> DEFINE body == Body(0, length, no)
             z == AfterHead(h, body)
  <1>2. /\ SendHead(h) /\ up[u].loop = None
        /\ Become(NewUpload(z, u, h, Unknown, yes, no))
    BY <1>1 DEF PlainRequest
  <1>3. body \in Bodies /\ body.open
    BY LengthsAre, BodyIs
  <1> HIDE DEF body
  <1>4. z \in States /\ z.up[u].loop = None
    BY <1>2, <1>3, OnceInvIs, AfterHeadKeepsSound DEF Sound
  <1>5. Once(z) /\ Waiting(z, h)
    BY <1>2, <1>3, AfterHeadOnce
  <1> HIDE DEF z
  <1>6. Once(NewUpload(z, u, h, Unknown, yes, no)) /\ NewUpload(z, u, h, Unknown, yes, no) \in States
    BY <1>4, <1>5, NewUploadOnce, NewUploadIs
  <1> QED BY <1>2, <1>6, BecomesOnce

\* A request about an upload that is registered is told to it now.
LEMMA AskingNow ==
  ASSUME OnceInv, Orderly, NEW h \in Handlers, SendHead(h), NEW body \in Bodies, body.open,
         NEW u \in Uploads
  PROVE  LET z == AfterHead(h, body) IN
         /\ z \in States
         /\ Once(z) /\ Waiting(z, h)
         /\ z.app[u].ends = app[u].ends
         /\ u \in z.uploads => Here(z, u, h)
  <1> DEFINE z == AfterHead(h, body)
  <1>1. Sound(z)
    BY OnceInvIs, AfterHeadKeepsSound
  <1>2. Once(z) /\ Waiting(z, h) /\ z.app[u].ends = app[u].ends
    BY AfterHeadOnce
  <1> HIDE DEF z
  <1>3. u \in z.uploads => z.up[u].loop # None
    BY <1>1 DEF Sound, Unused
  <1>4. u \in z.uploads => Here(z, u, h)
    BY <1>1, <1>3, OnceInvIs, OneLoopIs
  <1> QED BY <1>1, <1>2, <1>4 DEF Sound, z

\* A request to append: its upload is not complete, so no end has been shown.
LEMMA AppendOnce ==
  ASSUME OnceInv, Orderly, NEW h \in Handlers, NEW u \in Uploads, NEW r \in UploadRequests,
         AppendRequest(h, u, r)
  PROVE  Once(State')
  <1> DEFINE body == Body(r.offset, r.length, r.complete)
             z == AfterHead(h, body)
             y == [z EXCEPT !.hd[h].upload = u]
             t == [op |-> "append", u |-> u, h |-> h, request |-> r]
  <1>1. /\ SendHead(h)
        /\ up[u].resumable /\ ~up[u].uploadComplete
        /\ Become(IF u \in z.uploads THEN WithUpload(y, HandlerLoop[h], t) ELSE Refuse(z, h))
    BY OnceInvIs DEF AppendRequest, Announced
  <1>2. body \in Bodies /\ body.open
    BY RequestFields, BodyIs
  <1> HIDE DEF body
  <1>3. /\ z \in States /\ Once(z) /\ Waiting(z, h)
        /\ z.app[u].ends = app[u].ends
        /\ u \in z.uploads => Here(z, u, h)
    BY <1>1, <1>2, AskingNow
  <1>4. app[u].ends = 0
    <2>1. EndsAt(State, u) /\ State.app = app /\ State.up = up /\ app[u] \in AppRecords
      BY OnceInvIs DEF Once
    <2> QED BY <1>1, <2>1 DEF EndsAt, AppRecords
  <1> HIDE DEF z
  <1>5. CASE u \in z.uploads
    <2>1. y \in States /\ Once(y) /\ Waiting(y, h) /\ y.up = z.up /\ y.app = z.app
      BY <1>3, TurnOnce
    <2>2. t.u = u /\ t.h = h /\ t.op = "append" /\ t.request = r
      OBVIOUS
    <2> HIDE DEF y, t
    <2>3. Here(y, u, h)
      BY <1>3, <1>5, <2>1 DEF Here
    <2>4. WithUpload(y, HandlerLoop[h], t) = UploadAppending(y, u, h, r)
      BY <2>2, <2>3 DEF WithUpload, UploadTask, Here
    <2>5. Once(UploadAppending(y, u, h, r))
      BY <1>3, <1>4, <2>1, <2>3, OnceInvIs, AppendingOnce
    <2>6. UploadAppending(y, u, h, r) \in States
      <3> DEFINE x == UploadAppending(y, u, h, r)
      <3>1. \/ \E a : AttachedTo(y.up[u], a, h, r) /\ x = PutUp(y, u, a)
            \/ Retreats(y, x, u)
        BY <2>1, UploadAppendingIs
      <3> HIDE DEF x
      <3>2. x \in States
        BY <2>1, <3>1, PutUpIs DEF AttachedTo, Retreats
      <3> QED BY <3>2 DEF x
    <2> QED BY <1>1, <1>5, <2>4, <2>5, <2>6, BecomesOnce
  <1>6. CASE u \notin z.uploads
    <2>1. Once(Refuse(z, h)) /\ Refuse(z, h) \in States
      BY <1>3, RefuseOnce, RefuseIs, PutHdIs
    <2> QED BY <1>1, <1>6, <2>1, BecomesOnce
  <1> QED BY <1>5, <1>6

\* A request for the offset.
LEMMA OffsetRequestOnce ==
  ASSUME OnceInv, Orderly, NEW h \in Handlers, NEW u \in Uploads, OffsetRequest(h, u)
  PROVE  Once(State')
  <1>1. PICK no \in BOOLEAN : no = FALSE
    OBVIOUS
  <1> DEFINE body == Body(0, 0, no)
             z == AfterHead(h, body)
             y == [z EXCEPT !.hd[h].upload = Spent]
             t == [op |-> "offset", u |-> u, h |-> h]
  <1>2. /\ SendHead(h)
        /\ Become(IF u \in z.uploads THEN WithUpload(y, HandlerLoop[h], t) ELSE Refuse(z, h))
    BY <1>1 DEF OffsetRequest
  <1>3. body \in Bodies /\ body.open
    BY LengthsAre, BodyIs
  <1> HIDE DEF body
  <1>4. /\ z \in States /\ Once(z) /\ Waiting(z, h)
        /\ u \in z.uploads => Here(z, u, h)
    BY <1>2, <1>3, AskingNow
  <1> HIDE DEF z
  <1>5. CASE u \in z.uploads
    <2>1. y \in States /\ Once(y) /\ Waiting(y, h) /\ y.up = z.up
      BY <1>4, TurnOnce
    <2>2. t.u = u /\ t.h = h /\ t.op = "offset"
      OBVIOUS
    <2> HIDE DEF y, t
    <2>3. Here(y, u, h)
      BY <1>4, <1>5, <2>1 DEF Here
    <2>4. WithUpload(y, HandlerLoop[h], t) = OffsetRetrieving(y, u, h)
      BY <2>2, <2>3 DEF WithUpload, UploadTask, Here
    <2>5. Once(OffsetRetrieving(y, u, h))
      BY <2>1, <2>3, OnceInvIs, OffsetOnce
    <2>6. OffsetRetrieving(y, u, h) \in States
      BY <2>1, EndingIs DEF Retreats
    <2> QED BY <1>2, <1>5, <2>4, <2>5, <2>6, BecomesOnce
  <1>6. CASE u \notin z.uploads
    <2>1. Once(Refuse(z, h)) /\ Refuse(z, h) \in States
      BY <1>4, RefuseOnce, RefuseIs, PutHdIs
    <2> QED BY <1>2, <1>6, <2>1, BecomesOnce
  <1> QED BY <1>5, <1>6

\* A cancellation, which the handler answers itself.
LEMMA CancelOnce ==
  ASSUME OnceInv, Orderly, NEW h \in Handlers, NEW u \in Uploads, CancelRequest(h, u)
  PROVE  Once(State')
  <1>1. PICK no \in BOOLEAN : no = FALSE
    OBVIOUS
  <1> DEFINE body == Body(0, 0, no)
             z == AfterHead(h, body)
             t == [op |-> "cancel", u |-> u, h |-> h]
             y == WithUpload(z, HandlerLoop[h], t)
             x == IF u \in z.uploads THEN y ELSE z
  <1>2. SendHead(h) /\ Become(Refuse(x, h))
    BY <1>1 DEF CancelRequest
  <1>3. body \in Bodies /\ body.open
    BY LengthsAre, BodyIs
  <1> HIDE DEF body
  <1>4. /\ z \in States /\ Once(z) /\ Waiting(z, h)
        /\ u \in z.uploads => Here(z, u, h)
    BY <1>2, <1>3, AskingNow
  <1> HIDE DEF z
  <1>5. x \in States /\ Once(x) /\ Waiting(x, h)
    <2>1. CASE u \in z.uploads
      <3>1. t.u = u /\ t.h = h /\ t.op = "cancel"
        OBVIOUS
      <3> HIDE DEF t
      <3>2. y = UploadCancellation(z, u)
        BY <1>4, <2>1, <3>1 DEF WithUpload, UploadTask, Here
      <3>3. Retreats(z, y, u) /\ Spares(z, y, u)
        BY <1>4, <3>2, OnceInvIs, EndingIs, EndingSpares
      <3> HIDE DEF y
      <3>4. y \in States /\ Once(y) /\ Waiting(y, h)
        BY <1>4, <2>1, <3>3, SparesOnce, SparesWaiting DEF Retreats, Here
      <3> QED BY <2>1, <3>4
    <2>2. CASE u \notin z.uploads
      BY <1>4, <2>2
    <2> QED BY <2>1, <2>2
  <1> HIDE DEF x
  <1>6. Once(Refuse(x, h)) /\ Refuse(x, h) \in States
    BY <1>5, RefuseOnce, RefuseIs, PutHdIs
  <1> QED BY <1>2, <1>6, BecomesOnce

\* A request that cannot be identified.
LEMMA BadOnce ==
  ASSUME OnceInv, Orderly, NEW h \in Handlers, BadRequest(h)
  PROVE  Once(State')
  <1>1. PICK no \in BOOLEAN : no = FALSE
    OBVIOUS
  <1> DEFINE body == Body(0, Unknown, no)
             z == AfterHead(h, body)
  <1>2. SendHead(h) /\ Become(Refuse(z, h))
    BY <1>1 DEF BadRequest
  <1>3. body \in Bodies /\ body.open
    BY LengthsAre, BodyIs
  <1> HIDE DEF body
  <1>4. z \in States
    BY <1>2, <1>3, OnceInvIs, AfterHeadKeepsSound DEF Sound
  <1>5. Once(z) /\ Waiting(z, h)
    BY <1>2, <1>3, AfterHeadOnce
  <1> HIDE DEF z
  <1>6. Once(Refuse(z, h)) /\ Refuse(z, h) \in States
    BY <1>4, <1>5, RefuseOnce, RefuseIs, PutHdIs
  <1> QED BY <1>2, <1>6, BecomesOnce

\* The record of a handler that reads on, or loses its connection.
LEMMA RecordOnce ==
  ASSUME OnceInv, Orderly, NEW h \in Handlers, NEW r \in HandlerRecords,
         r.upload = hd[h].upload, r.context = hd[h].context,
         BetweenRequests(r) => BetweenRequests(hd[h]),
         SameCounts(r, hd[h]), r.body.open => hd[h].body.open,
         r.conn = "open" => hd[h].conn = "open"
  PROVE  LET z == PutHd(State, h, r) IN
         /\ Sound(z) /\ Timed(z) /\ Once(z) /\ z.hd[h] = r /\ z.up = up /\ z.app = app
  <1> DEFINE z == PutHd(State, h, r)
  <1>1. /\ Sound(State) /\ Timed(State) /\ State \in States /\ Once(State)
        /\ State.hd = hd /\ State.up = up /\ State.app = app /\ OneLoop
    BY OnceInvIs
  <1>2. \A u \in Uploads : r.upload = u => State.up[u].loop # None
    BY <1>1 DEF Sound, Unused
  <1>3. BetweenRequests(r) => r.upload \notin Uploads /\ (OneLoop => r.context)
    BY <1>1 DEF Sound, Idle, Together
  <1>4. OneLoop => \A u \in Uploads : State.up[u].handler = h => r.upload = u /\ r.context
    BY <1>1 DEF Sound, Together
  <1>5. Sound(z) /\ Timed(z)
    BY <1>1, <1>2, <1>3, <1>4, HandlerKeepsSound
  <1>6. Once(z)
    BY <1>1, PutHdOnce
  <1>7. z.hd[h] = r /\ z.up = up /\ z.app = app
    BY <1>1, PutHdIs
  <1> QED BY <1>5, <1>6, <1>7

\* What is told is told in a state, and leads to one.
LEMMA TellInStates ==
  ASSUME OnceInv, Orderly, NEW h \in Handlers, NEW s, Sound(s), Timed(s),
         NEW op \in {"body", "end", "gone"}
  PROVE  TellUpload(s, h, op) \in States
  <1>1. hd[h].body.pos \in 0..FileLength
    BY OnceInvIs DEF HandlerRecords, Bodies
  <1> QED BY <1>1, TellKeepsSound DEF Sound

\* A body part.
LEMMA BodyPartOnce ==
  ASSUME OnceInv, Orderly, NEW h \in Handlers, BodyPart(h)
  PROVE  Once(State')
  <1> DEFINE r == Advanced(hd[h])
             s == PutHd(State, h, r)
             z == TellUpload(s, h, "body")
             u == s.hd[h].upload
             pos == hd[h].body.pos
  <1>1. /\ hd[h] \in HandlerRecords
        /\ hd[h].body.open
        /\ hd[h].body.left # 0
        /\ hd[h].body.pos < FileLength
        /\ Become(z)
    BY OnceInvIs, BodyPartIs
  <1>2. /\ r \in HandlerRecords
        /\ r.upload = hd[h].upload
        /\ r.context = hd[h].context
        /\ r.conn = hd[h].conn
        /\ r.body.open
    BY <1>1, AdvancedIs
  <1>3. SameCounts(r, hd[h])
    <2> DEFINE b == NextByte(hd[h].body)
    <2>1. r = [hd[h] EXCEPT !.body = b]
      BY DEF Advanced
    <2> HIDE DEF b
    <2> QED BY <1>1, <2>1 DEF HandlerRecords, SameCounts
  <1> HIDE DEF r
  <1>4. Sound(s) /\ Timed(s) /\ Once(s) /\ s.hd[h] = r
    BY <1>1, <1>2, <1>3, RecordOnce DEF BetweenRequests
  <1> HIDE DEF s
  <1>5. z \in States
    BY <1>4, TellInStates
  <1>6. \/ z = s
        \/ /\ u \in Uploads
           /\ Here(s, u, h)
           /\ s.up[u].handler = h
           /\ \A v \in Uploads \ {u} : s.up[v].handler # h
           /\ z = ReceiveBody(s, u, h, pos)
    BY <1>4, OnceInvIs, TellingNow
  <1> HIDE DEF z, u, pos
  <1>7. Once(z)
    BY <1>2, <1>4, <1>6, BodyOnce DEF Sound
  <1> QED BY <1>1, <1>5, <1>7, BecomesOnce

\* The end of a request: its body was open until now, so no end has been shown.
LEMMA EndPartOnce ==
  ASSUME OnceInv, Orderly, NEW h \in Handlers, EndPart(h)
  PROVE  Once(State')
  <1> DEFINE r == Finished(hd[h])
             s == PutHd(State, h, r)
             z == TellUpload(s, h, "end")
             u == s.hd[h].upload
  <1>1. /\ hd[h] \in HandlerRecords
        /\ hd[h].body.open
        /\ Become(z)
        /\ r \in HandlerRecords
        /\ r.upload = hd[h].upload
        /\ r.context = hd[h].context
        /\ r.body = NoBody
        /\ r.shouldReset
    BY OnceInvIs, EndPartIs
  <1>2. SameCounts(r, hd[h]) /\ r.conn = hd[h].conn
    BY <1>1 DEF HandlerRecords, SameCounts, Finished
  <1>3. ~NoBody.open
    BY DEF NoBody
  <1> HIDE DEF r
  <1>4. /\ Sound(s) /\ Timed(s) /\ Once(s) /\ s.hd[h] = r /\ s.up = up /\ s.app = app
    BY <1>1, <1>2, RecordOnce DEF BetweenRequests
  <1> HIDE DEF s
  <1>5. z \in States
    BY <1>4, TellInStates
  <1>6. \/ z = s
        \/ /\ u \in Uploads
           /\ Here(s, u, h)
           /\ s.up[u].handler = h
           /\ \A v \in Uploads \ {u} : s.up[v].handler # h
           /\ z = ReceiveEnd(s, u, h)
    BY <1>4, OnceInvIs, TellingNow
  <1> HIDE DEF z, u
  <1>7. u \in Uploads /\ s.up[u].handler = h => s.app[u].ends = 0
    <2> SUFFICES ASSUME u \in Uploads, s.up[u].handler = h
                 PROVE  s.app[u].ends = 0
      OBVIOUS
    <2>1. Owes(State, u, h) /\ State.up[u].handler = h /\ State.hd[h].body.open
            /\ State.app[u] = s.app[u] /\ app[u] \in AppRecords
      BY <1>1, <1>4, OnceInvIs DEF Once
    <2> QED BY <1>4, <2>1 DEF Owes, AppRecords
  <1>8. Once(z)
    BY <1>1, <1>3, <1>4, <1>6, <1>7, EndOnce DEF Sound
  <1> QED BY <1>1, <1>5, <1>8, BecomesOnce

\* A connection that fails, is lost or is closed tells its upload, or will.
LEMMA GoingOnce ==
  ASSUME OnceInv, Orderly, NEW h \in Handlers,
         ErrorCaught(h) \/ ConnectionLost(h) \/ ChannelInactive(h)
  PROVE  Once(State')
  <1>1. ASSUME NEW r \in HandlerRecords,
               r.upload = hd[h].upload, r.context = hd[h].context,
               BetweenRequests(r) => BetweenRequests(hd[h]),
               SameCounts(r, hd[h]), r.body.open => hd[h].body.open,
               r.conn = "open" => hd[h].conn = "open",
               \/ Become(TellUpload(PutHd(State, h, r), h, "gone"))
               \/ Become(PutHd(State, h, r))
        PROVE  Once(State')
    <2> DEFINE s == PutHd(State, h, r)
    <2>1. Sound(s) /\ Timed(s) /\ Once(s)
      BY <1>1, RecordOnce
    <2> HIDE DEF s
    <2>2. TellUpload(s, h, "gone") \in States /\ s \in States
      BY <2>1, TellInStates DEF Sound
    <2>3. Once(TellUpload(s, h, "gone"))
      BY <2>1, OnceInvIs, GoneOnce
    <2> QED BY <1>1, <2>1, <2>2, <2>3, BecomesOnce DEF s
  <1>2. hd[h] \in HandlerRecords /\ State \in States
    BY OnceInvIs
  <1>3. ASSUME NEW conn \in {"open", "closing"}, hd[h].conn = "open"
        PROVE  LET r == Conn(hd[h], conn) IN
               /\ [State EXCEPT !.hd[h].conn = conn] = PutHd(State, h, r)
               /\ r \in HandlerRecords
               /\ r.upload = hd[h].upload /\ r.context = hd[h].context
               /\ r.body = hd[h].body
               /\ BetweenRequests(r) => BetweenRequests(hd[h])
               /\ SameCounts(r, hd[h])
    <2> DEFINE r == Conn(hd[h], conn)
    <2>0. conn \in {"open", "closing", "closed"}
      OBVIOUS
    <2>1. /\ [State EXCEPT !.hd[h].conn = conn] = PutHd(State, h, r)
          /\ r \in HandlerRecords
          /\ r.upload = hd[h].upload /\ r.context = hd[h].context
          /\ r.body = hd[h].body
          /\ r.shouldReset = hd[h].shouldReset
      BY <2>0, <1>2, ConnIs, Zenon
    <2>2. SameCounts(r, hd[h])
      BY <1>2 DEF Conn, HandlerRecords, SameCounts
    <2> HIDE DEF r
    <2>3. BetweenRequests(r) => BetweenRequests(hd[h])
      BY <1>3, <2>1 DEF BetweenRequests
    <2> QED BY <2>1, <2>2, <2>3 DEF r
  <1>4. CASE ErrorCaught(h)
    <2>1. PICK conn \in {"open", "closing"} :
            Become(TellUpload([State EXCEPT !.hd[h].conn = conn], h, "gone"))
      BY <1>4 DEF ErrorCaught
    <2>2. hd[h].conn = "open"
      BY <1>4 DEF ErrorCaught
    <2> DEFINE r == Conn(hd[h], conn)
    <2>3. /\ [State EXCEPT !.hd[h].conn = conn] = PutHd(State, h, r)
          /\ r \in HandlerRecords
          /\ r.upload = hd[h].upload /\ r.context = hd[h].context
          /\ r.body = hd[h].body
          /\ BetweenRequests(r) => BetweenRequests(hd[h])
          /\ SameCounts(r, hd[h])
      BY <1>3, <2>2
    <2> HIDE DEF r
    <2> QED BY <1>1, <2>1, <2>2, <2>3
  <1>5. CASE ConnectionLost(h)
    <2>1. PICK conn \in {"open", "closing"} : conn = "closing"
      OBVIOUS
    <2>2. hd[h].conn = "open" /\ Become([State EXCEPT !.hd[h].conn = conn])
      BY <1>5, <2>1 DEF ConnectionLost
    <2> DEFINE r == Conn(hd[h], conn)
    <2>3. /\ [State EXCEPT !.hd[h].conn = conn] = PutHd(State, h, r)
          /\ r \in HandlerRecords
          /\ r.upload = hd[h].upload /\ r.context = hd[h].context
          /\ r.body = hd[h].body
          /\ BetweenRequests(r) => BetweenRequests(hd[h])
          /\ SameCounts(r, hd[h])
      BY <1>3, <2>2
    <2> HIDE DEF r
    <2> QED BY <1>1, <2>2, <2>3
  <1>6. CASE ChannelInactive(h)
    <2> DEFINE r == Shut(hd[h])
    <2>1. /\ Become(TellUpload(PutHd(State, h, r), h, "gone"))
          /\ r \in HandlerRecords
          /\ r.upload = hd[h].upload
          /\ r.context = hd[h].context
          /\ r.body = NoBody
          /\ r.conn = "closed"
      BY <1>6, OnceInvIs, ChannelInactiveIs
    <2>2. SameCounts(r, hd[h])
      BY <1>2 DEF Shut, HandlerRecords, SameCounts
    <2>3. ~NoBody.open
      BY DEF NoBody
    <2> HIDE DEF r
    <2>4. ~BetweenRequests(r)
      BY <2>1 DEF BetweenRequests
    <2> QED BY <1>1, <2>1, <2>2, <2>3, <2>4
  <1> QED BY <1>4, <1>5, <1>6

\* The application writes behind the end: a head to a handler that is owed the answer, and
\* then an end; or it loses a channel that nobody feeds.
LEMMA AppWriteOnce ==
  ASSUME OnceInv, Orderly, NEW u \in Uploads, NEW written \in {"head", "end"},
         NEW op \in {"head", "finish"}, AppWrite(u, written, op),
         \/ written = "head" /\ op = "head" /\ app[u].written = "none"
         \/ written = "end" /\ op = "finish" /\ app[u].written = "head"
  PROVE  Once(State')
  <1> DEFINE a == [app[u] EXCEPT !.written = written]
             s == Wrote(State, u, written)
             r == Responding(up[u])
             y == PutUp(s, u, r)
             h == up[u].handler
             t == [op |-> op, h |-> h]
  <1>1. /\ IInv /\ Sound(State) /\ State \in States /\ Once(State) /\ OneLoop /\ ~AppCloses
        /\ State.hd = hd /\ State.up = up /\ State.app = app
        /\ up[u] \in UploadRecords /\ app[u] \in AppRecords
        /\ \A g \in Handlers : hd[g] \in HandlerRecords
    BY OnceInvIs
  <1>2. /\ a \in AppRecords
        /\ r \in UploadRecords
        /\ up[u].channel
        /\ \/ h = None /\ Become(DestroyChannel(s, u))
           \/ /\ h \in Handlers
              /\ t \in HandlerTasks
              /\ Become(WithHandler(y, up[u].loop, t))
    BY <1>1, AppWriteIs
  <1>3. app[u].ends > 0
    BY OnceInvIs DEF AppWrite
  <1>4. a.ends = app[u].ends /\ a.inactive = app[u].inactive /\ a.written = written
          /\ a.received = app[u].received /\ a.ordered = app[u].ordered
    BY <1>1 DEF AppRecords
  <1>5. up[u].loop # None
    BY <1>1, <1>2, ChannelIsThere
  <1>6. s = PutApp(State, u, a)
    BY <1>1 DEF Wrote
  <1>7. t.op = op /\ t.h = h
    OBVIOUS
  <1> HIDE DEF a, s, t
  <1>8. /\ s \in States /\ s.app[u] = a /\ s.hd = hd /\ s.up = up
        /\ \A v \in Uploads \ {u} : s.app[v] = app[v]
    BY <1>1, <1>2, <1>6, PutAppIs
  <1>9. ASSUME NEW v \in Uploads
        PROVE  EndsAt(s, v)
    <2>1. EndsAt(State, v)
      BY <1>1 DEF Once
    <2>2. CASE v # u
      BY <1>1, <1>8, <2>1, <2>2 DEF EndsAt
    <2>3. CASE v = u
      BY <1>1, <1>3, <1>4, <1>5, <1>8, <2>1, <2>3 DEF EndsAt
    <2> QED BY <2>2, <2>3
  <1>10. CASE h = None /\ Become(DestroyChannel(s, u))
    <2>1. ASSUME NEW v \in Uploads, NEW g \in Handlers
          PROVE  Owes(s, v, g)
      <3>1. Owes(State, v, g) /\ g # None
        BY <1>1, ValueAssumption DEF Once
      <3>2. CASE v # u
        BY <1>1, <1>8, <3>1, <3>2 DEF Owes
      <3>3. CASE v = u
        BY <1>8, <1>10, <3>1, <3>3 DEF Owes
      <3> QED BY <3>2, <3>3
    <2>2. Once(s)
      BY <1>1, <1>8, <1>9, <2>1 DEF Once
    <2>3. Once(DestroyChannel(s, u)) /\ DestroyChannel(s, u) \in States
      BY <1>1, <1>5, <1>8, <2>2, DestroyIs, DestroySpares, SparesOnce DEF Retreats
    <2> QED BY <1>10, <2>3, BecomesOnce
  <1>11. CASE h \in Handlers /\ t \in HandlerTasks /\ Become(WithHandler(y, up[u].loop, t))
    <2>1. /\ r.handler = h /\ r.loop = up[u].loop /\ r.channel = up[u].channel
          /\ r.resumable = up[u].resumable /\ r.uploadComplete = up[u].uploadComplete
      BY <1>1 DEF Responding, UploadRecords
    <2> HIDE DEF r
    <2>2. /\ y \in States /\ y.up[u] = r /\ (\A v \in Uploads \ {u} : y.up[v] = up[v])
          /\ y.hd = hd /\ y.app = s.app
      BY <1>2, <1>8, PutUpIs
    <2> HIDE DEF y
    <2>3. HandlerLoop[h] = up[u].loop
      BY <1>1, <1>5, <1>11, OneLoopIs DEF Here
    <2> DEFINE z == HandlerTask(y, t)
    <2>4. WithHandler(y, up[u].loop, t) = z
      BY <1>7, <2>3 DEF WithHandler
    <2>5. /\ z \in States /\ z.up = y.up /\ z.app = s.app
          /\ \A g \in Handlers \ {h} : z.hd[g] = hd[g]
          /\ z.hd[h].body = hd[h].body
          /\ z.hd[h].conn = "open" => hd[h].conn = "open"
      BY <1>7, <1>11, <2>2, HandlerTaskIs
    <2>6. LET reached == hd[h].context /\ hd[h].conn = "open" IN
          /\ z.hd[h].requests = hd[h].requests
          /\ z.hd[h].heads = IF reached /\ op = "head" THEN hd[h].heads + 1 ELSE hd[h].heads
          /\ z.hd[h].ends = IF reached /\ op = "finish" THEN hd[h].ends + 1 ELSE hd[h].ends
      BY <1>7, <1>11, <2>2, HandlerTaskCounts
    <2> HIDE DEF z
    <2>7. /\ hd[h].context
          /\ \A v \in Uploads \ {u} : up[v].handler # h
      BY <1>1, <1>11, OneLoopIs
    <2>8. Balanced(hd[h]) /\ Owes(State, u, h) /\ hd[h] \in HandlerRecords
      BY <1>1, <1>11 DEF Once
    <2>9. /\ ~hd[h].body.open
          /\ app[u].written = "none" => Owed(hd[h])
          /\ app[u].written = "head" /\ hd[h].conn = "open" => hd[h].ends < hd[h].heads
      BY <1>1, <1>3, <2>8 DEF Owes
    <2>10. Balanced(z.hd[h])
      <3>1. CASE op = "head"
        BY <2>6, <2>8, <2>9, <3>1 DEF Balanced, Owed, HandlerRecords
      <3>2. CASE op = "finish"
        BY <2>6, <2>8, <2>9, <3>2 DEF Balanced, HandlerRecords
      <3> QED BY <3>1, <3>2
    <2>11. written = "head" /\ z.hd[h].conn = "open" => z.hd[h].ends < z.hd[h].heads
      BY <2>5, <2>6, <2>7, <2>8, <2>9 DEF Owed, HandlerRecords
    <2>12. ASSUME NEW v \in Uploads
           PROVE  EndsAt(z, v)
      <3>1. EndsAt(s, v)
        BY <1>9
      <3>2. CASE v # u
        BY <1>8, <2>2, <2>5, <3>1, <3>2 DEF EndsAt
      <3>3. CASE v = u
        BY <1>8, <2>1, <2>2, <2>5, <3>1, <3>3 DEF EndsAt
      <3> QED BY <3>2, <3>3
    <2>13. ASSUME NEW v \in Uploads, NEW g \in Handlers, z.up[v].handler = g
           PROVE  Owes(z, v, g)
      <3>1. CASE v # u
        <4>1. up[v].handler = g /\ g # h /\ Owes(State, v, g)
          BY <1>1, <2>2, <2>5, <2>7, <2>13, <3>1 DEF Once
        <4>2. z.hd[g] = hd[g] /\ z.app[v] = app[v]
          BY <1>8, <2>5, <3>1, <4>1
        <4> QED BY <1>1, <4>1, <4>2 DEF Owes
      <3>2. CASE v = u
        <4>1. g = h
          BY <2>1, <2>2, <2>5, <2>13, <3>2
        <4>2. z.app[u].written = written
          BY <1>4, <1>8, <2>5
        <4> QED BY <2>5, <2>9, <2>11, <3>2, <4>1, <4>2 DEF Owes
      <3> QED BY <3>1, <3>2
    <2>14. \A g \in Handlers : Balanced(z.hd[g])
      BY <1>1, <2>5, <2>10 DEF Once
    <2>15. Once(z)
      BY <2>12, <2>13, <2>14 DEF Once, Owes
    <2> QED BY <1>11, <2>4, <2>5, <2>15, BecomesOnce
  <1> QED BY <1>2, <1>10, <1>11

\* Closing the child channel.
LEMMA AppCloseOnce ==
  ASSUME OnceInv, Orderly, NEW u \in Uploads, AppClose(u)
  PROVE  Once(State')
  <1> DEFINE y == DestroyChannel(State, u)
             z == LetGo(y, u)
  <1>1. State \in States /\ Once(State) /\ ~AppCloses /\ IInv /\ State.up = up
    BY OnceInvIs
  <1>2. Become(z) /\ up[u].loop # None
    BY <1>1, ChannelIsThere DEF AppClose
  <1>3. Retreats(State, y, u) /\ Spares(State, y, u)
    BY <1>1, DestroyIs, DestroySpares
  <1> HIDE DEF y
  <1>4. y \in States
    BY <1>3 DEF Retreats
  <1>5. Retreats(y, z, u) /\ Spares(y, z, u)
    BY <1>4, LetGoIs, LetGoSpares
  <1> HIDE DEF z
  <1>6. Retreats(State, z, u) /\ Spares(State, z, u)
    BY <1>1, <1>3, <1>5, RetreatsTransitive, SparesTransitive
  <1>7. Once(z) /\ z \in States
    BY <1>1, <1>2, <1>6, SparesOnce DEF Retreats
  <1> QED BY <1>2, <1>7, BecomesOnce

\* The idle timer ends the channel it finds, once.
LEMMA IdleTimeoutOnce ==
  ASSUME OnceInv, Orderly, NEW u \in Uploads, IdleTimeout(u)
  PROVE  Once(State')
  <1> DEFINE s == [State EXCEPT !.up[u].timer = FALSE]
             z == [s EXCEPT !.app[u].inactive = @ + 1, !.up[u].channel = FALSE]
  <1>1. State \in States /\ Once(State) /\ ~AppCloses /\ IInv /\ State.up = up
          /\ State.hd = hd /\ State.app = app /\ up[u] \in UploadRecords /\ app[u] \in AppRecords
    BY OnceInvIs
  <1>2. up[u].loop # None /\ Become(IF up[u].channel THEN z ELSE s)
    BY <1>1, ChannelIsThere DEF IdleTimeout
  <1>3. PICK x : Retreats(State, x, u) /\ Become(x)
    BY <1>1, IdleTimeoutRetreats
  <1>4. x \in States /\ State' = x
    BY <1>3, Becomes DEF Retreats
  <1>5. Spares(State, s, u)
    <2>1. s.hd = State.hd /\ s.app = State.app
      BY <1>1 DEF States
    <2>2. s.up[u].uploadComplete = State.up[u].uploadComplete
            /\ s.up[u].channel = State.up[u].channel
      BY <1>1 DEF States, UploadRecords
    <2> HIDE DEF s
    <2> QED BY <2>1, <2>2 DEF Spares, SameCounts
  <1>6. up[u].channel => Spares(State, z, u)
    <2>1. z.hd = State.hd /\ \A v \in Uploads \ {u} : z.app[v] = State.app[v]
      BY <1>1 DEF States
    <2>2. z.up[u].uploadComplete = State.up[u].uploadComplete /\ ~z.up[u].channel
      BY <1>1 DEF States, UploadRecords
    <2>3. z.app[u].written = State.app[u].written
            /\ z.app[u].inactive = State.app[u].inactive + 1
      BY <1>1 DEF States, AppRecords
    <2> HIDE DEF z
    <2> QED BY <1>1, <2>1, <2>2, <2>3 DEF Spares, SameCounts
  <1> DEFINE w == IF up[u].channel THEN z ELSE s
  <1>7. Spares(State, w, u) /\ Become(w)
    BY <1>2, <1>5, <1>6
  <1> HIDE DEF w
  <1>8. /\ State'.hd = w.hd /\ State'.up = w.up /\ State'.app = w.app
    BY <1>7 DEF Become, State
  <1>9. Spares(State, x, u)
    BY <1>4, <1>7, <1>8 DEF Spares
  <1>10. Once(x)
    BY <1>1, <1>2, <1>3, <1>9, SparesOnce
  <1> QED BY <1>4, <1>10

\* No request has been sent, and no upload is there.
LEMMA InitOnce == Init => Once(State)
  <1> SUFFICES ASSUME Init PROVE Once(State)
    OBVIOUS
  <1>1. State.hd = hd /\ State.up = up /\ State.app = app
    BY DEF State
  <1>2. \A h \in Handlers : hd[h].requests = 0 /\ hd[h].heads = 0 /\ hd[h].ends = 0
    BY DEF Init
  <1>3. \A u \in Uploads :
          /\ up[u].handler = None /\ ~up[u].channel /\ ~up[u].resumable
          /\ app[u].ends = 0 /\ app[u].inactive = 0 /\ app[u].written = "none"
    BY DEF Init
  <1>4. None \notin Handlers
    BY ValueAssumption
  <1> QED BY <1>1, <1>2, <1>3, <1>4 DEF Once, Balanced, EndsAt, Owes

\* Every step leaves the invariant.
LEMMA NextOnce ==
  ASSUME Orderly, OnceInv, [Next]_vars
  PROVE  OnceInv'
  <1>1. IInv'
    BY NextKeeps DEF OnceInv
  <1>2. ASSUME NEW h \in Handlers, ClientStep(h)
        PROVE  Once(State')
    BY <1>2, CreationOnce, AppendOnce, PlainOnce, OffsetRequestOnce, CancelOnce, BadOnce,
       BodyPartOnce, EndPartOnce, GoingOnce DEF ClientStep
  <1>3. ASSUME NEW u \in Uploads, UploadStep(u)
        PROVE  Once(State')
    BY <1>3, AppWriteOnce, AppCloseOnce, IdleTimeoutOnce
       DEF UploadStep, AppWritesHead, AppWritesEnd
  <1>4. ASSUME NEW l \in Loops, RunTask(l)
        PROVE  FALSE
    <2>1. Sound(State) /\ State.queue = queue /\ OneLoop
      BY OnceInvIs
    <2> QED BY <1>4, <2>1 DEF RunTask, Sound, Together
  <1>5. CASE UNCHANGED vars
    <2>1. State' = State
      BY <1>5 DEF vars, State
    <2>2. Once(State)
      BY DEF OnceInv
    <2>3. Once(State')
      BY <2>1, <2>2
    <2> QED BY <2>3, <1>1 DEF OnceInv
  <1>6. CASE Next
    BY <1>1, <1>2, <1>3, <1>4, <1>6 DEF OnceInv, Next
  <1> QED BY <1>5, <1>6

\* If all connections share one event loop, clients append to no upload that is complete,
\* and the application answers after the end and closes in no callback: every request gets
\* at most one response, of a head and then an end, and the application is shown one end
\* and one channelInactive of each channel.
THEOREM OnceOnOneLoop ==
  ASSUME Orderly
  PROVE  Spec => []EachEndsOnce
  <1>1. Init => OnceInv
    BY InitSatisfies, InitOnce DEF OnceInv
  <1>2. OnceInv /\ [Next]_vars => OnceInv'
    BY NextOnce
  <1>3. OnceInv => EachEndsOnce
    <2> SUFFICES ASSUME OnceInv PROVE EachEndsOnce
      OBVIOUS
    <2>1. Once(State) /\ State.hd = hd /\ State.up = up /\ State.app = app
      BY OnceInvIs
    <2>2. OneResponsePerRequest
      BY <2>1 DEF Once, Balanced, OneResponsePerRequest
    <2>3. EndsOnce
      BY <2>1 DEF Once, EndsAt, EndsOnce
    <2> QED BY <2>2, <2>3 DEF EachEndsOnce
  <1> QED BY <1>1, <1>2, <1>3, PTL DEF Spec
=============================================================================
