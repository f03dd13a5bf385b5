----------------------- MODULE ResumableUploadDelivery -----------------------
(***************************************************************************)
(* The application sees the file of an honest client, for any connections, *)
(* uploads and event loops.                                                *)
(*                                                                         *)
(* Between a handler and its upload lies the queue of the upload's loop.   *)
(* What the upload expects of a handler (the position of its next byte,    *)
(* and whether its end is that of the file) and what the handler has still *)
(* to send are related by the tasks between them: each task that comes     *)
(* from the handler takes one expectation to the next, and a path through  *)
(* the queue leads from what the upload expects to what the handler sends. *)
(* Queueing a task makes the path longer, running one makes it shorter.    *)
(***************************************************************************)
EXTENDS ResumableUploadProofs

-----------------------------------------------------------------------------
(* Paths.                                                                  *)

Expectations == [pos : Nat, whole : BOOLEAN]

\* Task t is one by which handler h feeds upload u.
Feeds(t, h, u) == t.op \in {"append", "body", "end", "gone"} /\ t.h = h /\ t.u = u

\* Task t takes what is expected of h for u from a to b.
Passes(t, h, u, a, b) ==
  /\ ~Feeds(t, h, u) => b = a
  /\ Feeds(t, h, u) =>
       /\ t.op = "body" => a.pos = t.pos /\ b.pos = t.pos + 1 /\ b.whole = a.whole
       /\ t.op = "end" => a.pos = t.pos /\ (a.whole => t.pos = FileLength) /\ b = a
       /\ t.op = "append" => b.pos = t.request.offset /\ b.whole = t.request.complete

PathBy(q, h, u, f) == \A i \in 1..Len(q) : Passes(q[i], h, u, f[i - 1], f[i])

\* The tasks of q take what is expected of h for u from a to b.
Path(q, h, u, a, b) ==
  \E f \in [0..Len(q) -> Expectations] :
    f[0] = a /\ f[Len(q)] = b /\ PathBy(q, h, u, f)

\* No task, no change.
LEMMA EmptyPath ==
  ASSUME NEW h, NEW u, NEW a \in Expectations, NEW b
  PROVE  Path(<<>>, h, u, a, b) <=> a = b
  <1>1. Len(<<>>) = 0
    OBVIOUS
  <1>2. ASSUME a = b
        PROVE  Path(<<>>, h, u, a, b)
    <2> DEFINE f == [i \in 0..0 |-> a]
    <2>1. f \in [0..Len(<<>>) -> Expectations] /\ f[0] = a
      BY <1>1
    <2>2. PathBy(<<>>, h, u, f)
      BY <1>1 DEF PathBy
    <2> QED BY <1>1, <1>2, <2>1, <2>2 DEF Path
  <1>3. Path(<<>>, h, u, a, b) => a = b
    BY <1>1 DEF Path
  <1> QED BY <1>2, <1>3

\* A queue without tasks by which h feeds u leaves what is expected.
LEMMA IdlePath ==
  ASSUME NEW q \in Seq(Tasks), NEW h, NEW u, NEW a \in Expectations,
         \A i \in 1..Len(q) : ~Feeds(q[i], h, u)
  PROVE  Path(q, h, u, a, a)
  <1> DEFINE f == [i \in 0..Len(q) |-> a]
  <1>1. Len(q) \in Nat
    BY LenProperties
  <1>2. f \in [0..Len(q) -> Expectations] /\ f[0] = a /\ f[Len(q)] = a
    BY <1>1
  <1>3. PathBy(q, h, u, f)
    <2> SUFFICES ASSUME NEW i \in 1..Len(q)
                 PROVE  Passes(q[i], h, u, f[i - 1], f[i])
      BY DEF PathBy
    <2>1. i - 1 \in 0..Len(q) /\ i \in 0..Len(q)
      BY <1>1
    <2>2. f[i - 1] = a /\ f[i] = a
      BY <2>1
    <2> QED BY <2>2 DEF Passes
  <1> QED BY <1>2, <1>3 DEF Path

\* A path goes on through tasks that come behind it.
LEMMA LongerPath ==
  ASSUME NEW q \in Seq(Tasks), NEW r \in Seq(Tasks), Lengthens(q, r), NEW h, NEW u,
         NEW a, NEW b, Path(q, h, u, a, b)
  PROVE  Path(r, h, u, a, b)
  <1>1. PICK f \in [0..Len(q) -> Expectations] :
          f[0] = a /\ f[Len(q)] = b /\ PathBy(q, h, u, f)
    BY DEF Path
  <1>2. Len(q) \in Nat /\ Len(r) \in Nat /\ Len(q) <= Len(r)
    BY LenProperties DEF Lengthens
  <1> DEFINE g == [i \in 0..Len(r) |-> IF i <= Len(q) THEN f[i] ELSE b]
  <1>3. b \in Expectations
    BY <1>1, <1>2
  <1>4. g \in [0..Len(r) -> Expectations]
    BY <1>1, <1>2, <1>3
  <1>5. g[0] = a /\ g[Len(r)] = b
    BY <1>1, <1>2
  <1>6. PathBy(r, h, u, g)
    <2> SUFFICES ASSUME NEW i \in 1..Len(r)
                 PROVE  Passes(r[i], h, u, g[i - 1], g[i])
      BY DEF PathBy
    <2>1. CASE i <= Len(q)
      <3>1. i \in 1..Len(q) /\ i - 1 \in 0..Len(r) /\ i \in 0..Len(r) /\ i - 1 <= Len(q)
        BY <1>2, <2>1
      <3>2. g[i - 1] = f[i - 1] /\ g[i] = f[i]
        BY <3>1, <2>1
      <3>3. r[i] = q[i]
        BY <3>1 DEF Lengthens
      <3> QED BY <1>1, <3>1, <3>2, <3>3 DEF PathBy
    <2>2. CASE i > Len(q)
      <3>1. i - 1 \in 0..Len(r) /\ i \in 0..Len(r) /\ i \in (Len(q) + 1)..Len(r)
        BY <1>2, <2>2
      <3>2. g[i] = b
        BY <1>2, <2>2, <3>1
      <3>3. g[i - 1] = b
        <4>1. CASE i - 1 = Len(q)
          BY <1>1, <3>1, <4>1
        <4>2. CASE i - 1 # Len(q)
          BY <1>2, <2>2, <3>1, <4>2
        <4> QED BY <4>1, <4>2
      <3>4. r[i] \in HandlerTasks
        BY <3>1 DEF Lengthens
      <3>5. ~Feeds(r[i], h, u)
        BY <3>4 DEF HandlerTasks, Feeds
      <3> QED BY <3>2, <3>3, <3>5 DEF Passes
    <2> QED BY <1>2, <2>1, <2>2
  <1> QED BY <1>4, <1>5, <1>6 DEF Path

\* A path goes on through the task that is queued.
LEMMA QueuedPath ==
  ASSUME NEW q \in Seq(Tasks), NEW t \in Tasks, NEW h, NEW u,
         NEW a, NEW b, NEW c \in Expectations,
         Path(q, h, u, a, b), Passes(t, h, u, b, c)
  PROVE  Path(Append(q, t), h, u, a, c)
  <1>1. PICK f \in [0..Len(q) -> Expectations] :
          f[0] = a /\ f[Len(q)] = b /\ PathBy(q, h, u, f)
    BY DEF Path
  <1> DEFINE r == Append(q, t)
             n == Len(q)
             g == [i \in 0..(n + 1) |-> IF i <= n THEN f[i] ELSE c]
  <1>2. /\ n \in Nat /\ Len(r) = n + 1 /\ r[n + 1] = t
        /\ \A i \in 1..n : r[i] = q[i]
    BY LenProperties, AppendProperties
  <1> HIDE DEF r
  <1>3. g \in [0..Len(r) -> Expectations]
    BY <1>1, <1>2
  <1>4. g[0] = a /\ g[Len(r)] = c
    BY <1>1, <1>2
  <1>5. PathBy(r, h, u, g)
    <2> SUFFICES ASSUME NEW i \in 1..(n + 1)
                 PROVE  Passes(r[i], h, u, g[i - 1], g[i])
      BY <1>2 DEF PathBy
    <2>1. CASE i <= n
      <3>1. i \in 1..n /\ i - 1 \in 0..(n + 1) /\ i \in 0..(n + 1) /\ i - 1 <= n
        BY <1>2, <2>1
      <3>2. g[i - 1] = f[i - 1] /\ g[i] = f[i]
        BY <3>1, <2>1
      <3>3. r[i] = q[i]
        BY <1>2, <3>1
      <3> QED BY <1>1, <3>1, <3>2, <3>3 DEF PathBy
    <2>2. CASE i = n + 1
      <3>1. i - 1 = n /\ n \in 0..(n + 1) /\ i \in 0..(n + 1) /\ ~(i <= n)
        BY <1>2, <2>2
      <3>2. g[i - 1] = b /\ g[i] = c
        BY <1>1, <3>1
      <3> QED BY <1>2, <2>2, <3>2
    <2> QED BY <1>2, <2>1, <2>2
  <1> QED BY <1>3, <1>4, <1>5 DEF Path, r

\* The first task of a queue is the first step of a path through it.
LEMMA ShorterPath ==
  ASSUME NEW q \in Seq(Tasks), q # <<>>, NEW h, NEW u, NEW a, NEW c, Path(q, h, u, a, c)
  PROVE  \E b \in Expectations :
           Passes(Head(q), h, u, a, b) /\ Path(Tail(q), h, u, b, c)
  <1>1. PICK f \in [0..Len(q) -> Expectations] :
          f[0] = a /\ f[Len(q)] = c /\ PathBy(q, h, u, f)
    BY DEF Path
  <1> DEFINE r == Tail(q)
             n == Len(q)
             g == [i \in 0..(n - 1) |-> f[i + 1]]
             b == f[1]
  <1>2. /\ n \in Nat /\ n > 0 /\ Head(q) = q[1]
        /\ Len(r) = n - 1
        /\ \A i \in 1..Len(r) : r[i] = q[i + 1]
    BY HeadTailProperties
  <1> HIDE DEF r
  <1>3. g \in [0..Len(r) -> Expectations]
    BY <1>1, <1>2
  <1>4. g[0] = b /\ g[Len(r)] = c /\ b \in Expectations
    BY <1>1, <1>2
  <1>5. PathBy(r, h, u, g)
    <2> SUFFICES ASSUME NEW i \in 1..Len(r)
                 PROVE  Passes(r[i], h, u, g[i - 1], g[i])
      BY DEF PathBy
    <2>1. /\ i + 1 \in 1..n /\ i - 1 \in 0..(n - 1) /\ i \in 0..(n - 1)
          /\ (i - 1) + 1 = i /\ (i + 1) - 1 = i
      BY <1>2
    <2>2. g[i - 1] = f[i] /\ g[i] = f[i + 1]
      BY <2>1
    <2>3. Passes(q[i + 1], h, u, f[(i + 1) - 1], f[i + 1])
      BY <1>1, <2>1 DEF PathBy
    <2> QED BY <1>2, <2>1, <2>2, <2>3
  <1>6. Passes(q[1], h, u, a, b)
    <2>1. 1 \in 1..n /\ 1 - 1 = 0
      BY <1>2
    <2>2. Passes(q[1], h, u, f[1 - 1], f[1])
      BY <1>1, <2>1 DEF PathBy
    <2> QED BY <1>1, <2>1, <2>2
  <1>7. Path(r, h, u, b, c)
    BY <1>3, <1>4, <1>5 DEF Path
  <1> QED BY <1>2, <1>4, <1>6, <1>7 DEF r

-----------------------------------------------------------------------------
(* The invariant.                                                          *)

\* Upload u expects e of h: h goes on where the upload is, and with the rest of the file
\* if its end is to be the end of the upload.
Meets(s, h, u, e) ==
  s.up[u].handler = h =>
    /\ e.pos = s.up[u].offset
    /\ s.up[u].resumable /\ s.up[u].requestIsComplete => e.whole

\* Handler h sends u what is expected of it.
Sends(s, h, u, e) ==
  s.hd[h].upload = u /\ s.hd[h].body.open =>
    /\ e.pos = s.hd[h].body.pos
    /\ e.whole => s.hd[h].body.whole

\* The tasks that wait between a handler and an upload.
Between(s, h, u) ==
  IF HandlerLoop[h] = s.up[u].loop THEN <<>> ELSE s.queue[s.up[u].loop]

Course(s, h, u) ==
  \E a, b \in Expectations :
    /\ Meets(s, h, u, a)
    /\ Path(Between(s, h, u), h, u, a, b)
    /\ Sends(s, h, u, b)

\* What the application was shown of u.
ShowsAt(s, u) ==
  /\ s.up[u].channel => s.app[u].received = s.up[u].offset
  /\ s.app[u].ordered
  /\ s.up[u].resumable /\ s.app[u].ends > 0 => s.app[u].received = FileLength
  /\ s.up[u].loop = None =>
       s.up[u].offset = 0 /\ s.app[u].received = 0 /\ s.app[u].ends = 0

Shows(s) == \A u \in Uploads : ShowsAt(s, u)

\* An upload that cannot be resumed is known to the connection that made it only.
Plain(s) ==
  \A u \in Uploads :
    s.up[u].loop # None /\ ~s.up[u].resumable =>
      /\ u \notin s.uploads
      /\ \A h \in Handlers :
           s.hd[h].upload = u =>
             /\ HandlerLoop[h] = s.up[u].loop
             /\ s.hd[h].body.open => s.app[u].ends = 0
             /\ \A g \in Handlers : s.hd[g].upload = u => g = h

\* What waits on a loop is for an upload that can be resumed, and part of its file.
Queued(s) ==
  \A l \in Loops : \A i \in 1..Len(s.queue[l]) :
    s.queue[l][i].op \in UploadOps =>
      /\ s.up[s.queue[l][i].u].resumable
      /\ s.queue[l][i].op = "body" => s.queue[l][i].pos < FileLength

Settled(s) == Shows(s) /\ Plain(s) /\ Queued(s)

Courses(s) == \A u \in Uploads, h \in Handlers : s.up[u].loop # None => Course(s, h, u)

OnCourse(s) == s \in States /\ Settled(s) /\ Courses(s)

DInv == IInv /\ OnCourse(State)

\* What waits between a handler and an upload is a queue.
LEMMA BetweenIs ==
  ASSUME NEW s \in States, NEW h \in Handlers, NEW u \in Uploads, s.up[u].loop # None
  PROVE  /\ s.up[u].loop \in Loops
         /\ Between(s, h, u) \in Seq(Tasks)
  <1>1. s.up[u].loop \in Loops
    BY StateFields DEF UploadRecords
  <1>2. <<>> \in Seq(Tasks)
    OBVIOUS
  <1> QED BY <1>1, <1>2, StateFields DEF Between

\* A queue is longer than itself.
LEMMA LengthensItself ==
  ASSUME NEW q \in Seq(Tasks)
  PROVE  Lengthens(q, q)
  BY LengthensTransitive

\* Handler and upload keep to their course while the queue gets only tasks for handlers.
LEMMA CourseKept ==
  ASSUME NEW s \in States, NEW z \in States, NEW h \in Handlers, NEW u \in Uploads,
         s.up[u].loop # None, z.up[u].loop = s.up[u].loop,
         \A l \in Loops : Lengthens(s.queue[l], z.queue[l]),
         \A e \in Expectations : Meets(s, h, u, e) => Meets(z, h, u, e),
         \A e \in Expectations : Sends(s, h, u, e) => Sends(z, h, u, e),
         Course(s, h, u)
  PROVE  Course(z, h, u)
  <1>1. PICK a \in Expectations, b \in Expectations :
          /\ Meets(s, h, u, a)
          /\ Path(Between(s, h, u), h, u, a, b)
          /\ Sends(s, h, u, b)
    BY DEF Course
  <1>2. /\ Between(s, h, u) \in Seq(Tasks)
        /\ Between(z, h, u) \in Seq(Tasks)
        /\ s.up[u].loop \in Loops
    BY BetweenIs
  <1>3. Lengthens(Between(s, h, u), Between(z, h, u))
    <2>1. CASE HandlerLoop[h] = s.up[u].loop
      <3>1. Between(s, h, u) = Between(z, h, u)
        BY <2>1 DEF Between
      <3> QED BY <1>2, <3>1, LengthensItself
    <2>2. CASE HandlerLoop[h] # s.up[u].loop
      BY <1>2, <2>2 DEF Between
    <2> QED BY <2>1, <2>2
  <1>4. Path(Between(z, h, u), h, u, a, b)
    BY <1>1, <1>2, <1>3, LongerPath
  <1> QED BY <1>1, <1>4 DEF Course

\* What waits on the loops stays what it was when only tasks for handlers join it.
LEMMA QueuedKept ==
  ASSUME NEW s \in States, NEW z \in States, Queued(s),
         \A l \in Loops : Lengthens(s.queue[l], z.queue[l]),
         \A u \in Uploads : z.up[u].resumable = s.up[u].resumable
  PROVE  Queued(z)
  <1> SUFFICES ASSUME NEW l \in Loops, NEW i \in 1..Len(z.queue[l]),
                      z.queue[l][i].op \in UploadOps
               PROVE  /\ z.up[z.queue[l][i].u].resumable
                      /\ z.queue[l][i].op = "body" => z.queue[l][i].pos < FileLength
    BY DEF Queued
  <1>1. Lengthens(s.queue[l], z.queue[l])
    OBVIOUS
  <1>2. Len(s.queue[l]) \in Nat /\ Len(z.queue[l]) \in Nat
    BY StateFields, LenProperties
  <1>3. z.queue[l][i] \notin HandlerTasks
    BY DEF HandlerTasks, UploadOps
  <1>4. i \in 1..Len(s.queue[l]) /\ z.queue[l][i] = s.queue[l][i]
    BY <1>1, <1>2, <1>3 DEF Lengthens
  <1>5. s.queue[l][i] \in Tasks
    BY <1>4, StateFields, ElementOfSeq
  <1>6. s.queue[l][i].u \in Uploads
    BY <1>3, <1>4, <1>5 DEF Tasks, UploadTasks
  <1> QED BY <1>4, <1>6 DEF Queued

\* Letting go shows the application nothing, and asks nothing more of a handler.
LEMMA RetreatKeepsSettled ==
  ASSUME NEW s \in States, Settled(s), NEW u \in Uploads, NEW t, Retreats(s, t, u)
  PROVE  Settled(t)
  <1>1. t \in States
    BY DEF Retreats
  <1>2. \A v \in Uploads :
          /\ t.up[v].loop = s.up[v].loop
          /\ t.up[v].resumable = s.up[v].resumable
          /\ t.up[v].offset = s.up[v].offset
          /\ t.up[v].channel => s.up[v].channel
          /\ t.app[v].received = s.app[v].received
          /\ t.app[v].ordered = s.app[v].ordered
          /\ t.app[v].ends = s.app[v].ends
    BY DEF Retreats, SameUploads, SameShown
  <1>3. Shows(t)
    BY <1>2 DEF Settled, Shows, ShowsAt
  <1>4. \A h \in Handlers : t.hd[h].upload = s.hd[h].upload /\ t.hd[h].body = s.hd[h].body
    BY DEF Retreats, SameHandlers
  <1>5. Plain(t)
    BY <1>2, <1>4 DEF Settled, Plain, Retreats
  <1>6. Queued(t)
    BY <1>1, <1>2, QueuedKept DEF Settled, Retreats
  <1> QED BY <1>3, <1>5, <1>6 DEF Settled

\* What is expected of a handler is expected of it after a retreat, if anything is.
LEMMA RetreatMeets ==
  ASSUME NEW s, NEW u \in Uploads, NEW t, Retreats(s, t, u),
         NEW h \in Handlers, NEW v \in Uploads, NEW e, Meets(s, h, v, e)
  PROVE  Meets(t, h, v, e)
  <1>1. h # None
    BY ValueAssumption
  <1>2. CASE v = u
    BY <1>1, <1>2 DEF Retreats, SameUploads, Meets
  <1>3. CASE v # u
    BY <1>3 DEF Retreats, SameUploads, Meets
  <1> QED BY <1>2, <1>3

\* Letting go leaves every handler on its course.
LEMMA RetreatKeepsCourses ==
  ASSUME NEW s \in States, Courses(s), NEW u \in Uploads, NEW t, Retreats(s, t, u)
  PROVE  Courses(t)
  <1> SUFFICES ASSUME NEW v \in Uploads, NEW h \in Handlers, t.up[v].loop # None
               PROVE  Course(t, h, v)
    BY DEF Courses
  <1>1. t.up[v].loop = s.up[v].loop
    BY DEF Retreats, SameUploads
  <1>2. t \in States /\ \A l \in Loops : Lengthens(s.queue[l], t.queue[l])
    BY DEF Retreats
  <1>3. \A e \in Expectations : Meets(s, h, v, e) => Meets(t, h, v, e)
    BY RetreatMeets
  <1>4. \A e \in Expectations : Sends(s, h, v, e) => Sends(t, h, v, e)
    BY DEF Retreats, SameHandlers, Sends
  <1> QED BY <1>1, <1>2, <1>3, <1>4, CourseKept DEF Courses

\* The record of a handler changes: it feeds no other upload than before, nor more of it.
LEMMA HandlerKeepsSettled ==
  ASSUME NEW s \in States, Settled(s), NEW h \in Handlers, NEW r \in HandlerRecords,
         \A u \in Uploads :
           r.upload = u => \/ s.up[u].resumable
                           \/ s.hd[h].upload = u /\ (r.body.open => s.hd[h].body.open)
  PROVE  Settled(PutHd(s, h, r))
  <1> DEFINE z == PutHd(s, h, r)
  <1>1. /\ z \in States
        /\ z.hd[h] = r
        /\ \A g \in Handlers \ {h} : z.hd[g] = s.hd[g]
        /\ z.up = s.up /\ z.app = s.app /\ z.uploads = s.uploads /\ z.queue = s.queue
    BY PutHdIs
  <1> HIDE DEF z
  <1>2. Shows(z) /\ Queued(z)
    BY <1>1 DEF Settled, Shows, ShowsAt, Queued
  <1>3. Plain(z)
    <2> SUFFICES ASSUME NEW u \in Uploads, s.up[u].loop # None, ~s.up[u].resumable
                 PROVE  /\ u \notin s.uploads
                        /\ \A g \in Handlers :
                             z.hd[g].upload = u =>
                               /\ HandlerLoop[g] = s.up[u].loop
                               /\ z.hd[g].body.open => s.app[u].ends = 0
                               /\ \A k \in Handlers : z.hd[k].upload = u => k = g
      BY <1>1 DEF Plain
    <2>1. /\ u \notin s.uploads
          /\ \A g \in Handlers :
               s.hd[g].upload = u =>
                 /\ HandlerLoop[g] = s.up[u].loop
                 /\ s.hd[g].body.open => s.app[u].ends = 0
                 /\ \A k \in Handlers : s.hd[k].upload = u => k = g
      BY DEF Settled, Plain
    <2>2. r.upload = u => s.hd[h].upload = u /\ (r.body.open => s.hd[h].body.open)
      OBVIOUS
    <2>3. \A g \in Handlers : z.hd[g].upload = u =>
            s.hd[g].upload = u /\ (z.hd[g].body.open => s.hd[g].body.open)
      BY <1>1, <2>2
    <2> QED BY <2>1, <2>3
  <1> QED BY <1>2, <1>3 DEF Settled, z

\* A handler keeps to its course with u while it feeds u no other way than before.
LEMMA HandlerKeepsCourse ==
  ASSUME NEW s \in States, NEW h \in Handlers, NEW r \in HandlerRecords,
         NEW g \in Handlers, NEW u \in Uploads, s.up[u].loop # None, Course(s, g, u),
         \/ g # h
         \/ r.upload # u
         \/ ~r.body.open
         \/ r.upload = s.hd[h].upload /\ r.body = s.hd[h].body
  PROVE  Course(PutHd(s, h, r), g, u)
  <1> DEFINE z == PutHd(s, h, r)
  <1>1. /\ z \in States
        /\ z.hd[h] = r
        /\ \A k \in Handlers \ {h} : z.hd[k] = s.hd[k]
        /\ z.up = s.up /\ z.queue = s.queue
    BY PutHdIs
  <1> HIDE DEF z
  <1>2. \A l \in Loops : Lengthens(s.queue[l], z.queue[l])
    BY <1>1, LengthensItself, StateFields
  <1>3. \A e \in Expectations : Meets(s, g, u, e) => Meets(z, g, u, e)
    BY <1>1 DEF Meets
  <1>4. \A e \in Expectations : Sends(s, g, u, e) => Sends(z, g, u, e)
    <2>1. CASE g # h
      BY <1>1, <2>1 DEF Sends
    <2>2. CASE g = h
      BY <1>1, <2>2 DEF Sends
    <2> QED BY <2>1, <2>2
  <1>5. Course(z, g, u)
    BY <1>1, <1>2, <1>3, <1>4, CourseKept
  <1> QED BY <1>5 DEF z

-----------------------------------------------------------------------------
(* Tasks of an upload.                                                     *)

\* What task t relies on: an honest client sends no more than its file, and an upload that
\* cannot be resumed ends once.
Ready(s, t) ==
  /\ Told(s, t)
  /\ t.op \in {"append", "offset", "cancel"} => s.up[t.u].resumable
  /\ t.op = "body" =>
       t.pos < FileLength /\ (s.up[t.u].resumable \/ s.app[t.u].ends = 0)
  /\ t.op = "end" =>
       \/ s.up[t.u].resumable
       \/ \A g \in Handlers : s.hd[g].upload = t.u => ~s.hd[g].body.open

\* What no task changes.
Turns(s, z) ==
  /\ z \in States
  /\ \A u \in Uploads : /\ z.up[u].loop = s.up[u].loop
                        /\ z.up[u].resumable = s.up[u].resumable
  /\ \A h \in Handlers : /\ z.hd[h].upload = s.hd[h].upload
                         /\ z.hd[h].body = s.hd[h].body
  /\ \A l \in Loops : Lengthens(s.queue[l], z.queue[l])

\* A retreat is such a change.
LEMMA RetreatTurns ==
  ASSUME NEW s, NEW u \in Uploads, NEW z, Retreats(s, z, u)
  PROVE  Turns(s, z)
  BY DEF Retreats, SameUploads, SameHandlers, Turns

\* A byte that is expected is shown in its place.
LEMMA BodySettles ==
  ASSUME NEW s \in States, Settled(s), NEW u \in Uploads, NEW h \in Handlers,
         s.up[u].loop # None, NEW pos \in 0..FileLength, pos < FileLength, pos = s.up[u].offset,
         s.up[u].resumable \/ s.app[u].ends = 0
  PROVE  LET z == ReceiveBody(s, u, h, pos) IN
         /\ Settled(z)
         /\ Turns(s, z)
         /\ z.up[u] = Counted(s, u)
         /\ \A v \in Uploads \ {u} : z.up[v] = s.up[v]
  <1> DEFINE z == ReceiveBody(s, u, h, pos)
             r == Counted(s, u)
             a == Shown(s, u, pos)
             y == PutUp(s, u, r)
  <1>1. s.up[u] \in UploadRecords /\ s.app[u] \in AppRecords
    BY StateFields
  <1>2. s.up[u].offset \in Nat /\ s.up[u].length \in {Unknown, FileLength}
    BY <1>1 DEF UploadRecords
  <1>3. ~TooLong(s, u)
    BY <1>2, BoundAssumption DEF TooLong
  <1>4. /\ r \in UploadRecords
        /\ a \in AppRecords
        /\ s.up[u].channel => z = PutApp(y, u, a)
        /\ ~s.up[u].channel => z = y
    <2>1. /\ r \in UploadRecords
          /\ a \in AppRecords
          /\ ~TooLong(s, u) /\ s.up[u].channel => z = PutApp(y, u, a)
          /\ ~TooLong(s, u) /\ ~s.up[u].channel => z = y
      BY ReceiveBodyIs
    <2> HIDE DEF z, r, a, y
    <2> QED BY <1>3, <2>1
  <1>5. /\ r.loop = s.up[u].loop
        /\ r.resumable = s.up[u].resumable
        /\ r.channel = s.up[u].channel
        /\ r.offset = s.up[u].offset + 1
    BY <1>1 DEF UploadRecords, Counted
  <1>6. ShowsAt(s, u)
    BY DEF Settled, Shows
  <1>7. s.up[u].channel =>
          /\ a.received = s.app[u].received + 1
          /\ a.ordered = TRUE
          /\ a.ends = 0
    <2> SUFFICES ASSUME s.up[u].channel
                 PROVE  /\ a.received = s.app[u].received + 1
                        /\ a.ordered = TRUE
                        /\ a.ends = 0
      OBVIOUS
    <2>1. s.app[u].received = pos /\ s.app[u].ordered
      BY <1>6 DEF ShowsAt
    <2>2. s.app[u].ends \in Nat
      BY <1>1 DEF AppRecords
    <2>3. s.app[u].ends = 0
      <3>1. CASE s.up[u].resumable
        BY <1>6, <2>1, <2>2, <3>1, BoundAssumption DEF ShowsAt
      <3> QED BY <3>1
    <2>4. ShowsInOrder(s, u, pos) = TRUE
      BY <2>1, <2>3 DEF ShowsInOrder
    <2> QED BY <1>1, <2>3, <2>4 DEF Shown, AppRecords
  <1> HIDE DEF r, a, z
  <1>8. /\ y \in States
        /\ y.up[u] = r
        /\ \A v \in Uploads \ {u} : y.up[v] = s.up[v]
        /\ y.hd = s.hd /\ y.app = s.app /\ y.uploads = s.uploads /\ y.queue = s.queue
    BY <1>4, PutUpIs
  <1> HIDE DEF y
  <1>9. /\ z \in States
        /\ z.up = y.up
        /\ z.hd = s.hd /\ z.uploads = s.uploads /\ z.queue = s.queue
        /\ \A v \in Uploads \ {u} : z.app[v] = s.app[v]
        /\ s.up[u].channel => z.app[u] = a
        /\ ~s.up[u].channel => z.app[u] = s.app[u]
    <2>1. CASE s.up[u].channel
      BY <1>4, <1>8, <2>1, PutAppIs
    <2>2. CASE ~s.up[u].channel
      BY <1>4, <1>8, <2>2
    <2> QED BY <2>1, <2>2
  <1>10. \A l \in Loops : Lengthens(s.queue[l], z.queue[l])
    BY <1>9, LengthensItself, StateFields
  <1>11. Turns(s, z)
    BY <1>5, <1>8, <1>9, <1>10 DEF Turns
  <1>12. ShowsAt(z, u)
    <2>1. CASE s.up[u].channel
      BY <1>5, <1>6, <1>7, <1>8, <1>9, <2>1 DEF ShowsAt
    <2>2. CASE ~s.up[u].channel
      BY <1>5, <1>6, <1>8, <1>9, <2>2 DEF ShowsAt
    <2> QED BY <2>1, <2>2
  <1>13. \A v \in Uploads \ {u} : ShowsAt(z, v)
    BY <1>8, <1>9 DEF Settled, Shows, ShowsAt
  <1>14. Plain(z)
    <2>1. \A v \in Uploads : s.app[v].ends = 0 => z.app[v].ends = 0
      BY <1>7, <1>9
    <2> QED BY <1>5, <1>8, <1>9, <2>1 DEF Settled, Plain
  <1>15. Queued(z)
    BY <1>9, <1>10, <1>11, QueuedKept DEF Settled, Turns
  <1>16. Settled(z)
    BY <1>12, <1>13, <1>14, <1>15 DEF Settled, Shows
  <1> QED BY <1>8, <1>9, <1>11, <1>16 DEF z, r

\* What stays of an upload that has been told the end of a request.
Ended(old, new) ==
  /\ new.loop = old.loop
  /\ new.resumable = old.resumable
  /\ new.handler = old.handler
  /\ new.offset = old.offset
  /\ new.requestIsComplete = old.requestIsComplete

\* The end of a request is shown at the end of the file.
LEMMA DeliverEndSettles ==
  ASSUME NEW s \in States, Settled(s), NEW u \in Uploads, s.up[u].loop # None,
         s.up[u].resumable => s.up[u].offset = FileLength,
         s.up[u].resumable \/ \A g \in Handlers : s.hd[g].upload = u => ~s.hd[g].body.open
  PROVE  LET z == DeliverEnd(s, u) IN
         /\ Settled(z)
         /\ Turns(s, z)
         /\ z.up = s.up
  <1> DEFINE z == DeliverEnd(s, u)
             a == [s.app[u] EXCEPT !.ends = @ + 1]
  <1>1. s.app[u] \in AppRecords /\ ShowsAt(s, u)
    BY StateFields DEF Settled, Shows
  <1>2. /\ a.received = s.app[u].received
        /\ a.ordered = s.app[u].ordered
    BY <1>1 DEF AppRecords
  <1>3. \/ z = s
        \/ s.up[u].channel /\ z = PutApp(s, u, a) /\ a \in AppRecords
    BY DeliverEndIs
  <1> HIDE DEF z, a
  <1>4. CASE z = s
    <2>1. Turns(s, s)
      BY LengthensItself, StateFields DEF Turns
    <2> QED BY <1>4, <2>1 DEF z
  <1>5. CASE s.up[u].channel /\ z = PutApp(s, u, a) /\ a \in AppRecords
    <2>1. /\ z \in States
          /\ z.app[u] = a
          /\ \A v \in Uploads \ {u} : z.app[v] = s.app[v]
          /\ z.hd = s.hd /\ z.up = s.up /\ z.uploads = s.uploads /\ z.queue = s.queue
      BY <1>5, PutAppIs
    <2>2. \A l \in Loops : Lengthens(s.queue[l], z.queue[l])
      BY <2>1, LengthensItself, StateFields
    <2>3. Turns(s, z)
      BY <2>1, <2>2 DEF Turns
    <2>4. ShowsAt(z, u)
      BY <1>1, <1>2, <1>5, <2>1 DEF ShowsAt
    <2>5. \A v \in Uploads \ {u} : ShowsAt(z, v)
      BY <2>1 DEF Settled, Shows, ShowsAt
    <2>6. Plain(z)
      <3>1. \A v \in Uploads \ {u} : z.app[v].ends = s.app[v].ends
        BY <2>1
      <3> QED BY <2>1, <3>1 DEF Settled, Plain
    <2>7. Queued(z)
      BY <2>1 DEF Settled, Queued
    <2>8. Settled(z)
      BY <2>4, <2>5, <2>6, <2>7 DEF Settled, Shows
    <2> QED BY <2>1, <2>3, <2>8 DEF z
  <1> QED BY <1>3, <1>4, <1>5

\* What an end that is expected leads to.
LEMMA EndSettles ==
  ASSUME NEW s \in States, Settled(s), NEW u \in Uploads, NEW h \in Handlers,
         s.up[u].loop # None, s.up[u].handler = h,
         s.up[u].resumable /\ s.up[u].requestIsComplete => s.up[u].offset = FileLength,
         s.up[u].resumable \/ \A g \in Handlers : s.hd[g].upload = u => ~s.hd[g].body.open
  PROVE  LET z == ReceiveEnd(s, u, h) IN
         /\ Settled(z)
         /\ Turns(s, z)
         /\ \/ Retreats(s, z, u) /\ z.up[u].handler = None
            \/ /\ Ended(s.up[u], z.up[u])
               /\ \A v \in Uploads \ {u} : z.up[v] = s.up[v]
  <1> DEFINE z == ReceiveEnd(s, u, h)
  <1>1. s.up[u] \in UploadRecords
    BY StateFields
  <1>2. CASE ~s.up[u].resumable
    <2>1. z = DeliverEnd(s, u)
      BY <1>2 DEF ReceiveEnd
    <2>2. Settled(z) /\ Turns(s, z) /\ z.up = s.up
      BY <1>2, <2>1, DeliverEndSettles
    <2> QED BY <2>2 DEF Ended
  <1>3. CASE s.up[u].resumable /\ s.up[u].requestIsComplete
    <2> DEFINE r == [s.up[u] EXCEPT !.uploadComplete = TRUE]
               y == PutUp(s, u, r)
    <2>1. [s EXCEPT !.up[u].uploadComplete = TRUE] = y
      BY DEF PutUp, States
    <2>2. z = DeliverEnd(y, u)
      BY <1>3, <2>1 DEF ReceiveEnd
    <2>3. Loses(s.up[u], r) /\ Ended(s.up[u], r)
      BY <1>1 DEF UploadRecords, Loses, Ended
    <2> HIDE DEF r, z
    <2>4. Retreats(s, y, u)
      BY <2>3, PutUpRetreats
    <2>5. /\ y \in States
          /\ y.up[u] = r
          /\ \A v \in Uploads \ {u} : y.up[v] = s.up[v]
          /\ y.hd = s.hd
      BY <2>3, PutUpIs DEF Loses
    <2> HIDE DEF y
    <2>6. Settled(y) /\ Turns(s, y)
      BY <2>4, RetreatKeepsSettled, RetreatTurns
    <2>7. Settled(DeliverEnd(y, u)) /\ Turns(y, DeliverEnd(y, u)) /\ DeliverEnd(y, u).up = y.up
      BY <1>3, <2>3, <2>5, <2>6, DeliverEndSettles DEF Ended
    <2>8. Turns(s, z)
      <3>1. \A l \in Loops : Lengthens(s.queue[l], z.queue[l])
        BY <2>2, <2>6, <2>7, LengthensTransitive, StateFields DEF Turns
      <3> QED BY <2>2, <2>6, <2>7, <3>1 DEF Turns
    <2> QED BY <2>2, <2>3, <2>5, <2>7, <2>8 DEF z
  <1>4. CASE s.up[u].resumable /\ ~s.up[u].requestIsComplete
    <2>1. z = RespondAndDetach(s, u, h)
      BY <1>4 DEF ReceiveEnd
    <2>2. Retreats(s, z, u) /\ z.up[u].handler # h
      BY <2>1, RespondAndDetachIs
    <2> HIDE DEF z
    <2>3. z.up[u].handler = None
      BY <2>2 DEF Retreats, SameUploads
    <2>4. Settled(z) /\ Turns(s, z)
      BY <2>2, RetreatKeepsSettled, RetreatTurns
    <2> QED BY <2>2, <2>3, <2>4 DEF z
  <1> QED BY <1>2, <1>3, <1>4

\* Task t takes what is expected in s to what is expected in z.
Carries(s, t, z) ==
  \A g \in Handlers, v \in Uploads, c, d \in Expectations :
    Meets(s, g, v, c) /\ Passes(t, g, v, c, d) => Meets(z, g, v, d)

Delivers(s, t, z) == Settled(z) /\ Turns(s, z) /\ Carries(s, t, z)

\* When an upload lets go of its handler nothing more is expected of one.
LEMMA RetreatDelivers ==
  ASSUME NEW s \in States, Settled(s), NEW t, t.u \in Uploads, NEW z,
         Retreats(s, z, t.u), z.up[t.u].handler = None
  PROVE  Delivers(s, t, z)
  <1>1. Settled(z) /\ Turns(s, z)
    BY RetreatKeepsSettled, RetreatTurns
  <1>2. ASSUME NEW g \in Handlers, NEW v \in Uploads, NEW c \in Expectations,
               NEW d \in Expectations, Meets(s, g, v, c), Passes(t, g, v, c, d)
        PROVE  Meets(z, g, v, d)
    <2>1. CASE v = t.u
      BY <2>1, ValueAssumption DEF Meets
    <2>2. CASE v # t.u
      <3>1. d = c
        BY <1>2, <2>2 DEF Passes, Feeds
      <3> QED BY <1>2, <3>1, RetreatMeets
    <2> QED BY <2>1, <2>2
  <1> QED BY <1>1, <1>2 DEF Delivers, Carries

\* A task from a handler that is not attached does nothing.
LEMMA NothingDelivers ==
  ASSUME NEW s \in States, Settled(s), NEW t, t.op # "append", s.up[t.u].handler # t.h
  PROVE  Delivers(s, t, s)
  <1>1. Turns(s, s)
    BY LengthensItself, StateFields DEF Turns
  <1>2. Carries(s, t, s)
    BY DEF Carries, Meets, Passes, Feeds
  <1> QED BY <1>1, <1>2 DEF Delivers

\* A byte that is expected takes its handler to the next one.
LEMMA BodyDelivers ==
  ASSUME NEW s \in States, Settled(s), NEW t, Ready(s, t), t.op = "body",
         s.up[t.u].handler = t.h, NEW a, NEW b,
         Meets(s, t.h, t.u, a), Passes(t, t.h, t.u, a, b)
  PROVE  Delivers(s, t, ReceiveBody(s, t.u, t.h, t.pos))
  <1> DEFINE u == t.u
             h == t.h
             pos == t.pos
             z == ReceiveBody(s, u, h, pos)
  <1>1. u \in Uploads /\ h \in Handlers /\ pos \in 0..FileLength /\ s.up[u].loop # None
    BY UploadTaskFields DEF Ready, Told
  <1>2. pos < FileLength /\ (s.up[u].resumable \/ s.app[u].ends = 0)
    BY DEF Ready
  <1>3. pos = s.up[u].offset
    BY DEF Meets, Passes, Feeds
  <1> HIDE DEF u, h, pos
  <1>4. /\ Settled(z)
        /\ Turns(s, z)
        /\ z.up[u] = Counted(s, u)
        /\ \A v \in Uploads \ {u} : z.up[v] = s.up[v]
    BY <1>1, <1>2, <1>3, BodySettles
  <1> HIDE DEF z
  <1>5. /\ z.up[u].handler = h
        /\ z.up[u].offset = pos + 1
        /\ z.up[u].resumable = s.up[u].resumable
        /\ z.up[u].requestIsComplete = s.up[u].requestIsComplete
    <2>1. s.up[u] \in UploadRecords
      BY <1>1, StateFields
    <2> QED BY <1>3, <1>4, <2>1 DEF Counted, UploadRecords, u, h
  <1>6. ASSUME NEW g \in Handlers, NEW v \in Uploads, NEW c \in Expectations,
               NEW d \in Expectations, Meets(s, g, v, c), Passes(t, g, v, c, d)
        PROVE  Meets(z, g, v, d)
    <2>1. CASE v = u /\ g = h
      <3>1. Feeds(t, g, v)
        BY <2>1 DEF Feeds, u, h
      <3>2. d.pos = pos + 1 /\ d.whole = c.whole
        BY <1>6, <3>1 DEF Passes, pos
      <3>3. s.up[v].resumable /\ s.up[v].requestIsComplete => c.whole
        BY <1>6, <2>1 DEF Meets, u, h
      <3> QED BY <1>5, <2>1, <3>2, <3>3 DEF Meets
    <2>2. CASE v = u /\ g # h
      BY <1>5, <2>2 DEF Meets
    <2>3. CASE v # u
      <3>1. d = c
        BY <1>6, <2>3 DEF Passes, Feeds, u
      <3>2. z.up[v] = s.up[v]
        BY <1>4, <2>3
      <3> QED BY <1>6, <3>1, <3>2 DEF Meets
    <2> QED BY <2>1, <2>2, <2>3
  <1>7. Delivers(s, t, z)
    BY <1>4, <1>6 DEF Delivers, Carries
  <1> QED BY <1>7 DEF z, u, h, pos

\* An end that is expected asks nothing more of its handler.
LEMMA EndDelivers ==
  ASSUME NEW s \in States, Settled(s), NEW t, Ready(s, t), t.op = "end",
         s.up[t.u].handler = t.h, NEW a, NEW b,
         Meets(s, t.h, t.u, a), Passes(t, t.h, t.u, a, b)
  PROVE  Delivers(s, t, ReceiveEnd(s, t.u, t.h))
  <1> DEFINE u == t.u
             h == t.h
             z == ReceiveEnd(s, u, h)
  <1>1. u \in Uploads /\ h \in Handlers /\ s.up[u].loop # None
    BY UploadTaskFields DEF Ready, Told
  <1>2. s.up[u].resumable /\ s.up[u].requestIsComplete => s.up[u].offset = FileLength
    BY DEF Meets, Passes, Feeds
  <1>3. s.up[u].resumable \/ \A g \in Handlers : s.hd[g].upload = u => ~s.hd[g].body.open
    BY DEF Ready
  <1>4. s.up[u].handler = h
    OBVIOUS
  <1> HIDE DEF u, h
  <1>5. /\ Settled(z)
        /\ Turns(s, z)
        /\ \/ Retreats(s, z, u) /\ z.up[u].handler = None
           \/ /\ Ended(s.up[u], z.up[u])
              /\ \A v \in Uploads \ {u} : z.up[v] = s.up[v]
    BY <1>1, <1>2, <1>3, <1>4, EndSettles
  <1> HIDE DEF z
  <1>6. CASE Retreats(s, z, u) /\ z.up[u].handler = None
    <2>1. Delivers(s, t, z)
      BY <1>1, <1>6, RetreatDelivers DEF u
    <2> QED BY <2>1 DEF z, u, h
  <1>7. CASE Ended(s.up[u], z.up[u]) /\ \A v \in Uploads \ {u} : z.up[v] = s.up[v]
    <2>1. ASSUME NEW g \in Handlers, NEW v \in Uploads, NEW c \in Expectations,
                 NEW d \in Expectations, Meets(s, g, v, c), Passes(t, g, v, c, d)
          PROVE  Meets(z, g, v, d)
      <3>1. d = c
        BY <2>1 DEF Passes
      <3>2. CASE v = u
        BY <1>7, <2>1, <3>1, <3>2 DEF Meets, Ended
      <3>3. CASE v # u
        BY <1>7, <2>1, <3>1, <3>3 DEF Meets
      <3> QED BY <3>2, <3>3
    <2>2. Delivers(s, t, z)
      BY <1>5, <2>1 DEF Delivers, Carries
    <2> QED BY <2>2 DEF z, u, h
  <1> QED BY <1>5, <1>6, <1>7

\* An upload that attaches a handler is where the request goes on.
LEMMA AppendDelivers ==
  ASSUME NEW s \in States, Settled(s), NEW t, Told(s, t), t.op = "append"
  PROVE  Delivers(s, t, UploadAppending(s, t.u, t.h, t.request))
  <1> DEFINE u == t.u
             h == t.h
             r == t.request
             z == UploadAppending(s, u, h, r)
  <1>1. u \in Uploads /\ h \in Handlers /\ r \in UploadRequests
    BY UploadTaskFields DEF Told
  <1> HIDE DEF u, h, r
  <1>2. \/ /\ s.up[u].offset = r.offset
           /\ \E x : AttachedTo(s.up[u], x, h, r) /\ z = PutUp(s, u, x)
        \/ Retreats(s, z, u) /\ z.up[u].handler = None
    BY <1>1, UploadAppendingIs
  <1> HIDE DEF z
  <1>3. CASE Retreats(s, z, u) /\ z.up[u].handler = None
    <2>1. Delivers(s, t, z)
      BY <1>1, <1>3, RetreatDelivers DEF u
    <2> QED BY <2>1 DEF z, u, h, r
  <1>4. CASE /\ s.up[u].offset = r.offset
             /\ \E x : AttachedTo(s.up[u], x, h, r) /\ z = PutUp(s, u, x)
    <2>1. PICK x : AttachedTo(s.up[u], x, h, r) /\ z = PutUp(s, u, x)
      BY <1>4
    <2>2. /\ x.handler = h
          /\ x.offset = r.offset
          /\ x.requestIsComplete = r.complete
          /\ x.loop = s.up[u].loop
          /\ x.channel = s.up[u].channel
          /\ x.resumable = s.up[u].resumable
          /\ x.offset = s.up[u].offset
      BY <1>4, <2>1 DEF AttachedTo
    <2>3. /\ z \in States
          /\ z.up[u] = x
          /\ \A v \in Uploads \ {u} : z.up[v] = s.up[v]
          /\ z.hd = s.hd /\ z.app = s.app /\ z.uploads = s.uploads /\ z.queue = s.queue
      BY <1>1, <2>1, PutUpIs DEF AttachedTo
    <2>4. \A v \in Uploads : /\ z.up[v].loop = s.up[v].loop
                             /\ z.up[v].channel = s.up[v].channel
                             /\ z.up[v].resumable = s.up[v].resumable
                             /\ z.up[v].offset = s.up[v].offset
      BY <2>2, <2>3
    <2>5. \A l \in Loops : Lengthens(s.queue[l], z.queue[l])
      BY <2>3, LengthensItself, StateFields
    <2>6. Turns(s, z)
      BY <2>3, <2>4, <2>5 DEF Turns
    <2>7. Shows(z)
      BY <2>3, <2>4 DEF Settled, Shows, ShowsAt
    <2>8. Plain(z)
      BY <2>3, <2>4 DEF Settled, Plain
    <2>9. Queued(z)
      BY <2>3, <2>4, <2>5, QueuedKept DEF Settled
    <2>10. ASSUME NEW g \in Handlers, NEW v \in Uploads, NEW c \in Expectations,
                  NEW d \in Expectations, Meets(s, g, v, c), Passes(t, g, v, c, d)
           PROVE  Meets(z, g, v, d)
      <3>1. CASE v = u /\ g = h
        <4>1. d.pos = r.offset /\ d.whole = r.complete
          BY <2>10, <3>1 DEF Passes, Feeds, u, h, r
        <4> QED BY <2>2, <2>3, <3>1, <4>1 DEF Meets
      <3>2. CASE v = u /\ g # h
        BY <2>2, <2>3, <3>2 DEF Meets
      <3>3. CASE v # u
        <4>1. d = c
          BY <2>10, <3>3 DEF Passes, Feeds, u
        <4> QED BY <2>3, <2>10, <3>3, <4>1 DEF Meets
      <3> QED BY <3>1, <3>2, <3>3
    <2>11. Delivers(s, t, z)
      BY <2>6, <2>7, <2>8, <2>9, <2>10 DEF Delivers, Carries, Settled
    <2> QED BY <2>11 DEF z, u, h, r
  <1> QED BY <1>2, <1>3, <1>4

\* Whatever u is told, it expects next what the task leads to.
LEMMA UploadTaskDelivers ==
  ASSUME NEW s \in States, Settled(s), NEW t, Ready(s, t), NEW a, NEW b,
         Meets(s, t.h, t.u, a), Passes(t, t.h, t.u, a, b)
  PROVE  Delivers(s, t, UploadTask(s, t))
  <1> DEFINE u == t.u
             h == t.h
             z == UploadTask(s, t)
  <1>1. u \in Uploads /\ h \in Handlers /\ t.op \in UploadOps
    BY UploadTaskFields DEF Ready, Told
  <1>2. CASE t.op = "body" /\ Expected(s, u, h)
    BY <1>2, BodyDelivers DEF UploadTask, Expected
  <1>3. CASE t.op = "end" /\ Expected(s, u, h)
    BY <1>3, EndDelivers DEF UploadTask, Expected
  <1>4. CASE t.op = "append"
    BY <1>4, AppendDelivers DEF UploadTask, Ready
  <1>5. CASE \/ t.op = "gone" /\ Expected(s, u, h)
             \/ t.op \in {"offset", "cancel"}
    <2>1. \/ z = HandlerEnded(s, u)
          \/ z = OffsetRetrieving(s, u, h)
          \/ z = UploadCancellation(s, u)
      BY <1>5 DEF UploadTask
    <2> HIDE DEF z
    <2>2. Retreats(s, z, u) /\ z.up[u].handler = None
      BY <1>1, <2>1, EndingIs
    <2>3. Delivers(s, t, z)
      BY <1>1, <2>2, RetreatDelivers
    <2> QED BY <2>3 DEF z
  <1>6. CASE t.op \in {"body", "end", "gone"} /\ ~Expected(s, u, h)
    <2>1. z = s
      BY <1>6 DEF UploadTask
    <2>2. Delivers(s, t, s)
      BY <1>6, NothingDelivers DEF Expected
    <2> QED BY <2>1, <2>2
  <1> QED BY <1>1, <1>2, <1>3, <1>4, <1>5, <1>6 DEF UploadOps

\* What handler h tells of upload u: it sends what the upload expects behind the tasks that
\* wait between them, and then what task t leads to.
Continues(s, h, u, t) ==
  \E a, b, c \in Expectations :
    /\ Meets(s, h, u, a)
    /\ Path(Between(s, h, u), h, u, a, b)
    /\ Passes(t, h, u, b, c)
    /\ Sends(s, h, u, c)

\* All others are on their course.
Others(s, h, u) ==
  \A g \in Handlers, v \in Uploads :
    s.up[v].loop # None /\ ~(g = h /\ v = u) => Course(s, g, v)

\* A task that is run at once.
LEMMA RunDelivers ==
  ASSUME NEW s \in States, Settled(s), NEW t, Ready(s, t), Others(s, t.h, t.u),
         Continues(s, t.h, t.u, t), HandlerLoop[t.h] = s.up[t.u].loop
  PROVE  OnCourse(UploadTask(s, t))
  <1> DEFINE u == t.u
             h == t.h
             z == UploadTask(s, t)
  <1>1. u \in Uploads /\ h \in Handlers /\ s.up[u].loop # None
    BY UploadTaskFields DEF Ready, Told
  <1>2. PICK a \in Expectations, b \in Expectations, c \in Expectations :
          /\ Meets(s, h, u, a)
          /\ Path(Between(s, h, u), h, u, a, b)
          /\ Passes(t, h, u, b, c)
          /\ Sends(s, h, u, c)
    BY DEF Continues
  <1>3. Between(s, h, u) = <<>>
    BY DEF Between
  <1>4. a = b
    BY <1>2, <1>3, EmptyPath
  <1>5. Delivers(s, t, z)
    BY <1>2, <1>4, UploadTaskDelivers
  <1> HIDE DEF z
  <1>6. Settled(z) /\ Turns(s, z) /\ Carries(s, t, z)
    BY <1>5 DEF Delivers
  <1>7. /\ z \in States
        /\ \A v \in Uploads : z.up[v].loop = s.up[v].loop
        /\ \A l \in Loops : Lengthens(s.queue[l], z.queue[l])
    BY <1>6 DEF Turns
  <1>8. \A g \in Handlers, v \in Uploads : \A e \in Expectations :
          Sends(s, g, v, e) => Sends(z, g, v, e)
    BY <1>6 DEF Turns, Sends
  <1>9. ASSUME NEW g \in Handlers, NEW v \in Uploads, z.up[v].loop # None
        PROVE  Course(z, g, v)
    <2>1. CASE g = h /\ v = u
      <3>1. Meets(z, h, u, c)
        BY <1>1, <1>2, <1>4, <1>6 DEF Carries
      <3>2. Between(z, h, u) = <<>>
        BY <1>1, <1>7 DEF Between
      <3>3. Path(Between(z, h, u), h, u, c, c)
        BY <3>2, EmptyPath
      <3>4. Sends(z, h, u, c)
        BY <1>1, <1>2, <1>8
      <3> QED BY <2>1, <3>1, <3>3, <3>4 DEF Course
    <2>2. CASE ~(g = h /\ v = u)
      <3>1. Course(s, g, v)
        BY <1>7, <1>9, <2>2 DEF Others
      <3>2. \A e \in Expectations : Passes(t, g, v, e, e)
        BY <2>2 DEF Passes, Feeds
      <3>3. \A e \in Expectations : Meets(s, g, v, e) => Meets(z, g, v, e)
        BY <1>6, <3>2 DEF Carries
      <3>4. s.up[v].loop # None
        BY <1>7, <1>9
      <3> QED BY <1>7, <1>8, <3>1, <3>3, <3>4, CourseKept
    <2> QED BY <2>1, <2>2
  <1>10. OnCourse(z)
    BY <1>6, <1>7, <1>9 DEF OnCourse, Courses
  <1> QED BY <1>10 DEF z

\* A task that waits.
LEMMA WaitDelivers ==
  ASSUME NEW s \in States, Settled(s), NEW t, Ready(s, t), Others(s, t.h, t.u),
         Continues(s, t.h, t.u, t), HandlerLoop[t.h] # s.up[t.u].loop,
         s.up[t.u].resumable \/ s.hd[t.h].upload = t.u
  PROVE  OnCourse(Enqueue(s, s.up[t.u].loop, t))
  <1> DEFINE u == t.u
             h == t.h
             l == s.up[u].loop
             z == Enqueue(s, l, t)
  <1>1. u \in Uploads /\ h \in Handlers /\ l # None /\ t \in Tasks
    BY UploadTaskFields DEF Ready, Told, Tasks
  <1>2. l \in Loops
    BY <1>1, BetweenIs
  <1>3. s.up[u].resumable
    BY <1>1 DEF Settled, Plain
  <1>4. t.op = "body" => t.pos < FileLength
    BY DEF Ready
  <1>5. PICK a \in Expectations, b \in Expectations, c \in Expectations :
          /\ Meets(s, h, u, a)
          /\ Path(Between(s, h, u), h, u, a, b)
          /\ Passes(t, h, u, b, c)
          /\ Sends(s, h, u, c)
    BY DEF Continues
  <1>6. HandlerLoop[h] # l
    OBVIOUS
  <1>7. Others(s, h, u)
    OBVIOUS
  <1> HIDE DEF u, h, l
  <1>8. /\ z \in States
        /\ z.queue[l] = Append(s.queue[l], t)
        /\ \A m \in Loops \ {l} : z.queue[m] = s.queue[m]
        /\ z.hd = s.hd /\ z.up = s.up /\ z.app = s.app /\ z.uploads = s.uploads
    BY <1>1, <1>2, EnqueueIs
  <1> HIDE DEF z
  <1>9. s.queue[l] \in Seq(Tasks)
    BY <1>2, StateFields
  <1>10. Queued(z)
    <2> SUFFICES ASSUME NEW m \in Loops, NEW i \in 1..Len(z.queue[m]),
                        z.queue[m][i].op \in UploadOps
                 PROVE  /\ s.up[z.queue[m][i].u].resumable
                        /\ z.queue[m][i].op = "body" => z.queue[m][i].pos < FileLength
      BY <1>8 DEF Queued
    <2>1. CASE m # l
      BY <1>8, <2>1 DEF Settled, Queued
    <2>2. CASE m = l
      <3>1. /\ Len(s.queue[l]) \in Nat
            /\ Len(z.queue[l]) = Len(s.queue[l]) + 1
            /\ z.queue[l][Len(s.queue[l]) + 1] = t
            /\ \A j \in 1..Len(s.queue[l]) : z.queue[l][j] = s.queue[l][j]
        BY <1>1, <1>8, <1>9, AppendProperties, LenProperties
      <3>2. CASE i = Len(s.queue[l]) + 1
        BY <1>3, <1>4, <2>2, <3>1, <3>2 DEF u
      <3>3. CASE i # Len(s.queue[l]) + 1
        <4>1. i \in 1..Len(s.queue[l])
          BY <2>2, <3>1, <3>3
        <4> QED BY <1>2, <2>2, <3>1, <4>1 DEF Settled, Queued
      <3> QED BY <3>2, <3>3
    <2> QED BY <2>1, <2>2
  <1>11. Settled(z)
    BY <1>8, <1>10 DEF Settled, Shows, ShowsAt, Plain
  <1>12. ASSUME NEW g \in Handlers, NEW v \in Uploads, z.up[v].loop # None
         PROVE  Course(z, g, v)
    <2>1. CASE g = h /\ v = u
      <3>1. Between(s, h, u) = s.queue[l] /\ Between(z, h, u) = Append(s.queue[l], t)
        BY <1>6, <1>8 DEF Between, l
      <3>2. Path(Between(z, h, u), h, u, a, c)
        BY <1>1, <1>5, <1>9, <3>1, QueuedPath
      <3>3. Meets(z, h, u, a) /\ Sends(z, h, u, c)
        BY <1>5, <1>8 DEF Meets, Sends
      <3> QED BY <2>1, <3>2, <3>3 DEF Course
    <2>2. CASE ~(g = h /\ v = u)
      <3>1. Course(s, g, v) /\ s.up[v].loop \in Loops /\ Between(s, g, v) \in Seq(Tasks)
        BY <1>7, <1>8, <1>12, <2>2, BetweenIs DEF Others
      <3>2. PICK x \in Expectations, y \in Expectations :
              /\ Meets(s, g, v, x)
              /\ Path(Between(s, g, v), g, v, x, y)
              /\ Sends(s, g, v, y)
        BY <3>1 DEF Course
      <3>3. Meets(z, g, v, x) /\ Sends(z, g, v, y)
        BY <1>8, <3>2 DEF Meets, Sends
      <3>4. Path(Between(z, g, v), g, v, x, y)
        <4>1. CASE s.up[v].loop = l /\ HandlerLoop[g] # l
          <5>1. Between(z, g, v) = Append(Between(s, g, v), t)
            BY <1>8, <4>1 DEF Between
          <5>2. Passes(t, g, v, y, y)
            BY <2>2 DEF Passes, Feeds, u, h
          <5> QED BY <1>1, <3>1, <3>2, <5>1, <5>2, QueuedPath
        <4>2. CASE ~(s.up[v].loop = l /\ HandlerLoop[g] # l)
          <5>1. Between(z, g, v) = Between(s, g, v)
            BY <1>8, <3>1, <4>2 DEF Between
          <5> QED BY <3>2, <5>1
        <4> QED BY <4>1, <4>2
      <3> QED BY <3>2, <3>3, <3>4 DEF Course
    <2> QED BY <2>1, <2>2
  <1>13. OnCourse(z)
    BY <1>8, <1>11, <1>12 DEF OnCourse, Courses
  <1> QED BY <1>13 DEF z, u, l

\* What a connection tells, at once or through the upload's loop.
LEMMA TellDelivers ==
  ASSUME NEW s \in States, Settled(s), NEW t, Ready(s, t), Others(s, t.h, t.u),
         Continues(s, t.h, t.u, t), s.up[t.u].resumable \/ s.hd[t.h].upload = t.u
  PROVE  OnCourse(WithUpload(s, HandlerLoop[t.h], t))
  <1>1. CASE HandlerLoop[t.h] = s.up[t.u].loop
    BY <1>1, RunDelivers DEF WithUpload
  <1>2. CASE HandlerLoop[t.h] # s.up[t.u].loop
    BY <1>2, WaitDelivers DEF WithUpload
  <1> QED BY <1>1, <1>2

\* A task that asks nothing of what h sends.
LEMMA StaysOnCourse ==
  ASSUME NEW s, NEW h \in Handlers, NEW u \in Uploads, Course(s, h, u), NEW t,
         t.op \in {"gone", "offset", "cancel"}
  PROVE  Continues(s, h, u, t)
  <1>1. PICK a \in Expectations, b \in Expectations :
          /\ Meets(s, h, u, a)
          /\ Path(Between(s, h, u), h, u, a, b)
          /\ Sends(s, h, u, b)
    BY DEF Course
  <1>2. Passes(t, h, u, b, b)
    BY DEF Passes
  <1> QED BY <1>1, <1>2 DEF Continues

-----------------------------------------------------------------------------
(* What connections do.                                                    *)

\* All handlers are on their course, so are all but one.
LEMMA CoursesOthers ==
  ASSUME NEW s, Courses(s), NEW h, NEW u
  PROVE  Others(s, h, u)
  BY DEF Courses, Others

\* A handler that goes tells so.
LEMMA GoneDelivers ==
  ASSUME NEW s, Sound(s), OnCourse(s), NEW h \in Handlers, hd[h].body.pos \in 0..FileLength
  PROVE  OnCourse(TellUpload(s, h, "gone"))
  <1>1. PICK op \in {"body", "end", "gone"} : op = "gone"
    OBVIOUS
  <1> DEFINE u == s.hd[h].upload
             t == Telling(s, h, op)
  <1>2. CASE u \notin Uploads
    <2>1. TellUpload(s, h, op) = s
      BY <1>2, TellingIs
    <2> QED BY <1>1, <2>1
  <1>3. CASE u \in Uploads
    <2>1. Told(s, t) /\ TellUpload(s, h, op) = WithUpload(s, HandlerLoop[h], t)
      BY <1>3, TellingIs
    <2>2. t.op = "gone" /\ t.u = u /\ t.h = h
      BY <1>1 DEF Telling
    <2> HIDE DEF t
    <2>3. Ready(s, t)
      BY <2>1, <2>2 DEF Ready
    <2>4. s.up[u].loop # None
      BY <2>1, <2>2 DEF Told
    <2>5. Course(s, h, u)
      BY <1>3, <2>4 DEF OnCourse, Courses
    <2>6. Continues(s, t.h, t.u, t)
      BY <1>3, <2>2, <2>5, StaysOnCourse
    <2>7. Others(s, t.h, t.u)
      BY CoursesOthers DEF OnCourse
    <2>8. OnCourse(WithUpload(s, HandlerLoop[t.h], t))
      BY <2>2, <2>3, <2>6, <2>7, TellDelivers DEF OnCourse
    <2> QED BY <1>1, <2>1, <2>2, <2>8
  <1> QED BY <1>2, <1>3

\* A handler that feeds nothing more, or what it fed.
LEMMA HandlerDelivers ==
  ASSUME NEW s, OnCourse(s), NEW h \in Handlers, NEW r \in HandlerRecords,
         \/ r.upload \notin Uploads
         \/ r.upload = s.hd[h].upload /\ (~r.body.open \/ r.body = s.hd[h].body)
  PROVE  OnCourse(PutHd(s, h, r))
  <1>1. s \in States /\ Settled(s) /\ Courses(s)
    BY DEF OnCourse
  <1>2. Settled(PutHd(s, h, r))
    <2>1. \A u \in Uploads :
            r.upload = u => \/ s.up[u].resumable
                            \/ s.hd[h].upload = u /\ (r.body.open => s.hd[h].body.open)
      OBVIOUS
    <2> QED BY <1>1, <2>1, HandlerKeepsSettled
  <1>3. PutHd(s, h, r) \in States /\ PutHd(s, h, r).up = s.up
    BY <1>1, PutHdIs
  <1>4. ASSUME NEW g \in Handlers, NEW u \in Uploads, s.up[u].loop # None
        PROVE  Course(PutHd(s, h, r), g, u)
    <2>1. Course(s, g, u)
      BY <1>1, <1>4 DEF Courses
    <2> QED BY <1>1, <1>4, <2>1, HandlerKeepsCourse
  <1>5. Courses(PutHd(s, h, r))
    BY <1>3, <1>4 DEF Courses
  <1> QED BY <1>2, <1>3, <1>5 DEF OnCourse

\* A refusal.
LEMMA RefuseDelivers ==
  ASSUME NEW s, OnCourse(s), NEW h \in Handlers
  PROVE  OnCourse(Refuse(s, h))
  <1>1. PICK r \in HandlerRecords : Refuse(s, h) = PutHd(s, h, r) /\ r.upload = Spent
    BY RefuseIs DEF OnCourse
  <1>2. r.upload \notin Uploads
    BY <1>1, ValueAssumption
  <1> QED BY <1>1, <1>2, HandlerDelivers

\* The head of a request.
LEMMA AfterHeadDelivers ==
  ASSUME DInv, NEW h \in Handlers, SendHead(h), NEW body \in Bodies, body.open
  PROVE  OnCourse(AfterHead(h, body))
  <1> DEFINE y == Parted(h)
  <1>1. IInv /\ Sound(State) /\ OnCourse(State) /\ State \in States /\ State.hd = hd
    BY DEF DInv, IInv, Sound, State
  <1>2. hd[h].body.pos \in 0..FileLength
    BY <1>1, StateFields DEF HandlerRecords, Bodies
  <1>3. OnCourse(y)
    BY <1>1, <1>2, GoneDelivers DEF Parted
  <1>4. PICK r \in HandlerRecords :
          AfterHead(h, body) = PutHd(y, h, r) /\ r.upload \in {Fresh, Spent}
    BY <1>1, AfterHeadIs
  <1> HIDE DEF y
  <1>5. r.upload \notin Uploads
    BY <1>4, ValueAssumption
  <1> QED BY <1>3, <1>4, <1>5, HandlerDelivers

\* A new upload expects the file from its start.
LEMMA NewUploadDelivers ==
  ASSUME NEW s, Sound(s), OnCourse(s), NEW u \in Uploads, NEW h \in Handlers,
         s.up[u].loop = None, s.hd[h].body.open, s.hd[h].body.pos = 0,
         NEW length \in {Unknown, FileLength}, NEW complete \in BOOLEAN,
         NEW resumable \in BOOLEAN, resumable /\ complete => s.hd[h].body.whole
  PROVE  OnCourse(NewUpload(s, u, h, length, complete, resumable))
  <1> DEFINE z == NewUpload(s, u, h, length, complete, resumable)
             a == Created(s.up[u], HandlerLoop[h], h, length, complete, resumable)
             r == Owning(s.hd[h], u)
  <1>1. s \in States /\ Settled(s) /\ Courses(s)
    BY DEF OnCourse
  <1>2. s.hd[h] \in HandlerRecords /\ s.up[u] \in UploadRecords
    BY <1>1, StateFields
  <1>3. /\ z \in States
        /\ z.hd[h] = r
        /\ \A g \in Handlers \ {h} : z.hd[g] = s.hd[g]
        /\ z.up[u] = a
        /\ \A v \in Uploads \ {u} : z.up[v] = s.up[v]
        /\ z.app = s.app
        /\ ~resumable => z.uploads = s.uploads
        /\ resumable => z.uploads = s.uploads \cup {u}
        /\ z.queue = s.queue
    BY <1>1, NewUploadIs
  <1>4. /\ a.loop = HandlerLoop[h] /\ a.handler = h /\ a.channel /\ a.resumable = resumable
        /\ a.requestIsComplete = complete /\ a.offset = s.up[u].offset
    BY <1>2 DEF Created, UploadRecords
  <1>5. r.upload = u /\ r.body = s.hd[h].body
    BY <1>2 DEF HandlerRecords, Owning
  <1>6. HandlerLoop[h] \in Loops /\ HandlerLoop[h] # None
    BY LoopAssumption, ValueAssumption
  <1>7. u \notin s.uploads /\ \A g \in Handlers : s.hd[g].upload # u
    BY DEF Sound, Unused
  <1>8. s.up[u].offset = 0 /\ s.app[u].received = 0 /\ s.app[u].ends = 0 /\ s.app[u].ordered
    BY <1>1 DEF Settled, Shows, ShowsAt
  <1>9. s.hd[h].body.whole \in BOOLEAN
    BY <1>2 DEF HandlerRecords, Bodies
  <1> HIDE DEF z, a, r
  <1>10. ASSUME NEW l \in Loops, NEW i \in 1..Len(s.queue[l]), s.queue[l][i].op \in UploadOps
         PROVE  s.queue[l][i].u \in Uploads /\ s.queue[l][i].u # u
    <2>1. s.queue[l][i] \in Tasks
      BY <1>1, StateFields, ElementOfSeq
    <2>2. s.queue[l][i].u \in Uploads
      BY <1>10, <2>1 DEF Tasks, UploadTasks, HandlerTasks, UploadOps
    <2>3. s.up[s.queue[l][i].u].loop = l
      BY <1>10 DEF Sound, Placed
    <2> QED BY <2>2, <2>3, ValueAssumption
  <1>11. Shows(z)
    <2>1. ShowsAt(z, u)
      BY <1>3, <1>4, <1>6, <1>8 DEF ShowsAt
    <2>2. \A v \in Uploads \ {u} : ShowsAt(z, v)
      BY <1>1, <1>3 DEF Settled, Shows, ShowsAt
    <2> QED BY <2>1, <2>2 DEF Shows
  <1>12. Plain(z)
    <2> SUFFICES ASSUME NEW v \in Uploads, z.up[v].loop # None, ~z.up[v].resumable
                 PROVE  /\ v \notin z.uploads
                        /\ \A g \in Handlers :
                             z.hd[g].upload = v =>
                               /\ HandlerLoop[g] = z.up[v].loop
                               /\ z.hd[g].body.open => z.app[v].ends = 0
                               /\ \A k \in Handlers : z.hd[k].upload = v => k = g
      BY DEF Plain
    <2>1. CASE v = u
      BY <1>3, <1>4, <1>7, <1>8, <2>1
    <2>2. CASE v # u
      <3>1. /\ v \notin s.uploads
            /\ \A g \in Handlers :
                 s.hd[g].upload = v =>
                   /\ HandlerLoop[g] = s.up[v].loop
                   /\ s.hd[g].body.open => s.app[v].ends = 0
                   /\ \A k \in Handlers : s.hd[k].upload = v => k = g
        BY <1>1, <1>3, <2>2 DEF Settled, Plain
      <3>2. \A g \in Handlers : z.hd[g].upload = v => z.hd[g] = s.hd[g]
        BY <1>3, <1>5, <2>2
      <3> QED BY <1>3, <2>2, <3>1, <3>2
    <2> QED BY <2>1, <2>2
  <1>13. Queued(z)
    BY <1>1, <1>3, <1>10 DEF Settled, Queued
  <1>14. ASSUME NEW g \in Handlers, NEW v \in Uploads, z.up[v].loop # None
         PROVE  Course(z, g, v)
    <2>1. CASE v # u
      <3>1. Course(s, g, v) /\ s.up[v].loop # None /\ z.up[v] = s.up[v]
        BY <1>1, <1>3, <1>14, <2>1 DEF Courses
      <3>2. \A l \in Loops : Lengthens(s.queue[l], z.queue[l])
        BY <1>1, <1>3, LengthensItself, StateFields
      <3>3. \A e \in Expectations : Meets(s, g, v, e) => Meets(z, g, v, e)
        BY <3>1 DEF Meets
      <3>4. \A e \in Expectations : Sends(s, g, v, e) => Sends(z, g, v, e)
        BY <1>3, <1>5, <2>1 DEF Sends
      <3> QED BY <1>1, <1>3, <3>1, <3>2, <3>3, <3>4, CourseKept
    <2>2. CASE v = u /\ g = h
      <3> DEFINE e == [pos |-> 0, whole |-> s.hd[h].body.whole]
      <3>1. e \in Expectations
        BY <1>9 DEF Expectations
      <3>2. Between(z, g, v) = <<>>
        BY <1>3, <1>4, <2>2 DEF Between
      <3>3. Path(Between(z, g, v), g, v, e, e)
        BY <3>1, <3>2, EmptyPath
      <3>4. Meets(z, g, v, e)
        BY <1>3, <1>4, <1>8, <2>2 DEF Meets
      <3>5. Sends(z, g, v, e)
        BY <1>3, <1>5, <2>2 DEF Sends
      <3> QED BY <3>1, <3>3, <3>4, <3>5 DEF Course
    <2>3. CASE v = u /\ g # h
      <3> DEFINE e == [pos |-> 0, whole |-> FALSE]
                 q == Between(z, g, v)
      <3>1. e \in Expectations
        BY DEF Expectations
      <3>2. q \in Seq(Tasks)
        BY <1>3, <1>14, BetweenIs
      <3>3. ASSUME NEW i \in 1..Len(q)
            PROVE  ~Feeds(q[i], g, v)
        <4>1. CASE HandlerLoop[g] = z.up[v].loop
          <5>1. q = <<>>
            BY <4>1 DEF Between
          <5> QED BY <3>3, <5>1
        <4>2. CASE HandlerLoop[g] # z.up[v].loop
          <5>1. q = s.queue[HandlerLoop[h]]
            BY <1>3, <1>4, <2>3, <4>2 DEF Between
          <5> QED BY <1>6, <1>10, <2>3, <3>3, <5>1 DEF Feeds, UploadOps
        <4> QED BY <4>1, <4>2
      <3>4. Path(q, g, v, e, e)
        <4> HIDE DEF e, q
        <4> QED BY <3>1, <3>2, <3>3, IdlePath
      <3>5. Meets(z, g, v, e)
        BY <1>3, <1>4, <2>3 DEF Meets
      <3>6. Sends(z, g, v, e)
        BY <1>3, <1>7, <2>3 DEF Sends
      <3> QED BY <3>1, <3>4, <3>5, <3>6 DEF Course
    <2> QED BY <2>1, <2>2, <2>3
  <1>15. OnCourse(z)
    BY <1>3, <1>11, <1>12, <1>13, <1>14 DEF OnCourse, Settled, Courses
  <1> QED BY <1>15 DEF z

-----------------------------------------------------------------------------
(* The actions.                                                            *)

\* An action that becomes t leads to t.
LEMMA BecomesOnCourse ==
  ASSUME NEW t, OnCourse(t), Become(t)
  PROVE  OnCourse(State')
  BY Becomes DEF OnCourse

\* What a body is made of.
LEMMA BodyFields ==
  ASSUME NEW pos, NEW left, NEW whole
  PROVE  Body(pos, left, whole).pos = pos /\ Body(pos, left, whole).whole = whole
  BY DEF Body

\* The first request of an upload.
LEMMA UploadCreationDelivers ==
  ASSUME DInv, NEW h \in Handlers, NEW u \in Uploads, NEW r \in UploadRequests,
         UploadCreation(h, u, r)
  PROVE  OnCourse(State')
  <1> DEFINE body == Body(0, r.length, r.complete)
             z == AfterHead(h, body)
             saved == SaveUploadLength(r.total, 0, r)
             n == saved.length
             c == r.complete
  <1>1. SendHead(h) /\ up[u].loop = None /\ r.offset = 0 /\ IInv
    BY DEF UploadCreation, DInv
  <1>2. body \in Bodies /\ body.open /\ body.pos = 0 /\ body.whole = c
    BY LengthsAre, RequestFields, BodyIs, BodyFields
  <1>3. n \in {Unknown, FileLength} /\ c \in BOOLEAN
    BY <1>1, RequestFields, SaveUploadLengthIs
  <1>4. PICK yes \in BOOLEAN : yes = TRUE
    OBVIOUS
  <1>5. Become(IF saved.ok THEN NewUpload(z, u, h, n, c, yes) ELSE Refuse(z, h))
    BY <1>4 DEF UploadCreation
  <1> HIDE DEF body
  <1>6. Sound(z) /\ z.hd[h].body = body /\ z.up[u].loop = None
    BY <1>1, <1>2, AfterHeadKeepsSound
  <1>7. OnCourse(z)
    BY <1>1, <1>2, AfterHeadDelivers
  <1> HIDE DEF z, saved, n, c
  <1>8. OnCourse(NewUpload(z, u, h, n, c, yes))
    BY <1>2, <1>3, <1>6, <1>7, NewUploadDelivers
  <1>9. OnCourse(Refuse(z, h))
    BY <1>7, RefuseDelivers
  <1> QED BY <1>5, <1>8, <1>9, BecomesOnCourse

\* A request that is not about resumable uploads.
LEMMA PlainRequestDelivers ==
  ASSUME DInv, NEW h \in Handlers, NEW u \in Uploads, NEW length \in Lengths,
         PlainRequest(h, u, length)
  PROVE  OnCourse(State')
  <1>1. PICK yes \in BOOLEAN, no \in BOOLEAN : yes = TRUE /\ no = FALSE
    OBVIOUS
  <1> DEFINE body == Body(0, length, no)
             z == AfterHead(h, body)
  <1>2. /\ SendHead(h) /\ up[u].loop = None /\ IInv
        /\ Become(NewUpload(z, u, h, Unknown, yes, no))
    BY <1>1 DEF PlainRequest, DInv
  <1>3. body \in Bodies /\ body.open /\ body.pos = 0
    BY LengthsAre, BodyIs, BodyFields
  <1> HIDE DEF body
  <1>4. Sound(z) /\ z.hd[h].body = body /\ z.up[u].loop = None
    BY <1>2, <1>3, AfterHeadKeepsSound
  <1>5. OnCourse(z)
    BY <1>2, <1>3, AfterHeadDelivers
  <1> HIDE DEF z
  <1>6. OnCourse(NewUpload(z, u, h, Unknown, yes, no))
    BY <1>1, <1>3, <1>4, <1>5, NewUploadDelivers
  <1> QED BY <1>2, <1>6, BecomesOnCourse

\* A handler that turns to an upload sends from where its request says.
LEMMA AppendingDelivers ==
  ASSUME NEW s, Sound(s), Timed(s), OnCourse(s), NEW h \in Handlers, NEW u \in Uploads,
         NEW r \in UploadRequests, s.up[u].loop # None, s.up[u].resumable, s.hd[h].body.open,
         s.hd[h].body.pos = r.offset, s.hd[h].body.whole = r.complete,
         OneLoop => s.hd[h].context /\ \A v \in Uploads : s.up[v].handler # h
  PROVE  OnCourse(WithUpload([s EXCEPT !.hd[h].upload = u], HandlerLoop[h],
                             [op |-> "append", u |-> u, h |-> h, request |-> r]))
  <1> DEFINE x == Owning(s.hd[h], u)
             y == PutHd(s, h, x)
             t == [op |-> "append", u |-> u, h |-> h, request |-> r]
             c == [pos |-> r.offset, whole |-> r.complete]
  <1>1. s \in States /\ Settled(s) /\ Courses(s) /\ s.hd[h] \in HandlerRecords
    BY StateFields DEF OnCourse
  <1>2. x \in HandlerRecords /\ [s EXCEPT !.hd[h].upload = u] = y
    <2>1. x \in HandlerRecords
      BY <1>1 DEF HandlerRecords, Owning
    <2>2. [s EXCEPT !.hd[h].upload = u] = y
      BY <1>1 DEF PutHd, States, Owning
    <2> QED BY <2>1, <2>2
  <1>3. x.upload = u /\ x.body = s.hd[h].body /\ x.context = s.hd[h].context
    BY <1>1 DEF HandlerRecords, Owning
  <1> HIDE DEF x
  <1>4. /\ y \in States
        /\ y.hd[h] = x
        /\ y.up = s.up /\ y.queue = s.queue
    BY <1>1, <1>2, PutHdIs
  <1>5. Settled(y)
    BY <1>1, <1>2, <1>3, HandlerKeepsSettled
  <1>6. Others(y, h, u)
    <2> SUFFICES ASSUME NEW g \in Handlers, NEW v \in Uploads, s.up[v].loop # None,
                        ~(g = h /\ v = u)
                 PROVE  Course(y, g, v)
      BY <1>4 DEF Others
    <2>1. Course(s, g, v)
      BY <1>1 DEF Courses
    <2> QED BY <1>1, <1>2, <1>3, <2>1, HandlerKeepsCourse
  <1>7. t \in UploadTasks /\ t.u = u /\ t.h = h /\ t.op = "append" /\ t.request = r
    BY DEF UploadTasks
  <1>8. c \in Expectations
    <2>1. r.offset \in Nat /\ r.complete \in BOOLEAN
      BY RequestFields, BoundAssumption
    <2> QED BY <2>1 DEF Expectations
  <1>9. c.pos = r.offset /\ c.whole = r.complete
    OBVIOUS
  <1> HIDE DEF y, t, c
  <1>10. Ready(y, t)
    BY <1>3, <1>4, <1>7 DEF Ready, Told
  <1>11. Continues(y, h, u, t)
    <2>1. PICK a \in Expectations, b \in Expectations :
            Meets(s, h, u, a) /\ Path(Between(s, h, u), h, u, a, b)
      BY <1>1 DEF Courses, Course
    <2>2. Between(y, h, u) = Between(s, h, u)
      BY <1>4 DEF Between
    <2>3. Meets(y, h, u, a)
      BY <1>4, <2>1 DEF Meets
    <2>4. Passes(t, h, u, b, c)
      BY <1>7, <1>9 DEF Passes, Feeds
    <2>5. Sends(y, h, u, c)
      BY <1>3, <1>4, <1>9 DEF Sends
    <2> QED BY <1>8, <2>1, <2>2, <2>3, <2>4, <2>5 DEF Continues
  <1>12. OnCourse(WithUpload(y, HandlerLoop[t.h], t))
    BY <1>3, <1>4, <1>5, <1>6, <1>7, <1>10, <1>11, TellDelivers
  <1> QED BY <1>2, <1>7, <1>12 DEF t

\* A request to append.
LEMMA AppendRequestDelivers ==
  ASSUME DInv, NEW h \in Handlers, NEW u \in Uploads, NEW r \in UploadRequests,
         AppendRequest(h, u, r)
  PROVE  OnCourse(State')
  <1> DEFINE body == Body(r.offset, r.length, r.complete)
             z == AfterHead(h, body)
             y == WithUpload([z EXCEPT !.hd[h].upload = u], HandlerLoop[h],
                             [op |-> "append", u |-> u, h |-> h, request |-> r])
  <1>1. /\ SendHead(h) /\ up[u].resumable /\ IInv
        /\ Become(IF u \in z.uploads THEN y ELSE Refuse(z, h))
    BY DEF AppendRequest, DInv, Announced
  <1>2. body \in Bodies /\ body.open /\ body.pos = r.offset /\ body.whole = r.complete
    BY RequestFields, BodyIs, BodyFields
  <1> HIDE DEF body
  <1>3. /\ Sound(z) /\ Timed(z) /\ z.hd[h].body = body /\ z.up[u].resumable
        /\ OneLoop => z.hd[h].context /\ \A v \in Uploads : z.up[v].handler # h
    BY <1>1, <1>2, AfterHeadKeepsSound
  <1>4. OnCourse(z)
    BY <1>1, <1>2, AfterHeadDelivers
  <1>5. z.up[u].loop # None
    BY <1>3 DEF Sound, Unused
  <1> HIDE DEF z
  <1>6. OnCourse(y)
    BY <1>2, <1>3, <1>4, <1>5, AppendingDelivers
  <1>7. OnCourse(Refuse(z, h))
    BY <1>4, RefuseDelivers
  <1> HIDE DEF y
  <1> QED BY <1>1, <1>6, <1>7, BecomesOnCourse

\* What a task leads to that asks nothing of what its handler sends.
LEMMA AskingDelivers ==
  ASSUME NEW s, OnCourse(s), NEW t, Told(s, t), t.op \in {"offset", "cancel"},
         s.up[t.u].resumable
  PROVE  OnCourse(WithUpload(s, HandlerLoop[t.h], t))
  <1>1. t.u \in Uploads /\ t.h \in Handlers /\ s.up[t.u].loop # None
    BY UploadTaskFields DEF Told
  <1>2. Ready(s, t)
    BY DEF Ready
  <1>3. Continues(s, t.h, t.u, t)
    <2>1. Course(s, t.h, t.u)
      BY <1>1 DEF OnCourse, Courses
    <2> QED BY <1>1, <2>1, StaysOnCourse
  <1>4. Others(s, t.h, t.u)
    BY CoursesOthers DEF OnCourse
  <1> QED BY <1>2, <1>3, <1>4, TellDelivers DEF OnCourse

\* A request for the offset.
LEMMA OffsetRequestDelivers ==
  ASSUME DInv, NEW h \in Handlers, NEW u \in Uploads, OffsetRequest(h, u)
  PROVE  OnCourse(State')
  <1>1. PICK no \in BOOLEAN : no = FALSE
    OBVIOUS
  <1> DEFINE body == Body(0, 0, no)
             z == AfterHead(h, body)
             x == Owning(z.hd[h], Spent)
             y == [z EXCEPT !.hd[h].upload = Spent]
             t == [op |-> "offset", u |-> u, h |-> h]
  <1>2. /\ SendHead(h) /\ up[u].resumable /\ IInv
        /\ Become(IF u \in z.uploads THEN WithUpload(y, HandlerLoop[h], t) ELSE Refuse(z, h))
    BY <1>1 DEF OffsetRequest, DInv, Announced
  <1>3. body \in Bodies /\ body.open
    BY LengthsAre, BodyIs
  <1> HIDE DEF body
  <1>4. /\ Sound(z) /\ Timed(z) /\ z.hd[h].body.open /\ z.up[u].resumable
        /\ OneLoop => \A v \in Uploads : z.up[v].handler # h
    BY <1>2, <1>3, AfterHeadKeepsSound
  <1>5. OnCourse(z)
    BY <1>2, <1>3, AfterHeadDelivers
  <1> HIDE DEF z
  <1>6. z.up[u].loop # None
    BY <1>4 DEF Sound, Unused
  <1>7. z \in States /\ z.hd[h] \in HandlerRecords
    BY <1>5, StateFields DEF OnCourse
  <1>8. /\ y = PutHd(z, h, x) /\ y.up = z.up
        /\ x \in HandlerRecords /\ x.upload = Spent
    <2>1. x \in HandlerRecords /\ x.upload = Spent
      BY <1>7 DEF HandlerRecords, Owning
    <2>2. y = PutHd(z, h, x) /\ y.up = z.up
      BY <1>7 DEF PutHd, States, Owning
    <2> QED BY <2>1, <2>2
  <1>9. OnCourse(y)
    <2>1. x.upload \notin Uploads
      BY <1>8, ValueAssumption
    <2> HIDE DEF x, y
    <2> QED BY <1>5, <1>8, <2>1, HandlerDelivers
  <1>10. t \in UploadTasks /\ t.u = u /\ t.h = h /\ t.op = "offset"
    BY DEF UploadTasks
  <1> HIDE DEF y, t
  <1>11. Told(y, t)
    BY <1>6, <1>8, <1>10 DEF Told
  <1>12. OnCourse(WithUpload(y, HandlerLoop[t.h], t))
    BY <1>4, <1>8, <1>9, <1>10, <1>11, AskingDelivers
  <1>13. OnCourse(Refuse(z, h))
    BY <1>5, RefuseDelivers
  <1> QED BY <1>2, <1>10, <1>12, <1>13, BecomesOnCourse

\* A cancellation.
LEMMA CancelRequestDelivers ==
  ASSUME DInv, NEW h \in Handlers, NEW u \in Uploads, CancelRequest(h, u)
  PROVE  OnCourse(State')
  <1>1. PICK no \in BOOLEAN : no = FALSE
    OBVIOUS
  <1> DEFINE body == Body(0, 0, no)
             z == AfterHead(h, body)
             t == [op |-> "cancel", u |-> u, h |-> h]
             y == WithUpload(z, HandlerLoop[h], t)
  <1>2. /\ SendHead(h) /\ up[u].resumable /\ IInv
        /\ Become(Refuse(IF u \in z.uploads THEN y ELSE z, h))
    BY <1>1 DEF CancelRequest, DInv, Announced
  <1>3. body \in Bodies /\ body.open
    BY LengthsAre, BodyIs
  <1> HIDE DEF body
  <1>4. Sound(z) /\ z.up[u].resumable
    BY <1>2, <1>3, AfterHeadKeepsSound
  <1>5. OnCourse(z)
    BY <1>2, <1>3, AfterHeadDelivers
  <1> HIDE DEF z
  <1>6. z.up[u].loop # None
    BY <1>4 DEF Sound, Unused
  <1>7. t \in UploadTasks /\ t.u = u /\ t.h = h /\ t.op = "cancel"
    BY DEF UploadTasks
  <1>8. OnCourse(y)
    <2> HIDE DEF t
    <2>1. Told(z, t)
      BY <1>6, <1>7 DEF Told
    <2>2. OnCourse(WithUpload(z, HandlerLoop[t.h], t))
      BY <1>4, <1>5, <1>7, <2>1, AskingDelivers
    <2> QED BY <1>7, <2>2
  <1> HIDE DEF y
  <1>9. OnCourse(Refuse(y, h)) /\ OnCourse(Refuse(z, h))
    BY <1>5, <1>8, RefuseDelivers
  <1> QED BY <1>2, <1>9, BecomesOnCourse

\* A request that cannot be identified.
LEMMA BadRequestDelivers ==
  ASSUME DInv, NEW h \in Handlers, BadRequest(h)
  PROVE  OnCourse(State')
  <1>1. PICK no \in BOOLEAN : no = FALSE
    OBVIOUS
  <1> DEFINE body == Body(0, Unknown, no)
  <1>2. SendHead(h) /\ Become(Refuse(AfterHead(h, body), h))
    BY <1>1 DEF BadRequest
  <1>3. body \in Bodies /\ body.open
    BY LengthsAre, BodyIs
  <1> HIDE DEF body
  <1>4. OnCourse(AfterHead(h, body))
    BY <1>2, <1>3, AfterHeadDelivers
  <1> QED BY <1>2, <1>4, RefuseDelivers, BecomesOnCourse

\* A body part is the byte that is expected behind all that was sent before.
LEMMA BodyPartDelivers ==
  ASSUME DInv, NEW h \in Handlers, BodyPart(h)
  PROVE  OnCourse(State')
  <1>1. PICK op \in {"body", "end", "gone"} : op = "body"
    OBVIOUS
  <1> DEFINE r == Advanced(hd[h])
             u == hd[h].upload
             s == PutHd(State, h, r)
             t == Telling(s, h, op)
  <1>2. /\ IInv /\ OnCourse(State) /\ State \in States /\ Settled(State) /\ Courses(State)
        /\ Sound(State) /\ Timed(State)
        /\ State.hd = hd /\ State.app = app /\ State.up = up
    BY DEF DInv, IInv, OnCourse, State
  <1>3. /\ hd[h] \in HandlerRecords
        /\ hd[h].body.open
        /\ hd[h].body.left # 0
        /\ hd[h].body.pos < FileLength
        /\ Become(TellUpload(s, h, op))
    BY <1>1, <1>2, BodyPartIs
  <1>4. hd[h].body.pos \in 0..FileLength
    BY <1>3 DEF HandlerRecords, Bodies
  <1>5. /\ r \in HandlerRecords
        /\ r.upload = u
        /\ r.context = hd[h].context
        /\ r.body.open
        /\ r.body.pos = hd[h].body.pos + 1
        /\ r.body.whole = hd[h].body.whole
    BY <1>3, AdvancedIs
  <1> HIDE DEF r
  <1>6. /\ s \in States /\ s.hd[h] = r
        /\ \A g \in Handlers \ {h} : s.hd[g] = hd[g]
        /\ s.up = up /\ s.app = app /\ s.queue = State.queue
    BY <1>2, <1>5, PutHdIs
  <1>7. CASE u \notin Uploads
    <2>1. OnCourse(s)
      BY <1>2, <1>5, <1>7, HandlerDelivers
    <2>2. TellUpload(s, h, op) = s
      BY <1>5, <1>6, <1>7 DEF TellUpload
    <2> QED BY <1>3, <2>1, <2>2, BecomesOnCourse
  <1>8. CASE u \in Uploads
    <2>1. t \in UploadTasks /\ t.op = "body" /\ t.u = u /\ t.h = h /\ t.pos = hd[h].body.pos
      BY <1>1, <1>4, <1>5, <1>6, <1>8 DEF Telling, UploadTasks
    <2>2. TellUpload(s, h, op) = WithUpload(s, HandlerLoop[t.h], t)
      BY <1>5, <1>6, <1>8 DEF TellUpload, Telling
    <2>3. Settled(s)
      BY <1>2, <1>3, <1>5, HandlerKeepsSettled
    <2> HIDE DEF t, s
    <2>4. up[u].loop # None
      BY <1>2, <1>8 DEF Sound, Unused
    <2>5. up[u].resumable \/ app[u].ends = 0
      BY <1>2, <1>3, <1>8, <2>4 DEF Settled, Plain
    <2>6. Ready(s, t)
      BY <1>3, <1>6, <2>1, <2>4, <2>5 DEF Ready, Told
    <2>7. Others(s, h, u)
      <3> SUFFICES ASSUME NEW g \in Handlers, NEW v \in Uploads, up[v].loop # None,
                          ~(g = h /\ v = u)
                   PROVE  Course(s, g, v)
        BY <1>6 DEF Others
      <3>1. Course(State, g, v)
        BY <1>2 DEF Courses
      <3> QED BY <1>2, <1>5, <3>1, HandlerKeepsCourse DEF s
    <2>8. Continues(s, h, u, t)
      <3>1. PICK a \in Expectations, b \in Expectations :
              /\ Meets(State, h, u, a)
              /\ Path(Between(State, h, u), h, u, a, b)
              /\ Sends(State, h, u, b)
        BY <1>2, <1>8, <2>4 DEF Courses, Course
      <3> DEFINE c == [pos |-> b.pos + 1, whole |-> b.whole]
      <3>2. c \in Expectations /\ c.pos = b.pos + 1 /\ c.whole = b.whole
        BY DEF Expectations
      <3>3. b.pos = hd[h].body.pos /\ (b.whole => hd[h].body.whole)
        BY <1>2, <1>3, <3>1 DEF Sends
      <3> HIDE DEF c
      <3>4. Meets(s, h, u, a) /\ Between(s, h, u) = Between(State, h, u)
        BY <1>2, <1>6, <3>1 DEF Meets, Between
      <3>5. Passes(t, h, u, b, c)
        BY <2>1, <3>2, <3>3 DEF Passes, Feeds
      <3>6. Sends(s, h, u, c)
        BY <1>5, <1>6, <3>2, <3>3 DEF Sends
      <3> QED BY <3>1, <3>2, <3>4, <3>5, <3>6 DEF Continues
    <2>9. OnCourse(WithUpload(s, HandlerLoop[t.h], t))
      BY <1>5, <1>6, <2>1, <2>3, <2>6, <2>7, <2>8, TellDelivers
    <2> QED BY <1>3, <2>2, <2>9, BecomesOnCourse DEF s
  <1> QED BY <1>7, <1>8

\* The end of a request comes where the body ends: at the end of the file, if it was to be.
LEMMA EndPartDelivers ==
  ASSUME DInv, NEW h \in Handlers, EndPart(h)
  PROVE  OnCourse(State')
  <1>1. PICK op \in {"body", "end", "gone"} : op = "end"
    OBVIOUS
  <1> DEFINE r == Finished(hd[h])
             u == hd[h].upload
             s == PutHd(State, h, r)
             t == Telling(s, h, op)
  <1>2. /\ IInv /\ OnCourse(State) /\ State \in States /\ Settled(State) /\ Courses(State)
        /\ Sound(State) /\ Timed(State)
        /\ State.hd = hd /\ State.app = app /\ State.up = up
    BY DEF DInv, IInv, OnCourse, State
  <1>3. /\ hd[h] \in HandlerRecords
        /\ hd[h].body.open
        /\ hd[h].body.whole => hd[h].body.pos = FileLength
        /\ Become(TellUpload(s, h, op))
        /\ r \in HandlerRecords
        /\ r.upload = u
        /\ r.context = hd[h].context
        /\ r.body = NoBody
    BY <1>1, <1>2, EndPartIs
  <1>4. hd[h].body.pos \in 0..FileLength
    BY <1>3 DEF HandlerRecords, Bodies
  <1>5. ~r.body.open
    BY <1>3 DEF NoBody
  <1> HIDE DEF r
  <1>6. /\ s \in States /\ s.hd[h] = r
        /\ \A g \in Handlers \ {h} : s.hd[g] = hd[g]
        /\ s.up = up /\ s.app = app /\ s.queue = State.queue
    BY <1>2, <1>3, PutHdIs
  <1>7. OnCourse(s)
    BY <1>2, <1>3, <1>5, HandlerDelivers
  <1>8. CASE u \notin Uploads
    <2>1. TellUpload(s, h, op) = s
      BY <1>3, <1>6, <1>8 DEF TellUpload
    <2> QED BY <1>3, <1>7, <2>1, BecomesOnCourse
  <1>9. CASE u \in Uploads
    <2>1. t \in UploadTasks /\ t.op = "end" /\ t.u = u /\ t.h = h /\ t.pos = hd[h].body.pos
      BY <1>1, <1>3, <1>4, <1>6, <1>9 DEF Telling, UploadTasks
    <2>2. TellUpload(s, h, op) = WithUpload(s, HandlerLoop[t.h], t)
      BY <1>3, <1>6, <1>9 DEF TellUpload, Telling
    <2> HIDE DEF t, s
    <2>3. up[u].loop # None
      BY <1>2, <1>9 DEF Sound, Unused
    <2>4. up[u].resumable \/ \A g \in Handlers : s.hd[g].upload = u => ~s.hd[g].body.open
      <3> SUFFICES ASSUME ~up[u].resumable, NEW g \in Handlers, s.hd[g].upload = u
                   PROVE  ~s.hd[g].body.open
        OBVIOUS
      <3>1. g = h
        BY <1>2, <1>6, <1>9, <2>3 DEF Settled, Plain
      <3> QED BY <1>5, <1>6, <3>1
    <2>5. Ready(s, t)
      BY <1>6, <2>1, <2>3, <2>4 DEF Ready, Told
    <2>6. Continues(s, h, u, t)
      <3>1. PICK a \in Expectations, b \in Expectations :
              /\ Meets(State, h, u, a)
              /\ Path(Between(State, h, u), h, u, a, b)
              /\ Sends(State, h, u, b)
        BY <1>2, <1>9, <2>3 DEF Courses, Course
      <3>2. b.pos = hd[h].body.pos /\ (b.whole => hd[h].body.pos = FileLength)
        BY <1>2, <1>3, <3>1 DEF Sends
      <3>3. Meets(s, h, u, a) /\ Between(s, h, u) = Between(State, h, u)
        BY <1>2, <1>6, <3>1 DEF Meets, Between
      <3>4. Passes(t, h, u, b, b)
        BY <2>1, <3>2 DEF Passes, Feeds
      <3>5. Sends(s, h, u, b)
        BY <1>5, <1>6 DEF Sends
      <3> QED BY <3>1, <3>3, <3>4, <3>5 DEF Continues
    <2>7. Others(s, h, u) /\ Settled(s)
      BY <1>7, CoursesOthers DEF OnCourse
    <2>8. OnCourse(WithUpload(s, HandlerLoop[t.h], t))
      BY <1>3, <1>6, <2>1, <2>5, <2>6, <2>7, TellDelivers
    <2> QED BY <1>3, <2>2, <2>8, BecomesOnCourse DEF s
  <1> QED BY <1>8, <1>9

\* A connection that fails, is lost or is closed sends nothing more than it did.
LEMMA GoingDelivers ==
  ASSUME DInv, NEW h \in Handlers, NEW r \in HandlerRecords,
         r.upload = hd[h].upload, r.context = hd[h].context,
         BetweenRequests(r) => BetweenRequests(hd[h]),
         ~r.body.open \/ r.body = hd[h].body,
         Become(TellUpload(PutHd(State, h, r), h, "gone")) \/ Become(PutHd(State, h, r))
  PROVE  OnCourse(State')
  <1> DEFINE s == PutHd(State, h, r)
  <1>1. /\ OnCourse(State) /\ Sound(State) /\ Timed(State) /\ State \in States
        /\ State.hd = hd /\ State.up = up
    BY DEF DInv, IInv, OnCourse, State
  <1>2. hd[h].body.pos \in 0..FileLength
    BY <1>1, StateFields DEF HandlerRecords, Bodies
  <1>3. OnCourse(s)
    BY <1>1, HandlerDelivers
  <1>4. Sound(s)
    <2>1. \A u \in Uploads : r.upload = u => State.up[u].loop # None
      BY <1>1 DEF Sound, Unused
    <2>2. BetweenRequests(r) => r.upload \notin Uploads /\ (OneLoop => r.context)
      BY <1>1 DEF Sound, Idle, Together
    <2>3. OneLoop => \A u \in Uploads : State.up[u].handler = h => r.upload = u /\ r.context
      BY <1>1 DEF Sound, Together
    <2> QED BY <1>1, <2>1, <2>2, <2>3, HandlerKeepsSound
  <1> HIDE DEF s
  <1>5. OnCourse(TellUpload(s, h, "gone"))
    BY <1>2, <1>3, <1>4, GoneDelivers
  <1> QED BY <1>3, <1>5, BecomesOnCourse DEF s

\* An error on a connection.
LEMMA ErrorCaughtDelivers ==
  ASSUME DInv, NEW h \in Handlers, ErrorCaught(h)
  PROVE  OnCourse(State')
  <1>1. PICK conn \in {"open", "closing"} :
          Become(TellUpload([State EXCEPT !.hd[h].conn = conn], h, "gone"))
    BY DEF ErrorCaught
  <1> DEFINE r == Conn(hd[h], conn)
  <1>2. hd[h].conn = "open"
    BY DEF ErrorCaught
  <1>3. /\ [State EXCEPT !.hd[h].conn = conn] = PutHd(State, h, r)
        /\ r \in HandlerRecords
        /\ r.upload = hd[h].upload
        /\ r.context = hd[h].context
        /\ r.body = hd[h].body
        /\ r.shouldReset = hd[h].shouldReset
    <2>1. conn \in {"open", "closing", "closed"} /\ State \in States
      BY DEF DInv, IInv, Sound
    <2> QED BY <2>1, ConnIs
  <1> HIDE DEF r
  <1>4. BetweenRequests(r) => BetweenRequests(hd[h])
    BY <1>2, <1>3 DEF BetweenRequests
  <1> QED BY <1>1, <1>3, <1>4, GoingDelivers

\* A connection that is lost.
LEMMA ConnectionLostDelivers ==
  ASSUME DInv, NEW h \in Handlers, ConnectionLost(h)
  PROVE  OnCourse(State')
  <1> DEFINE r == Conn(hd[h], "closing")
  <1>1. Become([State EXCEPT !.hd[h].conn = "closing"])
    BY DEF ConnectionLost
  <1>2. /\ [State EXCEPT !.hd[h].conn = "closing"] = PutHd(State, h, r)
        /\ r \in HandlerRecords
        /\ r.upload = hd[h].upload
        /\ r.context = hd[h].context
        /\ r.body = hd[h].body
        /\ r.conn = "closing"
    BY ConnIs DEF DInv, IInv, Sound
  <1> HIDE DEF r
  <1>3. ~BetweenRequests(r)
    BY <1>2 DEF BetweenRequests
  <1> QED BY <1>1, <1>2, <1>3, GoingDelivers

\* A connection that is closed.
LEMMA ChannelInactiveDelivers ==
  ASSUME DInv, NEW h \in Handlers, ChannelInactive(h)
  PROVE  OnCourse(State')
  <1> DEFINE r == Shut(hd[h])
  <1>1. /\ Become(TellUpload(PutHd(State, h, r), h, "gone"))
        /\ r \in HandlerRecords
        /\ r.upload = hd[h].upload
        /\ r.context = hd[h].context
        /\ r.body = NoBody
        /\ r.conn = "closed"
    BY ChannelInactiveIs DEF DInv
  <1>2. ~r.body.open
    BY <1>1 DEF NoBody
  <1> HIDE DEF r
  <1>3. ~BetweenRequests(r)
    BY <1>1 DEF BetweenRequests
  <1> QED BY <1>1, <1>2, <1>3, GoingDelivers

\* Task t is the next step of what leads from u to h, if it is one at all.
Steps(s, t, h, u) ==
  \E a, b, c \in Expectations :
    /\ Meets(s, h, u, a)
    /\ Passes(t, h, u, a, b)
    /\ Path(Between(s, h, u), h, u, b, c)
    /\ Sends(s, h, u, c)

\* The first task of a loop comes next, and the loop has what it had behind it.
LEMMA DequeueDelivers ==
  ASSUME DInv, NEW l \in Loops, queue[l] # <<>>
  PROVE  LET t == Head(queue[l])
             s == PutQueue(State, l, Tail(queue[l])) IN
         /\ s \in States
         /\ Settled(s)
         /\ t \in UploadTasks => Ready(s, t)
         /\ \A h \in Handlers, u \in Uploads : s.up[u].loop # None => Steps(s, t, h, u)
  <1> DEFINE q == queue[l]
             t == Head(q)
             s == PutQueue(State, l, Tail(q))
  <1>1. /\ IInv /\ Settled(State) /\ Courses(State) /\ State \in States /\ Sound(State)
        /\ State.hd = hd /\ State.up = up /\ State.app = app /\ State.uploads = uploads
        /\ State.queue = queue
    BY DEF DInv, IInv, OnCourse, State
  <1>2. q \in Seq(Tasks)
    BY <1>1, StateFields
  <1>3. /\ ~OneLoop
        /\ t \in Tasks
        /\ t = q[1]
        /\ 1 \in 1..Len(q)
        /\ Tail(q) \in Seq(Tasks)
        /\ \A i \in 1..Len(Tail(q)) : Tail(q)[i] = q[i + 1] /\ i + 1 \in 1..Len(q)
    <2>1. State.queue[l] = q /\ State.queue[l] # <<>>
      BY <1>1
    <2> HIDE DEF q
    <2>2. ~OneLoop /\ t \in Tasks /\ t = q[1] /\ 1 \in 1..Len(q) /\ Tail(q) \in Seq(Tasks)
      BY <1>1, <2>1, DequeueIs
    <2>3. \A i \in 1..Len(Tail(q)) : Tail(q)[i] = q[i + 1] /\ i + 1 \in 1..Len(q)
      BY <1>1, <2>1, DequeueIs
    <2> QED BY <2>2, <2>3
  <1>4. /\ s \in States
        /\ s.queue[l] = Tail(q)
        /\ \A m \in Loops \ {l} : s.queue[m] = queue[m]
        /\ s.hd = hd /\ s.up = up /\ s.app = app /\ s.uploads = uploads
    BY <1>1, <1>3, PutQueueIs
  <1> HIDE DEF s
  <1>5. Shows(s) /\ Plain(s)
    BY <1>1, <1>4 DEF Settled, Shows, ShowsAt, Plain
  <1>6. Queued(s)
    <2> SUFFICES ASSUME NEW m \in Loops, NEW i \in 1..Len(s.queue[m]),
                        s.queue[m][i].op \in UploadOps
                 PROVE  /\ up[s.queue[m][i].u].resumable
                        /\ s.queue[m][i].op = "body" => s.queue[m][i].pos < FileLength
      BY <1>4 DEF Queued
    <2>1. CASE m # l
      BY <1>1, <1>4, <2>1 DEF Settled, Queued
    <2>2. CASE m = l
      <3>1. i + 1 \in 1..Len(q) /\ s.queue[m][i] = q[i + 1]
        BY <1>3, <1>4, <2>2
      <3> QED BY <1>1, <3>1 DEF Settled, Queued
    <2> QED BY <2>1, <2>2
  <1>7. t.op \in UploadOps =>
          /\ up[t.u].loop = l
          /\ HandlerLoop[t.h] # l
          /\ up[t.u].resumable
          /\ t.op = "body" => t.pos < FileLength
    <2> HIDE DEF t
    <2> QED BY <1>1, <1>3 DEF Sound, Placed, Settled, Queued
  <1>8. ASSUME t \in UploadTasks
        PROVE  Ready(s, t)
    <2>1. t.op \in UploadOps
      BY <1>8, UploadTaskFields
    <2>2. l # None
      BY ValueAssumption
    <2> HIDE DEF t
    <2> QED BY <1>3, <1>4, <1>7, <1>8, <2>1, <2>2 DEF Ready, Told
  <1>9. ASSUME NEW h \in Handlers, NEW u \in Uploads, s.up[u].loop # None
        PROVE  Steps(s, t, h, u)
    <2>1. PICK a \in Expectations, c \in Expectations :
            /\ Meets(State, h, u, a)
            /\ Path(Between(State, h, u), h, u, a, c)
            /\ Sends(State, h, u, c)
      BY <1>1, <1>4, <1>9 DEF Courses, Course
    <2>2. Meets(s, h, u, a) /\ Sends(s, h, u, c)
      BY <1>1, <1>4, <2>1 DEF Meets, Sends
    <2>3. up[u].loop \in Loops
      BY <1>1, <1>4, <1>9, BetweenIs
    <2>4. CASE up[u].loop = l /\ HandlerLoop[h] # l
      <3>1. Between(State, h, u) = q /\ Between(s, h, u) = Tail(q)
        BY <1>1, <1>4, <2>4 DEF Between
      <3>2. \E b \in Expectations :
              Passes(Head(q), h, u, a, b) /\ Path(Tail(q), h, u, b, c)
        <4>1. q # <<>> /\ Path(q, h, u, a, c)
          BY <2>1, <3>1
        <4> HIDE DEF q
        <4> QED BY <1>2, <4>1, ShorterPath
      <3> QED BY <2>2, <3>1, <3>2 DEF Steps
    <2>5. CASE ~(up[u].loop = l /\ HandlerLoop[h] # l)
      <3>1. Between(s, h, u) = Between(State, h, u)
        BY <1>1, <1>4, <2>3, <2>5 DEF Between
      <3>2. Passes(t, h, u, a, a)
        <4>1. ~Feeds(t, h, u)
          BY <1>7, <2>5 DEF Feeds, UploadOps
        <4> QED BY <4>1 DEF Passes
      <3> QED BY <2>1, <2>2, <3>1, <3>2 DEF Steps
    <2> QED BY <2>4, <2>5
  <1>10. Settled(s)
    BY <1>5, <1>6 DEF Settled
  <1> QED BY <1>4, <1>8, <1>9, <1>10 DEF s

\* A task of a loop.
LEMMA RunTaskDelivers ==
  ASSUME DInv, NEW l \in Loops, RunTask(l)
  PROVE  OnCourse(State')
  <1> DEFINE t == Head(queue[l])
             s == PutQueue(State, l, Tail(queue[l]))
  <1>1. /\ queue[l] # <<>>
        /\ \/ t \in HandlerTasks /\ Become(HandlerTask(s, t))
           \/ t \in UploadTasks /\ Become(UploadTask(s, t))
    BY RunTaskIs DEF DInv
  <1>2. /\ s \in States
        /\ Settled(s)
        /\ t \in UploadTasks => Ready(s, t)
        /\ \A h \in Handlers, u \in Uploads : s.up[u].loop # None => Steps(s, t, h, u)
    BY <1>1, DequeueDelivers
  <1> HIDE DEF s, t
  <1>3. ASSUME NEW z, Settled(z), Turns(s, z), Carries(s, t, z)
        PROVE  OnCourse(z)
    <2>1. z \in States
      BY <1>3 DEF Turns
    <2>2. ASSUME NEW h \in Handlers, NEW u \in Uploads, z.up[u].loop # None
          PROVE  Course(z, h, u)
      <3>1. z.up[u].loop = s.up[u].loop
        BY <1>3 DEF Turns
      <3>2. PICK a \in Expectations, b \in Expectations, c \in Expectations :
              /\ Meets(s, h, u, a)
              /\ Passes(t, h, u, a, b)
              /\ Path(Between(s, h, u), h, u, b, c)
              /\ Sends(s, h, u, c)
        BY <1>2, <2>2, <3>1 DEF Steps
      <3>3. Meets(z, h, u, b)
        BY <1>3, <3>2 DEF Carries
      <3>4. Sends(z, h, u, c)
        BY <1>3, <3>2 DEF Turns, Sends
      <3>5. /\ Between(s, h, u) \in Seq(Tasks)
            /\ Between(z, h, u) \in Seq(Tasks)
            /\ s.up[u].loop \in Loops
        BY <1>2, <2>1, <2>2, <3>1, BetweenIs
      <3>6. Lengthens(Between(s, h, u), Between(z, h, u))
        <4>1. CASE HandlerLoop[h] = s.up[u].loop
          <5>1. Between(s, h, u) = Between(z, h, u)
            BY <3>1, <4>1 DEF Between
          <5> QED BY <3>5, <5>1, LengthensItself
        <4>2. CASE HandlerLoop[h] # s.up[u].loop
          BY <1>3, <3>1, <3>5, <4>2 DEF Between, Turns
        <4> QED BY <4>1, <4>2
      <3>7. Path(Between(z, h, u), h, u, b, c)
        BY <3>2, <3>5, <3>6, LongerPath
      <3> QED BY <3>3, <3>4, <3>7 DEF Course
    <2> QED BY <1>3, <2>1, <2>2 DEF OnCourse, Courses
  <1>4. CASE t \in HandlerTasks /\ Become(HandlerTask(s, t))
    <2> DEFINE z == HandlerTask(s, t)
    <2>1. t.h \in Handlers /\ t.op \notin UploadOps
      BY <1>4 DEF HandlerTasks, UploadOps
    <2>2. /\ z \in States
          /\ z.up = s.up /\ z.app = s.app /\ z.uploads = s.uploads /\ z.queue = s.queue
          /\ \A g \in Handlers \ {t.h} : z.hd[g] = s.hd[g]
          /\ z.hd[t.h].upload = s.hd[t.h].upload
          /\ z.hd[t.h].body = s.hd[t.h].body
      BY <1>2, <1>4, HandlerTaskIs
    <2> HIDE DEF z
    <2>3. \A g \in Handlers : z.hd[g].upload = s.hd[g].upload /\ z.hd[g].body = s.hd[g].body
      BY <2>1, <2>2
    <2>4. \A m \in Loops : Lengthens(s.queue[m], z.queue[m])
      BY <1>2, <2>2, LengthensItself, StateFields
    <2>5. Turns(s, z)
      BY <2>2, <2>3, <2>4 DEF Turns
    <2>6. Settled(z)
      BY <1>2, <2>2, <2>3 DEF Settled, Shows, ShowsAt, Plain, Queued
    <2>7. Carries(s, t, z)
      BY <2>1, <2>2 DEF Carries, Passes, Feeds, Meets, UploadOps
    <2>8. OnCourse(z)
      BY <1>3, <2>5, <2>6, <2>7
    <2> QED BY <1>4, <2>8, BecomesOnCourse DEF z
  <1>5. CASE t \in UploadTasks /\ Become(UploadTask(s, t))
    <2> DEFINE z == UploadTask(s, t)
    <2>1. t.u \in Uploads /\ t.h \in Handlers /\ Ready(s, t) /\ s.up[t.u].loop # None
      BY <1>2, <1>5, UploadTaskFields DEF Ready, Told
    <2>2. \E a, b \in Expectations : Meets(s, t.h, t.u, a) /\ Passes(t, t.h, t.u, a, b)
      BY <1>2, <2>1 DEF Steps
    <2>3. Delivers(s, t, z)
      BY <1>2, <2>1, <2>2, UploadTaskDelivers
    <2> HIDE DEF z
    <2>4. OnCourse(z)
      BY <1>3, <2>3 DEF Delivers
    <2> QED BY <1>5, <2>4, BecomesOnCourse DEF z
  <1> QED BY <1>1, <1>4, <1>5

-----------------------------------------------------------------------------
(* The theorems.                                                           *)

\* Init satisfies the invariant: nothing is expected, shown or sent.
LEMMA InitDelivers == Init => DInv
  <1> SUFFICES ASSUME Init PROVE DInv
    OBVIOUS
  <1>1. IInv
    BY InitSatisfies
  <1>2. /\ State \in States
        /\ State.hd = hd /\ State.up = up /\ State.app = app /\ State.queue = queue
    BY <1>1 DEF IInv, Sound, State
  <1>3. ASSUME NEW u \in Uploads
        PROVE  /\ up[u].loop = None /\ ~up[u].channel /\ up[u].offset = 0
               /\ app[u].received = 0 /\ app[u].ordered /\ app[u].ends = 0
    BY DEF Init
  <1>4. Shows(State) /\ Plain(State)
    BY <1>2, <1>3 DEF Shows, ShowsAt, Plain
  <1>5. Queued(State)
    <2>1. \A l \in Loops : queue[l] = <<>>
      BY DEF Init
    <2> QED BY <1>2, <2>1 DEF Queued
  <1>6. Courses(State)
    BY <1>2, <1>3 DEF Courses
  <1> QED BY <1>1, <1>2, <1>4, <1>5, <1>6 DEF DInv, OnCourse, Settled

\* Every step leaves everyone on course.
LEMMA NextDelivers ==
  ASSUME DInv, [Next]_vars
  PROVE  DInv'
  <1>1. IInv'
    BY NextKeeps DEF DInv
  <1>2. ASSUME NEW h \in Handlers, ClientStep(h)
        PROVE  OnCourse(State')
    BY <1>2, UploadCreationDelivers, AppendRequestDelivers, PlainRequestDelivers,
       OffsetRequestDelivers, CancelRequestDelivers, BadRequestDelivers, BodyPartDelivers,
       EndPartDelivers, ErrorCaughtDelivers, ConnectionLostDelivers, ChannelInactiveDelivers
       DEF ClientStep
  <1>3. ASSUME NEW u \in Uploads, UploadStep(u)
        PROVE  OnCourse(State')
    <2>1. PICK t : Retreats(State, t, u) /\ Become(t)
      BY <1>3, UploadStepRetreats DEF DInv
    <2>2. OnCourse(t)
      BY <2>1, RetreatKeepsSettled, RetreatKeepsCourses DEF DInv, OnCourse, Retreats
    <2> QED BY <2>1, <2>2, BecomesOnCourse
  <1>4. ASSUME NEW l \in Loops, RunTask(l)
        PROVE  OnCourse(State')
    BY <1>4, RunTaskDelivers
  <1>5. ASSUME UNCHANGED vars
        PROVE  OnCourse(State')
    <2>1. State' = State
      BY <1>5 DEF vars, State
    <2> QED BY <2>1 DEF DInv
  <1>6. OnCourse(State')
    BY <1>2, <1>3, <1>4, <1>5 DEF Next
  <1> QED BY <1>1, <1>6 DEF DInv

\* The invariant holds in every behaviour, for any connections, uploads and event loops.
THEOREM DInvAlways == Spec => []DInv
  <1>1. Init => DInv
    BY InitDelivers
  <1>2. DInv /\ [Next]_vars => DInv'
    BY NextDelivers
  <1> QED BY <1>1, <1>2, PTL DEF Spec

\* However a client brings its file, and over however many connections and event loops, the
\* application sees it byte by byte, in order, and its end only behind the whole of it.
THEOREM FileDeliveredAlways == Spec => []FileDelivered
  <1>1. DInv => FileDelivered
    BY DEF DInv, OnCourse, Settled, Shows, ShowsAt, State, FileDelivered, DeliveredInOrder,
           EndMeansWholeFile
  <1> QED BY <1>1, DInvAlways, PTL
=============================================================================
