-------------------------- MODULE TaskBridge_proofs --------------------------
(***************************************************************************)
(* What the task bridge keeps for every number of tasks and jobs, every    *)
(* nesting depth and every guest program: the task tree, the accounting of *)
(* the shared job pool, and the order of input through a filter.           *)
(***************************************************************************)
EXTENDS TaskBridge, Induction, SequenceTheorems

-----------------------------------------------------------------------------
(* The inductive invariant *)

Fields == {"state", "kind", "parent", "num", "stack", "active", "filter",
    "wait", "target", "wnum", "due", "kill", "ending", "cb", "started",
    "susp", "idle", "await"}
JobFields == {"kind", "code", "master", "flags", "arg", "by"}
TreeFailures == {"task ended before its children", "guest task parent vanished"}

\* The frames a host or guest function can leave on a stack: one that asks for
\* an exit names a task that may exit, a job body and a reserved job are jobs.
Frames ==
    {fr \in [op : FrameOps, on : Tasks \cup Jobs \cup {None}, flag : BOOLEAN,
             num : Nat] :
        /\ fr.op = "exit" => fr.on \in Tasks \ {Root}
        /\ fr.op = "body" => fr.on \in Jobs
        /\ fr.op = "text" => fr.num \in Jobs}

FiberType(f) ==
    /\ DOMAIN f = Fields
    /\ f.state \in {"unused", "run", "done"}
    /\ f.parent \in Tasks \cup {None}
    /\ f.filter \in Tasks \cup {None}
    /\ f.target \in Tasks \cup Jobs \cup {None}
    /\ f.num \in Nat
    /\ f.cb \in BOOLEAN
    /\ f.idle \in BOOLEAN
    /\ f.stack \in Seq(Frames)
    /\ f.active \in Seq(Jobs)

JobType(r) ==
    /\ DOMAIN r = JobFields
    /\ r.kind \in {"exe", "call", "spawn", "msg", "text"}
    /\ r.master \in Tasks \cup {None}
    /\ r.by \in Tasks \cup {None}
    /\ r.arg \in Int

Types ==
    /\ DOMAIN fiber = Tasks
    /\ \A t \in Tasks : FiberType(fiber[t])
    /\ queue \in [Tasks -> Seq(Jobs)]
    /\ done \in [Tasks -> Seq(Jobs)]
    /\ DOMAIN job = Jobs
    /\ \A j \in Jobs : job[j] = NoJob \/ JobType(job[j])
    /\ current \in Tasks
    /\ serial \in Nat
    /\ guest \in Guests
    /\ calls \in 0 .. guest.calls

\* The functions a fiber starts in or falls back to: they are at the bottom of
\* its stack and nowhere else, so whatever else returns, returns to something.
Bottom == {"start", "entry", "loop", "idle", "filter", "teardown"}

\* The frames of one operation, innermost first.
Having(s, op) == Only(s, {fr \in Frames : fr.op = op})

\* The job bodies on a stack are the jobs last dispatched; what a task leaves
\* when it ends in the middle of them stays listed as active below.
Stacked(t, s, act) ==
    /\ s \in Seq(Frames)
    /\ s # <<>>
    /\ \A k \in DOMAIN s : s[k].op \in Bottom <=> k = Len(s)
    /\ t = Root => s[Len(s)].op = "entry"
    /\ s[Len(s)].op = "filter" => fiber[t].kind = "filter"
    /\ \A k \in DOMAIN Having(s, "body") :
          k \in DOMAIN act /\ act[k] = Having(s, "body")[k].on

Stacks ==
    /\ \A t \in Tasks :
         IF Live(t) THEN Stacked(t, fiber[t].stack, fiber[t].active)
         ELSE fiber[t].stack = <<>> /\ fiber[t].active = <<>>
    /\ fiber[Root].kill = FALSE

\* Every live task hangs below the root.
Tree ==
    /\ Live(Root)
    /\ \A t \in Tasks \ {Root} :
         Live(t) => Live(fiber[t].parent) /\ fiber[t].parent # t

\* An input filter and its server know each other, and filters do not nest.
Filters ==
    \A t \in Tasks : Live(t) =>
      IF fiber[t].kind = "filter"
      THEN /\ t \in 1 .. AppTasks - 1
           /\ fiber[t].filter = fiber[t].parent
           /\ fiber[fiber[t].parent].filter = t
           /\ fiber[fiber[t].parent].kind # "filter"
      ELSE fiber[t].filter # t =>
             /\ Live(fiber[t].filter)
             /\ fiber[fiber[t].filter].kind = "filter"
             /\ fiber[fiber[t].filter].parent = t

\* The lists of a task that can hold a job.
ListKinds == {"queue", "done", "active"}
Held(t, w) == IF w = "queue" THEN queue[t]
              ELSE IF w = "done" THEN done[t] ELSE fiber[t].active
InList(j, s) == \E k \in DOMAIN s : s[k] = j
In(j, t, w) == InList(j, Held(t, w))
Distinct(s) == \A k, l \in DOMAIN s : s[k] = s[l] => k = l

\* A job is at one position of one list, and is in the pool.
OnePlace ==
    /\ \A t \in Tasks, w \in ListKinds : Distinct(Held(t, w))
    /\ \A j \in Jobs, t, u \in Tasks, w, v \in ListKinds :
          In(j, t, w) /\ In(j, u, v) => t = u /\ w = v
Pooled ==
    /\ \A j \in Jobs, t \in Tasks, w \in ListKinds : In(j, t, w) =>
         /\ Live(t) /\ job[j] # NoJob
         /\ w = "done" <=> "done" \in job[j].flags
         /\ w = "active" => job[j].kind # "msg"
         /\ t = Root /\ w # "done" => "exit" \notin job[j].flags
    /\ \A j \in Jobs : job[j] # NoJob =>
         \/ job[j].kind = "text"
         \/ \E t \in Tasks, w \in ListKinds : In(j, t, w)
    /\ \A j \in Jobs : job[j].kind = "msg" =>
         job[j].flags = {} /\ job[j].arg \in 0 .. calls - 1

\* The text jobs that running calls of TaskText have reserved are in no list.
OneEach(texts) == \A k, l \in DOMAIN texts : texts[k].num = texts[l].num => k = l
Names(texts, j) == \E k \in DOMAIN texts : texts[k].num = j
Reserved ==
    \A t \in Tasks :
      /\ OneEach(Having(fiber[t].stack, "text"))
      /\ \A j \in Jobs : Names(Having(fiber[t].stack, "text"), j) =>
           /\ job[j].kind = "text" /\ job[j].by = t /\ job[j].flags = {}
           /\ \A u \in Tasks, w \in ListKinds : ~In(j, u, w)

\* Messages are queued in the order of the calls that posted them, and what a
\* server has is older than what its filter has.
Older(pool, i, j) ==
    pool[i].kind = "msg" /\ pool[j].kind = "msg" => pool[i].arg < pool[j].arg
Sorted(pool, q) == \A k, l \in DOMAIN q : k < l => Older(pool, q[k], q[l])
InOrder ==
    /\ \A t \in Tasks : Sorted(job, queue[t])
    /\ \A t \in Tasks, i, j \in Jobs :
         /\ Live(t) /\ fiber[t].kind = "filter"
         /\ In(i, fiber[t].parent, "queue") /\ In(j, t, "queue")
         => Older(job, i, j)

IInv ==
    /\ Types
    /\ Stacks
    /\ Tree
    /\ fail \notin TreeFailures
    /\ Filters
    /\ OnePlace
    /\ Pooled
    /\ Reserved
    /\ InOrder

-----------------------------------------------------------------------------
(* More about what Only picks *)

\* The first element is picked or passed over.
LEMMA OnlyCons ==
    ASSUME NEW A, NEW s \in Seq(A), NEW e \in A, NEW S
    PROVE  Only(<<e>> \o s, S) = IF e \in S THEN <<e>> \o Only(s, S) ELSE Only(s, S)
<1> DEFINE z == <<e>> \o s
<1>0. PICK pre \in Seq(A) : pre = IF e \in S THEN <<e>> ELSE <<>>
  <2>1. (IF e \in S THEN <<e>> ELSE <<>>) \in Seq(A)
    OBVIOUS
  <2> QED
    BY <2>1
<1>1. z \in Seq(A) /\ Len(z) = Len(s) + 1 /\ z[1] = e /\ Len(s) \in Nat
  OBVIOUS
<1>2. \A n \in 1 .. Len(s) : z[n + 1] = s[n]
  OBVIOUS
<1> HIDE DEF z
<1>3. PICK f : /\ Only(s, S) = f[Len(s)]
               /\ f[0] = <<>>
               /\ \A n \in 1 .. Len(s) :
                    f[n] = IF s[n] \in S THEN Append(f[n - 1], s[n]) ELSE f[n - 1]
  BY OnlyIsPick
<1>4. PICK g : /\ Only(z, S) = g[Len(z)]
               /\ g[0] = <<>>
               /\ \A n \in 1 .. Len(z) :
                    g[n] = IF z[n] \in S THEN Append(g[n - 1], z[n]) ELSE g[n - 1]
  BY <1>1, OnlyIsPick
<1> DEFINE D == {n \in Nat : n <= Len(s) => f[n] \in Seq(A) /\ g[n + 1] = pre \o f[n]}
<1>5. 0 \in D
  <2>1. g[1] = IF e \in S THEN Append(<<>>, e) ELSE <<>>
    <3>1. 1 \in 1 .. Len(z) /\ 1 - 1 = 0
      BY <1>1
    <3> QED
      BY <1>1, <1>4, <3>1
  <2>2. pre \o <<>> = pre /\ Append(<<>>, e) = <<e>>
    OBVIOUS
  <2>3. f[0] \in Seq(A) /\ g[0 + 1] = pre \o f[0]
    BY <1>0, <1>3, <2>1, <2>2
  <2> QED
    BY <2>3
<1>6. ASSUME NEW n \in Nat, n \in D PROVE n + 1 \in D
  <2> SUFFICES ASSUME n + 1 <= Len(s)
               PROVE  f[n + 1] \in Seq(A) /\ g[n + 1 + 1] = pre \o f[n + 1]
    OBVIOUS
  <2>1. f[n] \in Seq(A) /\ g[n + 1] = pre \o f[n]
    BY <1>6
  <2>2. n + 1 \in 1 .. Len(s) /\ n + 1 - 1 = n
    OBVIOUS
  <2>3. f[n + 1] = IF s[n + 1] \in S THEN Append(f[n], s[n + 1]) ELSE f[n]
    BY <1>3, <2>2
  <2>4. n + 1 + 1 \in 1 .. Len(z) /\ n + 1 + 1 - 1 = n + 1 /\ z[n + 1 + 1] = s[n + 1]
    BY <1>1, <1>2, <2>2
  <2>5. g[n + 1 + 1] = IF s[n + 1] \in S THEN Append(g[n + 1], s[n + 1]) ELSE g[n + 1]
    BY <1>4, <2>4
  <2>6. s[n + 1] \in A
    BY <2>2
  <2>7. PICK x \in Seq(A), y \in A : x = f[n] /\ y = s[n + 1]
    BY <2>1, <2>6
  <2>8. Append(pre \o x, y) = pre \o Append(x, y) /\ Append(x, y) \in Seq(A)
    <3>1. <<y>> \in Seq(A) /\ pre \o x \in Seq(A) /\ Append(x, y) \in Seq(A)
      OBVIOUS
    <3>2. Append(pre \o x, y) = (pre \o x) \o <<y>> /\ Append(x, y) = x \o <<y>>
      BY <3>1, AppendIsConcat
    <3>3. (pre \o x) \o <<y>> = pre \o (x \o <<y>>)
      BY <3>1, ConcatAssociative
    <3> QED
      BY <3>1, <3>2, <3>3
  <2> QED
    BY <2>1, <2>3, <2>5, <2>7, <2>8
<1> HIDE DEF D
<1>7. Len(s) \in D
  BY <1>1, <1>5, <1>6, NaturalInduction
<1>8. Only(z, S) = pre \o Only(s, S) /\ Only(s, S) \in Seq(A)
  BY <1>1, <1>3, <1>4, <1>7 DEF D
<1>9. Only(s, S) \in Seq(A) => <<>> \o Only(s, S) = Only(s, S)
  OBVIOUS
<1> QED
  BY <1>0, <1>8, <1>9 DEF z

LEMMA OnlyNone ==
    ASSUME NEW S
    PROVE  Only(<<>>, S) = <<>>
<1>1. PICK e \in Seq({}) : e = <<>> /\ Len(e) = 0
  BY EmptySeq
<1>2. PICK f : Only(e, S) = f[Len(e)] /\ f[0] = <<>>
  BY OnlyIsPick
<1> QED
  BY <1>1, <1>2

LEMMA HeadAndTail ==
    ASSUME NEW A, NEW s \in Seq(A), s # <<>>
    PROVE  /\ s = <<Head(s)>> \o Tail(s)
           /\ Head(s) \in A /\ Tail(s) \in Seq(A) /\ Head(s) = s[1]
           /\ Len(s) \in Nat /\ Len(s) >= 1 /\ Len(Tail(s)) = Len(s) - 1
           /\ \A k \in 1 .. Len(s) - 1 : Tail(s)[k] = s[k + 1]
<1>1. /\ Head(s) \in A /\ Tail(s) \in Seq(A) /\ Head(s) = s[1]
      /\ Len(s) \in Nat /\ Len(s) >= 1 /\ Len(Tail(s)) = Len(s) - 1
      /\ \A k \in 1 .. Len(s) - 1 : Tail(s)[k] = s[k + 1]
  OBVIOUS
<1> DEFINE z == <<Head(s)>> \o Tail(s)
<1>2. z \in Seq(A) /\ Len(z) = Len(s)
  BY <1>1
<1>3. \A k \in 1 .. Len(s) : z[k] = IF k = 1 THEN Head(s) ELSE Tail(s)[k - 1]
  BY <1>1
<1>4. \A k \in 1 .. Len(s) : s[k] = z[k]
  BY <1>1, <1>3
<1> HIDE DEF z
<1>5. s = z
  BY <1>2, <1>4, SeqEqual
<1> QED
  BY <1>1, <1>5 DEF z

\* What a longer list has at its positions.
LEMMA ConsAt ==
    ASSUME NEW A, NEW s \in Seq(A), NEW e \in A
    PROVE  /\ <<e>> \o s \in Seq(A) /\ <<e>> \o s # <<>>
           /\ Len(<<e>> \o s) = Len(s) + 1 /\ Len(s) \in Nat
           /\ DOMAIN (<<e>> \o s) = 1 .. Len(s) + 1
           /\ DOMAIN s = 1 .. Len(s)
           /\ (<<e>> \o s)[1] = e /\ Head(<<e>> \o s) = e
           /\ \A k \in 1 .. Len(s) : (<<e>> \o s)[k + 1] = s[k]
           /\ \A k \in 2 .. Len(s) + 1 : (<<e>> \o s)[k] = s[k - 1]
           /\ Tail(<<e>> \o s) = s
<1>1. /\ <<e>> \o s \in Seq(A) /\ <<e>> \o s # <<>>
      /\ Len(<<e>> \o s) = Len(s) + 1 /\ Len(s) \in Nat
      /\ DOMAIN (<<e>> \o s) = 1 .. Len(s) + 1
      /\ DOMAIN s = 1 .. Len(s)
      /\ (<<e>> \o s)[1] = e /\ Head(<<e>> \o s) = e
      /\ \A k \in 1 .. Len(s) : (<<e>> \o s)[k + 1] = s[k]
      /\ \A k \in 2 .. Len(s) + 1 : (<<e>> \o s)[k] = s[k - 1]
  OBVIOUS
<1>2. Tail(<<e>> \o s) = s
  <2>1. PICK z \in Seq(A) : z = <<e>> \o s
    BY <1>1
  <2>2. /\ Tail(z) \in Seq(A) /\ Len(Tail(z)) = Len(s)
        /\ \A k \in 1 .. Len(s) : Tail(z)[k] = s[k]
    BY <1>1, <2>1, HeadAndTail
  <2>3. Tail(z) = s
    BY <2>2, SeqEqual
  <2> QED
    BY <2>1, <2>3
<1> QED
  BY <1>1, <1>2

-----------------------------------------------------------------------------
(* Stacks *)

LEMMA HavingCons ==
    ASSUME NEW s \in Seq(Frames), NEW fr \in Frames, NEW op
    PROVE  /\ fr.op = op => Having(<<fr>> \o s, op) = <<fr>> \o Having(s, op)
           /\ fr.op # op => Having(<<fr>> \o s, op) = Having(s, op)
           /\ Having(s, op) \in Seq(Frames)
           /\ Having(<<>>, op) = <<>>
<1>1. PICK S : S = {f \in Frames : f.op = op}
  OBVIOUS
<1>2. \A q : Having(q, op) = Only(q, S)
  BY <1>1 DEF Having
<1>3. /\ Only(<<fr>> \o s, S) = IF fr \in S THEN <<fr>> \o Only(s, S) ELSE Only(s, S)
      /\ Only(s, S) \in Seq(Frames) /\ Only(<<>>, S) = <<>>
  BY OnlyCons, OnlyPicks, OnlyNone
<1>4. fr \in S <=> fr.op = op
  BY <1>1
<1> QED
  BY <1>2, <1>3, <1>4

LEMMA StackPush ==
    ASSUME NEW t, NEW s, NEW act, Stacked(t, s, act),
           NEW fr \in Frames, fr.op \notin Bottom \cup {"body"}
    PROVE  Stacked(t, <<fr>> \o s, act)
<1>1. /\ s \in Seq(Frames) /\ s # <<>>
      /\ \A k \in DOMAIN s : s[k].op \in Bottom <=> k = Len(s)
      /\ t = Root => s[Len(s)].op = "entry"
  BY DEF Stacked
<1>2. Having(<<fr>> \o s, "body") = Having(s, "body")
  BY <1>1, HavingCons
<1>3. PICK z \in Seq(Frames) : z = <<fr>> \o s
  BY <1>1, ConsAt
<1>4. /\ z # <<>> /\ Len(z) = Len(s) + 1 /\ Len(s) \in Nat /\ Len(s) >= 1
      /\ DOMAIN z = 1 .. Len(s) + 1 /\ DOMAIN s = 1 .. Len(s)
      /\ z[1] = fr /\ \A k \in 2 .. Len(s) + 1 : z[k] = s[k - 1]
  BY <1>1, <1>3, ConsAt
<1>5. ASSUME NEW k \in DOMAIN z PROVE z[k].op \in Bottom <=> k = Len(z)
  <2>1. CASE k = 1
    BY <1>4, <2>1
  <2>2. CASE k # 1
    <3>1. k \in 2 .. Len(s) + 1 /\ k - 1 \in DOMAIN s
      BY <1>4, <2>2
    <3> QED
      BY <1>1, <1>4, <3>1
  <2> QED
    BY <2>1, <2>2
<1>6. z[Len(z)] = s[Len(s)]
  <2>1. Len(s) + 1 \in 2 .. Len(s) + 1 /\ Len(s) + 1 - 1 = Len(s)
    BY <1>4
  <2> QED
    BY <1>4, <2>1
<1>7. Stacked(t, z, act)
  <2>1. \A k \in DOMAIN Having(z, "body") :
           k \in DOMAIN act /\ act[k] = Having(z, "body")[k].on
    BY <1>2, <1>3 DEF Stacked
  <2> QED
    BY <1>1, <1>4, <1>5, <1>6, <2>1 DEF Stacked
<1> QED
  BY <1>3, <1>7

\* What returns is not at the bottom.
LEMMA StackTop ==
    ASSUME NEW t, NEW s, NEW act, Stacked(t, s, act)
    PROVE  /\ s \in Seq(Frames) /\ s # <<>> /\ Head(s) \in Frames
           /\ Tail(s) \in Seq(Frames)
           /\ Head(s).op \in Bottom => Tail(s) = <<>> /\ Len(s) = 1
           /\ Head(s).op \in Bottom /\ t = Root => Head(s).op = "entry"
           /\ Head(s).op \notin Bottom => Len(s) > 1
<1>1. /\ s \in Seq(Frames) /\ s # <<>>
      /\ \A k \in DOMAIN s : s[k].op \in Bottom <=> k = Len(s)
      /\ t = Root => s[Len(s)].op = "entry"
  BY DEF Stacked
<1>2. /\ Head(s) \in Frames /\ Tail(s) \in Seq(Frames) /\ Head(s) = s[1]
      /\ Len(s) \in Nat /\ Len(s) >= 1 /\ Len(Tail(s)) = Len(s) - 1
      /\ DOMAIN s = 1 .. Len(s)
  BY <1>1, HeadAndTail
<1>3. s[1].op \in Bottom <=> 1 = Len(s)
  BY <1>1, <1>2
<1>4. Len(s) = 1 => Tail(s) = <<>>
  <2>1. PICK z \in Seq(Frames) : z = Tail(s)
    BY <1>2
  <2>2. z # <<>> => Len(z) \in Nat \ {0}
    BY EmptySeq
  <2> QED
    BY <1>2, <2>1, <2>2
<1> QED
  BY <1>1, <1>2, <1>3, <1>4

LEMMA StackPop ==
    ASSUME NEW t, NEW s, NEW act, Stacked(t, s, act),
           Head(s).op \notin Bottom \cup {"body"}
    PROVE  Stacked(t, Tail(s), act)
<1>1. /\ s \in Seq(Frames) /\ s # <<>>
      /\ \A k \in DOMAIN s : s[k].op \in Bottom <=> k = Len(s)
      /\ t = Root => s[Len(s)].op = "entry"
  BY DEF Stacked
<1>2. /\ Head(s) \in Frames /\ Tail(s) \in Seq(Frames) /\ Len(s) > 1
  BY StackTop
<1>3. PICK z \in Seq(Frames) : z = Tail(s)
  BY <1>2
<1>4. /\ s = <<Head(s)>> \o z /\ Len(s) \in Nat /\ Len(z) = Len(s) - 1
      /\ DOMAIN z = 1 .. Len(s) - 1 /\ DOMAIN s = 1 .. Len(s)
      /\ \A k \in 1 .. Len(s) - 1 : z[k] = s[k + 1]
  BY <1>1, <1>3, HeadAndTail
<1>5. Having(s, "body") = Having(z, "body")
  <2>1. PICK h \in Frames : h = Head(s)
    BY <1>2
  <2>2. h.op # "body"
    BY <2>1
  <2>3. Having(<<h>> \o z, "body") = Having(z, "body")
    BY <2>2, HavingCons
  <2> QED
    BY <1>4, <2>1, <2>3
<1>6. ASSUME NEW k \in DOMAIN z PROVE z[k].op \in Bottom <=> k = Len(z)
  <2>1. k \in 1 .. Len(s) - 1 /\ k + 1 \in DOMAIN s /\ z[k] = s[k + 1]
    BY <1>4
  <2>2. k + 1 = Len(s) <=> k = Len(z)
    BY <1>4
  <2> QED
    BY <1>1, <2>1, <2>2
<1>7. z[Len(z)] = s[Len(s)] /\ z # <<>>
  <2>1. Len(s) - 1 \in 1 .. Len(s) - 1 /\ Len(s) - 1 + 1 = Len(s)
    BY <1>2, <1>4
  <2> QED
    BY <1>4, <2>1
<1>8. Stacked(t, z, act)
  <2>1. \A k \in DOMAIN Having(z, "body") :
           k \in DOMAIN act /\ act[k] = Having(z, "body")[k].on
    BY <1>5 DEF Stacked
  <2> QED
    BY <1>1, <1>6, <1>7, <2>1 DEF Stacked
<1> QED
  BY <1>3, <1>8

\* A task that starts, ends or enters its loop has nothing else on its stack.
LEMMA StackFresh ==
    ASSUME NEW t, NEW act, NEW fr \in Frames, fr.op \in Bottom,
           t = Root => fr.op = "entry", fr.op = "filter" => fiber[t].kind = "filter"
    PROVE  Stacked(t, <<fr>>, act) /\ Having(<<fr>>, "text") = <<>>
<1>1. PICK e \in Seq(Frames) : e = <<>> /\ <<fr>> \o e = <<fr>>
  <2>1. <<>> \in Seq(Frames) /\ <<fr>> \o <<>> = <<fr>>
    OBVIOUS
  <2> QED
    BY <2>1
<1>2. fr.op # "body" /\ fr.op # "text"
  BY DEF Bottom
<1>3. Having(<<fr>>, "body") = <<>> /\ Having(<<fr>>, "text") = <<>>
  <2>1. /\ Having(<<fr>> \o e, "body") = Having(e, "body")
        /\ Having(<<fr>> \o e, "text") = Having(e, "text")
    BY <1>2, HavingCons
  <2>2. Having(e, "body") = <<>> /\ Having(e, "text") = <<>>
    BY <1>1, HavingCons
  <2> QED
    BY <1>1, <2>1, <2>2
<1>4. /\ <<fr>> \in Seq(Frames) /\ Len(<<fr>>) = 1 /\ <<fr>>[1] = fr
      /\ DOMAIN <<fr>> = 1 .. 1 /\ <<fr>> # <<>>
  OBVIOUS
<1>5. \A k \in DOMAIN <<fr>> : k = 1
  BY <1>4
<1>6. DOMAIN <<>> = {}
  OBVIOUS
<1> QED
  BY <1>3, <1>4, <1>5, <1>6 DEF Stacked

LEMMA StackPushBody ==
    ASSUME NEW t, NEW s, NEW act \in Seq(Jobs), Stacked(t, s, act),
           NEW fr \in Frames, fr.op = "body"
    PROVE  Stacked(t, <<fr>> \o s, <<fr.on>> \o act)
<1>0. fr.on \in Jobs /\ fr.op \notin Bottom
  BY DEF Frames, Bottom
<1>1. /\ s \in Seq(Frames) /\ s # <<>>
      /\ \A k \in DOMAIN s : s[k].op \in Bottom <=> k = Len(s)
      /\ t = Root => s[Len(s)].op = "entry"
  BY DEF Stacked
<1>2. PICK b \in Seq(Frames) : b = Having(s, "body")
  BY <1>1, HavingCons
<1>3. Having(<<fr>> \o s, "body") = <<fr>> \o b
  BY <1>1, <1>2, HavingCons
<1>4. PICK z \in Seq(Frames) : z = <<fr>> \o s
  BY <1>1, ConsAt
<1>5. /\ z # <<>> /\ Len(z) = Len(s) + 1 /\ Len(s) \in Nat /\ Len(s) >= 1
      /\ DOMAIN z = 1 .. Len(s) + 1 /\ DOMAIN s = 1 .. Len(s)
      /\ z[1] = fr /\ \A k \in 2 .. Len(s) + 1 : z[k] = s[k - 1]
  BY <1>1, <1>4, ConsAt
<1>6. ASSUME NEW k \in DOMAIN z PROVE z[k].op \in Bottom <=> k = Len(z)
  <2>1. CASE k = 1
    BY <1>0, <1>5, <2>1
  <2>2. CASE k # 1
    <3>1. k \in 2 .. Len(s) + 1 /\ k - 1 \in DOMAIN s
      BY <1>5, <2>2
    <3> QED
      BY <1>1, <1>5, <3>1
  <2> QED
    BY <2>1, <2>2
<1>7. z[Len(z)] = s[Len(s)]
  <2>1. Len(s) + 1 \in 2 .. Len(s) + 1 /\ Len(s) + 1 - 1 = Len(s)
    BY <1>5
  <2> QED
    BY <1>5, <2>1
<1>8. PICK c \in Seq(Frames), a \in Seq(Jobs) : c = <<fr>> \o b /\ a = <<fr.on>> \o act
  BY <1>0, ConsAt
<1>9. /\ DOMAIN c = 1 .. Len(b) + 1 /\ c[1] = fr /\ Len(b) \in Nat
      /\ \A k \in 2 .. Len(b) + 1 : c[k] = b[k - 1] /\ k - 1 \in DOMAIN b
  BY <1>8, ConsAt
<1>10. /\ DOMAIN a = 1 .. Len(act) + 1 /\ a[1] = fr.on /\ Len(act) \in Nat
       /\ DOMAIN act = 1 .. Len(act)
       /\ \A k \in 2 .. Len(act) + 1 : a[k] = act[k - 1]
  BY <1>0, <1>8, ConsAt
<1>11. \A k \in DOMAIN b : k \in DOMAIN act /\ act[k] = b[k].on
  BY <1>2 DEF Stacked
<1>12. ASSUME NEW k \in DOMAIN c PROVE k \in DOMAIN a /\ a[k] = c[k].on
  <2>1. CASE k = 1
    BY <1>9, <1>10, <2>1
  <2>2. CASE k # 1
    <3>1. k \in 2 .. Len(b) + 1
      BY <1>9, <2>2
    <3>2. c[k] = b[k - 1] /\ k - 1 \in DOMAIN act /\ act[k - 1] = b[k - 1].on
      BY <1>9, <1>11, <3>1
    <3>3. k \in 2 .. Len(act) + 1
      BY <1>10, <3>1, <3>2
    <3> QED
      BY <1>10, <3>2, <3>3
  <2> QED
    BY <2>1, <2>2
<1>13. Stacked(t, z, a)
  <2>1. Having(z, "body") = c
    BY <1>3, <1>4, <1>8
  <2> QED
    BY <1>1, <1>5, <1>6, <1>7, <1>12, <2>1 DEF Stacked
<1> QED
  BY <1>4, <1>8, <1>13

\* A job body that returns is the job that was dispatched last.
LEMMA StackPopBody ==
    ASSUME NEW t, NEW s, NEW act \in Seq(Jobs), Stacked(t, s, act),
           Head(s).op = "body"
    PROVE  /\ act # <<>> /\ Head(act) = Head(s).on /\ Head(s).on \in Jobs
           /\ Stacked(t, Tail(s), Tail(act))
           /\ Having(Tail(s), "text") = Having(s, "text")
<1>1. /\ s \in Seq(Frames) /\ s # <<>>
      /\ \A k \in DOMAIN s : s[k].op \in Bottom <=> k = Len(s)
      /\ t = Root => s[Len(s)].op = "entry"
  BY DEF Stacked
<1>2. "body" \notin Bottom
  BY DEF Bottom
<1>3. Head(s) \in Frames /\ Tail(s) \in Seq(Frames) /\ Len(s) > 1
  BY <1>2, StackTop
<1>4. PICK z \in Seq(Frames), h \in Frames : z = Tail(s) /\ h = Head(s)
  BY <1>3
<1>5. /\ s = <<h>> \o z /\ Len(s) \in Nat /\ Len(z) = Len(s) - 1
      /\ DOMAIN z = 1 .. Len(s) - 1 /\ DOMAIN s = 1 .. Len(s)
      /\ \A k \in 1 .. Len(s) - 1 : z[k] = s[k + 1]
  BY <1>1, <1>4, HeadAndTail
<1>6. ASSUME NEW k \in DOMAIN z PROVE z[k].op \in Bottom <=> k = Len(z)
  <2>1. k \in 1 .. Len(s) - 1 /\ k + 1 \in DOMAIN s /\ z[k] = s[k + 1]
    BY <1>5
  <2>2. k + 1 = Len(s) <=> k = Len(z)
    BY <1>5
  <2> QED
    BY <1>1, <2>1, <2>2
<1>7. z[Len(z)] = s[Len(s)] /\ z # <<>>
  <2>1. Len(s) - 1 \in 1 .. Len(s) - 1 /\ Len(s) - 1 + 1 = Len(s)
    BY <1>3, <1>5
  <2> QED
    BY <1>5, <2>1
<1>8. PICK b \in Seq(Frames) : b = Having(z, "body")
  BY HavingCons
<1>9. h.op = "body" /\ h.op # "text" /\ h.on \in Jobs
  BY <1>4 DEF Frames
<1>10. PICK c \in Seq(Frames) : c = <<h>> \o b /\ c = Having(s, "body")
  <2>1. Having(<<h>> \o z, "body") = <<h>> \o b
    BY <1>8, <1>9, HavingCons
  <2> QED
    BY <1>5, <2>1, ConsAt
<1>11. /\ DOMAIN c = 1 .. Len(b) + 1 /\ c[1] = h /\ Len(b) \in Nat
       /\ DOMAIN b = 1 .. Len(b)
       /\ \A k \in 1 .. Len(b) : c[k + 1] = b[k]
  BY <1>10, ConsAt
<1>12. \A k \in DOMAIN c : k \in DOMAIN act /\ act[k] = c[k].on
  BY <1>10 DEF Stacked
<1>13. 1 \in DOMAIN act /\ act[1] = h.on
  <2>1. 1 \in DOMAIN c
    BY <1>11
  <2> QED
    BY <1>11, <1>12, <2>1
<1>14. act # <<>> /\ Head(act) = h.on
  <2>1. act # <<>>
    BY <1>13
  <2> QED
    BY <1>13, <2>1, HeadAndTail
<1>15. PICK a \in Seq(Jobs) : a = Tail(act)
  BY <1>14, HeadAndTail
<1>16. /\ DOMAIN a = 1 .. Len(act) - 1 /\ DOMAIN act = 1 .. Len(act) /\ Len(act) \in Nat
       /\ \A k \in 1 .. Len(act) - 1 : a[k] = act[k + 1]
  BY <1>14, <1>15, HeadAndTail
<1>17. ASSUME NEW k \in DOMAIN b PROVE k \in DOMAIN a /\ a[k] = b[k].on
  <2>1. k \in 1 .. Len(b) /\ k + 1 \in DOMAIN c
    BY <1>11
  <2>2. k + 1 \in DOMAIN act /\ act[k + 1] = b[k].on
    BY <1>11, <1>12, <2>1
  <2>3. k \in 1 .. Len(act) - 1
    BY <1>16, <2>1, <2>2
  <2> QED
    BY <1>16, <2>2, <2>3
<1>18. Stacked(t, z, a)
  BY <1>1, <1>6, <1>7, <1>8, <1>17 DEF Stacked
<1>19. Having(<<h>> \o z, "text") = Having(z, "text")
  BY <1>9, HavingCons
<1> QED
  BY <1>4, <1>5, <1>9, <1>14, <1>15, <1>18, <1>19

\* What most steps do to the stack s of the running task: the reserved jobs on
\* it stay, or the task ends and abandons them.
OnStack(t, s, z, act) ==
    Stacked(t, z, act) /\ Having(z, "text") \in {Having(s, "text"), <<>>}

LEMMA OnSame ==
    ASSUME NEW t, NEW s, NEW act, Stacked(t, s, act)
    PROVE  OnStack(t, s, s, act)
  BY DEF OnStack

LEMMA OnPush ==
    ASSUME NEW t, NEW s, NEW z, NEW act, OnStack(t, s, z, act),
           NEW fr \in Frames, fr.op \notin Bottom \cup {"body", "text"}
    PROVE  OnStack(t, s, <<fr>> \o z, act)
<1>1. z \in Seq(Frames) /\ Stacked(t, z, act) /\ fr.op # "text"
  BY DEF OnStack, Stacked
<1>2. Having(<<fr>> \o z, "text") = Having(z, "text")
  BY <1>1, HavingCons
<1>3. Stacked(t, <<fr>> \o z, act)
  BY <1>1, StackPush
<1> QED
  BY <1>2, <1>3 DEF OnStack

LEMMA OnPop ==
    ASSUME NEW t, NEW s, NEW z, NEW act, OnStack(t, s, z, act),
           Head(z).op \notin Bottom \cup {"body", "text"}
    PROVE  OnStack(t, s, Tail(z), act)
<1>1. Stacked(t, z, act)
  BY DEF OnStack
<1>2. z \in Seq(Frames) /\ z # <<>>
  BY <1>1, StackTop
<1>3. PICK h \in Frames, y \in Seq(Frames) : h = Head(z) /\ y = Tail(z) /\ z = <<h>> \o y
  <2>1. Head(z) \in Frames /\ Tail(z) \in Seq(Frames) /\ z = <<Head(z)>> \o Tail(z)
    BY <1>2, HeadAndTail
  <2> QED
    BY <2>1
<1>4. h.op # "text"
  BY <1>3
<1>5. Having(<<h>> \o y, "text") = Having(y, "text")
  BY <1>4, HavingCons
<1>6. Stacked(t, Tail(z), act)
  BY <1>1, StackPop
<1> QED
  BY <1>3, <1>5, <1>6 DEF OnStack

LEMMA OnFresh ==
    ASSUME NEW t, NEW s, NEW act, NEW fr \in Frames, fr.op \in Bottom,
           t = Root => fr.op = "entry", fr.op = "filter" => fiber[t].kind = "filter"
    PROVE  OnStack(t, s, <<fr>>, act)
  BY StackFresh DEF OnStack

\* The frame that is replaced may be the one at the bottom.
LEMMA OnLoop ==
    ASSUME NEW t, NEW s, NEW act, Stacked(t, s, act), Head(s).op \in Bottom,
           t # Root, NEW fr \in Frames, fr.op \in Bottom \ {"filter"}
    PROVE  OnStack(t, s, <<fr>> \o Tail(s), act)
<1>1. Tail(s) = <<>> /\ <<fr>> \o <<>> = <<fr>>
  <2>1. <<fr>> \o <<>> = <<fr>>
    OBVIOUS
  <2> QED
    BY <2>1, StackTop
<1>2. OnStack(t, s, <<fr>>, act)
  BY OnFresh
<1> QED
  BY <1>1, <1>2

LEMMA FrameTyped ==
    ASSUME NEW op \in FrameOps, NEW x \in Tasks \cup Jobs \cup {None},
           NEW b \in BOOLEAN, NEW n \in Nat,
           op = "exit" => x \in Tasks \ {Root},
           op = "body" => x \in Jobs,
           op = "text" => n \in Jobs
    PROVE  /\ FrameOn(op, x, b, n) \in Frames
           /\ FrameOn(op, x, b, n).op = op
           /\ FrameOn(op, x, b, n).on = x
           /\ FrameOn(op, x, b, n).num = n
           /\ op \notin {"exit", "body", "text"} =>
                Frame(op) \in Frames /\ Frame(op).op = op
<1>1. FALSE \in BOOLEAN /\ 0 \in Nat
  OBVIOUS
<1> QED
  BY <1>1 DEF FrameOn, Frame, Frames

-----------------------------------------------------------------------------
(* Steps that keep the task tree *)

\* What a step does to a live task t that stays, with its kind and its links.
Keeps(t, g) ==
    /\ FiberType(g)
    /\ g.state = "run"
    /\ g.kind = fiber[t].kind
    /\ g.parent = fiber[t].parent
    /\ g.filter = fiber[t].filter
    /\ t = Root => g.kill = FALSE
    /\ Stacked(t, g.stack, g.active)

\* What it does to a slot that becomes a task, other than an input filter.
Born(t, g) ==
    \E p \in Tasks, kind \in {"entry", "exec", "system"}, n \in Nat :
       Live(p) /\ g = NewFiber(t, p, kind, n)

Family ==
    /\ DOMAIN fiber' = Tasks
    /\ \A t \in Tasks : \/ fiber'[t] = fiber[t]
                        \/ Live(t) /\ Keeps(t, fiber'[t])
                        \/ ~Live(t) /\ Born(t, fiber'[t])

\* The variables besides the fibers and the jobs.
Rest ==
    /\ current' \in Tasks /\ serial' \in Nat
    /\ guest' = guest /\ calls' \in calls .. guest.calls
    /\ fail' \notin TreeFailures

ActiveKept == \A t \in Tasks : fiber'[t].active = fiber[t].active
TextsKept == \A t \in Tasks :
    Having(fiber'[t].stack, "text") \in {Having(fiber[t].stack, "text"), <<>>}

LEMMA Numbers ==
    /\ AppTasks \in Nat \ {0} /\ JobsMax \in Nat \ {0}
    /\ \A g \in Guests : g.calls \in Nat
    /\ Tasks = 0 .. AppTasks + 1 /\ Jobs = 101 .. 100 + JobsMax
    /\ Root = 0 /\ Root \in Tasks /\ None = -1 /\ None \notin Tasks /\ None \notin Jobs
    /\ Executive = AppTasks /\ System = AppTasks + 1
    /\ Executive \in Tasks \ {Root} /\ System \in Tasks \ {Root}
    /\ Executive # System
  BY TaskAssumption DEF Tasks, Jobs, Root, None, Executive, System

\* A new task has an empty stack but for its start, and is its own filter.
LEMMA BornIs ==
    ASSUME NEW t \in Tasks, NEW g, Born(t, g), t # Root
    PROVE  /\ FiberType(g)
           /\ g.state = "run" /\ g.kind # "filter" /\ g.filter = t
           /\ g.parent \in Tasks /\ Live(g.parent)
           /\ g.active = <<>> /\ g.stack[Len(g.stack)].op # "filter"
           /\ Stacked(t, g.stack, g.active) /\ Having(g.stack, "text") = <<>>
<1>1. PICK p \in Tasks, kind \in {"entry", "exec", "system"}, n \in Nat :
          Live(p) /\ g = NewFiber(t, p, kind, n)
  BY DEF Born
<1>2. PICK fr \in Frames : fr = Frame("start") /\ fr.op = "start"
  <2>1. "start" \in FrameOps /\ None \in Tasks \cup Jobs \cup {None}
    BY DEF FrameOps
  <2>2. Frame("start") \in Frames /\ Frame("start").op = "start"
    BY <2>1, FrameTyped
  <2> QED
    BY <2>2
<1>3. /\ g.state = "run" /\ g.kind = kind /\ g.filter = t /\ g.parent = p
      /\ g.active = <<>> /\ g.stack = <<fr>> /\ g.num = n /\ g.target = None
      /\ g.cb = FALSE /\ g.idle = FALSE /\ DOMAIN g = Fields
  BY <1>1, <1>2 DEF NewFiber, Unused, Fields
<1>4. fr.op \in Bottom /\ fr.op # "filter" /\ <<fr>>[Len(<<fr>>)] = fr
  BY <1>2 DEF Bottom
<1>5. Stacked(t, <<fr>>, <<>>) /\ Having(<<fr>>, "text") = <<>>
  BY <1>4, StackFresh
<1>6. <<fr>> \in Seq(Frames) /\ <<>> \in Seq(Jobs)
  OBVIOUS
<1>7. FiberType(g)
  BY <1>3, <1>6 DEF FiberType
<1>8. g.stack[Len(g.stack)].op # "filter"
  BY <1>3, <1>4
<1> QED
  BY <1>1, <1>3, <1>5, <1>7, <1>8

\* No task of a family dies, and the tree and the filter links stay as they are.
LEMMA FamilyLives ==
    ASSUME Types, Stacks, Tree, Filters, Family
    PROVE  /\ \A t \in Tasks : FiberType(fiber'[t])
           /\ Stacks' /\ Tree' /\ Filters'
           /\ \A t \in Tasks : Live(t) => /\ Live(t)'
                                          /\ fiber'[t].kind = fiber[t].kind
                                          /\ fiber'[t].parent = fiber[t].parent
                                          /\ fiber'[t].filter = fiber[t].filter
           /\ \A t \in Tasks : ~Live(t) /\ Live(t)' => fiber'[t].kind # "filter"
<1>0. Root \in Tasks /\ Live(Root)
  BY Numbers DEF Tree
<1>1. ASSUME NEW t \in Tasks, Live(t)
      PROVE  /\ FiberType(fiber'[t]) /\ Live(t)'
             /\ fiber'[t].kind = fiber[t].kind
             /\ fiber'[t].parent = fiber[t].parent
             /\ fiber'[t].filter = fiber[t].filter
             /\ Stacked(t, fiber'[t].stack, fiber'[t].active)
             /\ t = Root => fiber'[t].kill = FALSE
  <2>1. CASE fiber'[t] = fiber[t]
    BY <1>1, <2>1 DEF Types, Stacks, Live
  <2>2. CASE Keeps(t, fiber'[t])
    BY <1>1, <2>2 DEF Keeps, Live
  <2> QED
    BY <1>1, <2>1, <2>2 DEF Family
<1>2. ASSUME NEW t \in Tasks, ~Live(t)
      PROVE  \/ fiber'[t] = fiber[t] /\ ~Live(t)'
             \/ /\ Live(t)' /\ FiberType(fiber'[t]) /\ fiber'[t].kind # "filter"
                /\ fiber'[t].filter = t
                /\ fiber'[t].parent \in Tasks /\ Live(fiber'[t].parent)
                /\ Stacked(t, fiber'[t].stack, fiber'[t].active)
                /\ fiber'[t].stack[Len(fiber'[t].stack)].op # "filter"
  <2>1. CASE fiber'[t] = fiber[t]
    BY <1>2, <2>1 DEF Live
  <2>2. CASE Born(t, fiber'[t])
    <3>1. t # Root
      BY <1>0, <1>2
    <3>2. PICK g : g = fiber'[t]
      OBVIOUS
    <3>3. Born(t, g)
      BY <2>2, <3>2
    <3>4. /\ FiberType(g)
          /\ g.state = "run" /\ g.kind # "filter" /\ g.filter = t
          /\ g.parent \in Tasks /\ Live(g.parent)
          /\ Stacked(t, g.stack, g.active) /\ g.stack[Len(g.stack)].op # "filter"
      BY <3>1, <3>3, BornIs
    <3> QED
      BY <3>2, <3>4 DEF Live
  <2> QED
    BY <1>2, <2>1, <2>2 DEF Family
<1>3. \A t \in Tasks : FiberType(fiber'[t])
  BY <1>1, <1>2 DEF Types
<1>4. Stacks'
  <2>1. ASSUME NEW t \in Tasks
        PROVE  IF Live(t)'
               THEN /\ Stacked(t, fiber'[t].stack, fiber'[t].active)
                    /\ \/ fiber'[t].kind = fiber[t].kind
                       \/ fiber'[t].stack[Len(fiber'[t].stack)].op # "filter"
               ELSE fiber'[t].stack = <<>> /\ fiber'[t].active = <<>>
    BY <1>1, <1>2 DEF Stacks
  <2>2. fiber'[Root].kill = FALSE
    BY <1>0, <1>1
  <2>3. \A t : /\ Stacked(t, fiber'[t].stack, fiber'[t].active)
                /\ \/ fiber'[t].kind = fiber[t].kind
                   \/ fiber'[t].stack[Len(fiber'[t].stack)].op # "filter"
                => Stacked(t, fiber[t].stack, fiber[t].active)'
    BY DEF Stacked, Having, Frames
  <2> QED
    BY <2>1, <2>2, <2>3 DEF Stacks
<1>5. Tree'
  <2>1. Live(Root)'
    BY <1>0, <1>1
  <2>2. ASSUME NEW t \in Tasks \ {Root}, Live(t)'
        PROVE  Live(fiber[t].parent)' /\ fiber'[t].parent # t
    <3>1. CASE Live(t)
      <4>1. /\ fiber'[t].parent = fiber[t].parent
            /\ Live(fiber[t].parent) /\ fiber[t].parent # t
        BY <1>1, <3>1 DEF Tree
      <4>2. PICK p \in Tasks : p = fiber[t].parent
        BY <4>1 DEF Live
      <4>3. Live(p)'
        BY <1>1, <4>1, <4>2
      <4> QED
        BY <4>1, <4>2, <4>3 DEF Live
    <3>2. CASE ~Live(t)
      <4>1. PICK p \in Tasks : p = fiber'[t].parent /\ Live(p)
        BY <1>2, <2>2, <3>2
      <4>2. Live(p)' /\ p # t
        BY <1>1, <3>2, <4>1
      <4> QED
        BY <4>1, <4>2 DEF Live
    <3> QED
      BY <3>1, <3>2
  <2> QED
    BY <2>1, <2>2 DEF Tree
<1>6. Filters'
  <2> SUFFICES ASSUME NEW t \in Tasks, Live(t)'
               PROVE  IF fiber'[t].kind = "filter"
                      THEN /\ t \in 1 .. AppTasks - 1
                           /\ fiber'[t].filter = fiber'[t].parent
                           /\ fiber'[fiber'[t].parent].filter = t
                           /\ fiber'[fiber'[t].parent].kind # "filter"
                      ELSE fiber'[t].filter # t =>
                           /\ Live(fiber[t].filter)'
                           /\ fiber'[fiber'[t].filter].kind = "filter"
                           /\ fiber'[fiber'[t].filter].parent = t
    BY DEF Filters
  <2>1. CASE ~Live(t)
    BY <1>2, <2>1
  <2>2. CASE Live(t) /\ fiber[t].kind = "filter"
    <3>1. /\ t \in 1 .. AppTasks - 1
          /\ fiber[t].filter = fiber[t].parent
          /\ fiber[fiber[t].parent].filter = t
          /\ fiber[fiber[t].parent].kind # "filter"
      BY <2>2 DEF Filters
    <3>2. t # Root
      BY <3>1, Numbers
    <3>3. PICK p \in Tasks : p = fiber[t].parent /\ Live(p)
      BY <2>2, <3>2 DEF Tree, Live
    <3>4. fiber'[p].filter = fiber[p].filter /\ fiber'[p].kind = fiber[p].kind
      BY <1>1, <3>3
    <3> QED
      BY <1>1, <2>2, <3>1, <3>3, <3>4
  <2>3. CASE Live(t) /\ fiber[t].kind # "filter" /\ fiber[t].filter # t
    <3>1. PICK u \in Tasks : /\ u = fiber[t].filter /\ Live(u)
                             /\ fiber[u].kind = "filter" /\ fiber[u].parent = t
      BY <2>3 DEF Filters, Live
    <3>2. Live(u)' /\ fiber'[u].kind = "filter" /\ fiber'[u].parent = t
      BY <1>1, <3>1
    <3>3. fiber'[t].kind # "filter" /\ fiber'[t].filter = u
      BY <1>1, <2>3, <3>1
    <3> QED
      BY <3>2, <3>3 DEF Live
  <2>4. CASE Live(t) /\ fiber[t].kind # "filter" /\ fiber[t].filter = t
    BY <1>1, <2>4
  <2> QED
    BY <2>1, <2>2, <2>3, <2>4
<1> QED
  BY <1>1, <1>2, <1>3, <1>4, <1>5, <1>6

-----------------------------------------------------------------------------
(* Job lists *)

LEMMA ListAppend ==
    ASSUME NEW s \in Seq(Jobs), NEW j \in Jobs
    PROVE  /\ Append(s, j) \in Seq(Jobs)
           /\ \A i : InList(i, Append(s, j)) <=> InList(i, s) \/ i = j
           /\ Distinct(s) /\ ~InList(j, s) => Distinct(Append(s, j))
           /\ \A pool : Sorted(pool, s) /\ (\A i : InList(i, s) => Older(pool, i, j))
                           => Sorted(pool, Append(s, j))
<1>1. PICK z \in Seq(Jobs) : z = Append(s, j)
  BY AppendProperties
<1>2. /\ DOMAIN z = 1 .. Len(s) + 1 /\ DOMAIN s = 1 .. Len(s) /\ Len(s) \in Nat
      /\ z[Len(s) + 1] = j /\ \A k \in 1 .. Len(s) : z[k] = s[k]
  BY <1>1, AppendProperties
<1>3. \A i : InList(i, z) <=> InList(i, s) \/ i = j
  <2> SUFFICES ASSUME NEW i PROVE InList(i, z) <=> InList(i, s) \/ i = j
    OBVIOUS
  <2>1. ASSUME InList(i, s) PROVE InList(i, z)
    <3>1. PICK k \in 1 .. Len(s) : s[k] = i
      BY <1>2, <2>1 DEF InList
    <3>2. k \in DOMAIN z /\ z[k] = i
      BY <1>2, <3>1
    <3> QED
      BY <3>2 DEF InList
  <2>2. ASSUME i = j PROVE InList(i, z)
    <3>1. Len(s) + 1 \in DOMAIN z
      BY <1>2
    <3> QED
      BY <1>2, <2>2, <3>1 DEF InList
  <2>3. ASSUME InList(i, z), i # j PROVE InList(i, s)
    <3>1. PICK k \in DOMAIN z : z[k] = i
      BY <2>3 DEF InList
    <3>2. k \in DOMAIN s /\ s[k] = i
      BY <1>2, <2>3, <3>1
    <3> QED
      BY <3>2 DEF InList
  <2> QED
    BY <2>1, <2>2, <2>3
<1>4. ASSUME Distinct(s), ~InList(j, s) PROVE Distinct(z)
  <2>1. \A k \in 1 .. Len(s) : s[k] # j
    BY <1>2, <1>4 DEF InList
  <2> QED
    BY <1>2, <1>4, <2>1 DEF Distinct
<1>5. ASSUME NEW pool, Sorted(pool, s), \A i : InList(i, s) => Older(pool, i, j)
      PROVE  Sorted(pool, z)
  <2>1. \A k \in 1 .. Len(s) : Older(pool, s[k], j)
    BY <1>2, <1>5 DEF InList
  <2>2. \A k, l \in 1 .. Len(s) : k < l => Older(pool, s[k], s[l])
    BY <1>2, <1>5 DEF Sorted
  <2>3. \A k, l \in 1 .. Len(s) + 1 : k < l => Older(pool, z[k], z[l])
    BY <1>2, <2>1, <2>2
  <2> QED
    BY <1>2, <2>3 DEF Sorted
<1> QED
  BY <1>1, <1>3, <1>4, <1>5

LEMMA ListTail ==
    ASSUME NEW s \in Seq(Jobs), s # <<>>
    PROVE  /\ Tail(s) \in Seq(Jobs) /\ Head(s) \in Jobs /\ InList(Head(s), s)
           /\ \A i : InList(i, Tail(s)) => InList(i, s)
           /\ \A i : InList(i, s) => InList(i, Tail(s)) \/ i = Head(s)
           /\ Distinct(s) => Distinct(Tail(s)) /\ ~InList(Head(s), Tail(s))
           /\ \A pool : Sorted(pool, s) =>
                /\ Sorted(pool, Tail(s))
                /\ \A i : InList(i, Tail(s)) => Older(pool, Head(s), i)
<1>1. PICK z \in Seq(Jobs) : z = Tail(s)
  BY HeadAndTail
<1>2. /\ DOMAIN z = 1 .. Len(s) - 1 /\ DOMAIN s = 1 .. Len(s) /\ Len(s) \in Nat
      /\ Head(s) = s[1] /\ Head(s) \in Jobs /\ Len(s) >= 1
      /\ \A k \in 1 .. Len(s) - 1 : z[k] = s[k + 1]
  BY <1>1, HeadAndTail
<1>3. InList(Head(s), s)
  <2>1. 1 \in DOMAIN s
    BY <1>2
  <2> QED
    BY <1>2, <2>1 DEF InList
<1>4. ASSUME NEW i, InList(i, z) PROVE InList(i, s)
  <2>1. PICK k \in DOMAIN z : z[k] = i
    BY <1>4 DEF InList
  <2>2. k + 1 \in DOMAIN s /\ s[k + 1] = i
    BY <1>2, <2>1
  <2> QED
    BY <2>2 DEF InList
<1>5. ASSUME NEW i, InList(i, s), i # Head(s) PROVE InList(i, z)
  <2>1. PICK k \in DOMAIN s : s[k] = i
    BY <1>5 DEF InList
  <2>2. k # 1
    BY <1>2, <1>5, <2>1
  <2>3. k - 1 \in DOMAIN z /\ z[k - 1] = i
    BY <1>2, <2>1, <2>2
  <2> QED
    BY <2>3 DEF InList
<1>6. ASSUME Distinct(s) PROVE Distinct(z) /\ ~InList(Head(s), z)
  <2>1. \A k, l \in 1 .. Len(s) : s[k] = s[l] => k = l
    BY <1>2, <1>6 DEF Distinct
  <2>2. \A k \in 1 .. Len(s) - 1 : k + 1 \in 1 .. Len(s) /\ k + 1 # 1
    BY <1>2
  <2>3. \A k, l \in 1 .. Len(s) - 1 : z[k] = z[l] => k = l
    BY <1>2, <2>1, <2>2
  <2>4. \A k \in 1 .. Len(s) - 1 : z[k] # s[1]
    BY <1>2, <2>1, <2>2
  <2> QED
    BY <1>2, <2>3, <2>4 DEF Distinct, InList
<1>7. ASSUME NEW pool, Sorted(pool, s)
      PROVE  Sorted(pool, z) /\ \A i : InList(i, z) => Older(pool, Head(s), i)
  <2>1. \A k, l \in 1 .. Len(s) : k < l => Older(pool, s[k], s[l])
    BY <1>2, <1>7 DEF Sorted
  <2>2. \A k, l \in 1 .. Len(s) - 1 : k < l => Older(pool, z[k], z[l])
    BY <1>2, <2>1
  <2>3. \A k \in 1 .. Len(s) - 1 : Older(pool, s[1], z[k])
    BY <1>2, <2>1
  <2> QED
    BY <1>2, <2>2, <2>3 DEF Sorted, InList
<1> QED
  BY <1>1, <1>2, <1>3, <1>4, <1>5, <1>6, <1>7

LEMMA ListCons ==
    ASSUME NEW s \in Seq(Jobs), NEW j \in Jobs
    PROVE  /\ <<j>> \o s \in Seq(Jobs)
           /\ \A i : InList(i, <<j>> \o s) <=> InList(i, s) \/ i = j
           /\ Distinct(s) /\ ~InList(j, s) => Distinct(<<j>> \o s)
<1>1. PICK z \in Seq(Jobs) : z = <<j>> \o s
  BY ConsAt
<1>2. /\ DOMAIN z = 1 .. Len(s) + 1 /\ DOMAIN s = 1 .. Len(s) /\ Len(s) \in Nat
      /\ z[1] = j /\ \A k \in 2 .. Len(s) + 1 : z[k] = s[k - 1]
      /\ \A k \in 1 .. Len(s) : z[k + 1] = s[k]
  BY <1>1, ConsAt
<1>3. ASSUME NEW i, InList(i, s) PROVE InList(i, z)
  <2>1. PICK k \in 1 .. Len(s) : s[k] = i
    BY <1>2, <1>3 DEF InList
  <2>2. k + 1 \in DOMAIN z /\ z[k + 1] = i
    BY <1>2, <2>1
  <2> QED
    BY <2>2 DEF InList
<1>4. InList(j, z)
  <2>1. 1 \in DOMAIN z
    BY <1>2
  <2> QED
    BY <1>2, <2>1 DEF InList
<1>5. ASSUME NEW i, InList(i, z), i # j PROVE InList(i, s)
  <2>1. PICK k \in DOMAIN z : z[k] = i
    BY <1>5 DEF InList
  <2>2. k \in 2 .. Len(s) + 1
    BY <1>2, <1>5, <2>1
  <2>3. k - 1 \in DOMAIN s /\ s[k - 1] = i
    BY <1>2, <2>1, <2>2
  <2> QED
    BY <2>3 DEF InList
<1>6. ASSUME Distinct(s), ~InList(j, s) PROVE Distinct(z)
  <2>1. \A k \in 1 .. Len(s) : s[k] # j
    BY <1>2, <1>6 DEF InList
  <2>2. \A k, l \in 1 .. Len(s) : s[k] = s[l] => k = l
    BY <1>2, <1>6 DEF Distinct
  <2>3. \A k \in 2 .. Len(s) + 1 : k - 1 \in 1 .. Len(s) /\ z[k] # j
    BY <1>2, <2>1
  <2>4. ASSUME NEW k \in 1 .. Len(s) + 1, NEW l \in 1 .. Len(s) + 1, z[k] = z[l]
        PROVE  k = l
    <3>1. CASE k = 1 \/ l = 1
      BY <1>2, <2>3, <2>4, <3>1
    <3>2. CASE k # 1 /\ l # 1
      <4>1. k - 1 \in 1 .. Len(s) /\ l - 1 \in 1 .. Len(s) /\ s[k - 1] = s[l - 1]
        BY <1>2, <2>4, <3>2
      <4>2. k - 1 = l - 1
        BY <2>2, <4>1
      <4> QED
        BY <1>2, <4>2
    <3> QED
      BY <3>1, <3>2
  <2> QED
    BY <1>2, <2>4 DEF Distinct
<1> QED
  BY <1>1, <1>3, <1>4, <1>5, <1>6

LEMMA ListOnly ==
    ASSUME NEW s \in Seq(Jobs), NEW S
    PROVE  /\ Only(s, S) \in Seq(Jobs)
           /\ \A i : InList(i, Only(s, S)) <=> InList(i, s) /\ i \in S
           /\ Distinct(s) => Distinct(Only(s, S))
           /\ \A pool : Sorted(pool, s) => Sorted(pool, Only(s, S))
<1>1. PICK z \in Seq(Jobs) : z = Only(s, S)
  BY OnlyPicks
<1>2. PICK h : Picks(h, z, s, S)
  BY <1>1, OnlyPicks
<1>3. /\ \A k \in DOMAIN z : h[k] \in DOMAIN s
      /\ \A k \in DOMAIN z : z[k] = s[h[k]] /\ z[k] \in S
      /\ \A k, l \in DOMAIN z : k < l => h[k] < h[l]
      /\ \A i \in DOMAIN s : s[i] \in S => \E k \in DOMAIN z : h[k] = i
      /\ DOMAIN z \subseteq Nat /\ DOMAIN s \subseteq Nat
  BY <1>2 DEF Picks
<1>4. ASSUME NEW i, InList(i, z) PROVE InList(i, s) /\ i \in S
  BY <1>3, <1>4 DEF InList
<1>5. ASSUME NEW i, InList(i, s), i \in S PROVE InList(i, z)
  <2>1. PICK n \in DOMAIN s : s[n] = i
    BY <1>5 DEF InList
  <2>2. PICK k \in DOMAIN z : h[k] = n
    BY <1>3, <1>5, <2>1
  <2> QED
    BY <1>3, <2>1, <2>2 DEF InList
<1>6. ASSUME Distinct(s) PROVE Distinct(z)
  <2> SUFFICES ASSUME NEW k \in DOMAIN z, NEW l \in DOMAIN z, z[k] = z[l]
               PROVE  k = l
    BY DEF Distinct
  <2>1. h[k] = h[l]
    BY <1>3, <1>6 DEF Distinct
  <2>2. h[k] \in Nat /\ h[l] \in Nat /\ k \in Nat /\ l \in Nat
    BY <1>3
  <2> QED
    BY <1>3, <2>1, <2>2
<1>7. ASSUME NEW pool, Sorted(pool, s) PROVE Sorted(pool, z)
  BY <1>3, <1>7 DEF Sorted
<1> QED
  BY <1>1, <1>4, <1>5, <1>6, <1>7

LEMMA ListConcat ==
    ASSUME NEW s \in Seq(Jobs), NEW z \in Seq(Jobs)
    PROVE  /\ s \o z \in Seq(Jobs)
           /\ \A i : InList(i, s \o z) <=> InList(i, s) \/ InList(i, z)
           /\ Distinct(s) /\ Distinct(z) /\ (\A i : ~(InList(i, s) /\ InList(i, z)))
                => Distinct(s \o z)
           /\ \A pool : /\ Sorted(pool, s) /\ Sorted(pool, z)
                        /\ \A i, j : InList(i, s) /\ InList(j, z) => Older(pool, i, j)
                        => Sorted(pool, s \o z)
<1>1. PICK y \in Seq(Jobs) : y = s \o z
  BY ConcatProperties
<1>2. /\ DOMAIN y = 1 .. Len(s) + Len(z) /\ DOMAIN s = 1 .. Len(s)
      /\ DOMAIN z = 1 .. Len(z) /\ Len(s) \in Nat /\ Len(z) \in Nat
      /\ \A k \in 1 .. Len(s) : y[k] = s[k] /\ k \in 1 .. Len(s) + Len(z)
      /\ \A k \in 1 .. Len(z) : y[Len(s) + k] = z[k] /\ Len(s) + k \in 1 .. Len(s) + Len(z)
      /\ \A k \in 1 .. Len(s) + Len(z) : k \notin 1 .. Len(s) =>
             k - Len(s) \in 1 .. Len(z) /\ y[k] = z[k - Len(s)]
  BY <1>1, ConcatProperties
<1>3. ASSUME NEW i PROVE InList(i, y) <=> InList(i, s) \/ InList(i, z)
  <2>1. ASSUME InList(i, y) PROVE InList(i, s) \/ InList(i, z)
    <3>1. PICK k \in 1 .. Len(s) + Len(z) : y[k] = i
      BY <1>2, <2>1 DEF InList
    <3>2. CASE k \in 1 .. Len(s)
      BY <1>2, <3>1, <3>2 DEF InList
    <3>3. CASE k \notin 1 .. Len(s)
      <4>1. k - Len(s) \in DOMAIN z /\ z[k - Len(s)] = i
        BY <1>2, <3>1, <3>3
      <4> QED
        BY <4>1 DEF InList
    <3> QED
      BY <3>2, <3>3
  <2>2. ASSUME InList(i, s) PROVE InList(i, y)
    BY <1>2, <2>2 DEF InList
  <2>3. ASSUME InList(i, z) PROVE InList(i, y)
    <3>1. PICK k \in 1 .. Len(z) : z[k] = i
      BY <1>2, <2>3 DEF InList
    <3>2. Len(s) + k \in DOMAIN y /\ y[Len(s) + k] = i
      BY <1>2, <3>1
    <3> QED
      BY <3>2 DEF InList
  <2> QED
    BY <2>1, <2>2, <2>3
<1>4. ASSUME Distinct(s), Distinct(z), \A i : ~(InList(i, s) /\ InList(i, z))
      PROVE  Distinct(y)
  <2>1. \A k \in 1 .. Len(s), l \in 1 .. Len(z) : s[k] # z[l]
    BY <1>2, <1>4 DEF InList
  <2> SUFFICES ASSUME NEW k \in 1 .. Len(s) + Len(z), NEW l \in 1 .. Len(s) + Len(z),
                      y[k] = y[l]
               PROVE  k = l
    BY <1>2 DEF Distinct
  <2>2. CASE k \in 1 .. Len(s) /\ l \in 1 .. Len(s)
    BY <1>2, <1>4, <2>2 DEF Distinct
  <2>3. CASE k \notin 1 .. Len(s) /\ l \notin 1 .. Len(s)
    <3>1. k - Len(s) \in DOMAIN z /\ l - Len(s) \in DOMAIN z
      BY <1>2, <2>3
    <3>2. z[k - Len(s)] = z[l - Len(s)]
      BY <1>2, <2>3
    <3>3. k - Len(s) = l - Len(s)
      BY <1>4, <3>1, <3>2 DEF Distinct
    <3> QED
      BY <1>2, <3>3
  <2>4. CASE k \in 1 .. Len(s) /\ l \notin 1 .. Len(s)
    BY <1>2, <2>1, <2>4
  <2>5. CASE k \notin 1 .. Len(s) /\ l \in 1 .. Len(s)
    BY <1>2, <2>1, <2>5
  <2> QED
    BY <2>2, <2>3, <2>4, <2>5
<1>5. ASSUME NEW pool, Sorted(pool, s), Sorted(pool, z),
             \A i, j : InList(i, s) /\ InList(j, z) => Older(pool, i, j)
      PROVE  Sorted(pool, y)
  <2>1. \A k \in 1 .. Len(s), l \in 1 .. Len(z) : Older(pool, s[k], z[l])
    BY <1>2, <1>5 DEF InList
  <2> SUFFICES ASSUME NEW k \in 1 .. Len(s) + Len(z), NEW l \in 1 .. Len(s) + Len(z),
                      k < l
               PROVE  Older(pool, y[k], y[l])
    BY <1>2 DEF Sorted
  <2>2. CASE k \in 1 .. Len(s) /\ l \in 1 .. Len(s)
    BY <1>2, <1>5, <2>2 DEF Sorted
  <2>3. CASE k \notin 1 .. Len(s) /\ l \notin 1 .. Len(s)
    <3>1. k - Len(s) < l - Len(s)
      BY <1>2
    <3> QED
      BY <1>2, <1>5, <2>3, <3>1 DEF Sorted
  <2>4. CASE k \in 1 .. Len(s) /\ l \notin 1 .. Len(s)
    BY <1>2, <2>1, <2>4
  <2>5. CASE k \notin 1 .. Len(s) /\ l \in 1 .. Len(s)
    BY <1>2, <2>5
  <2> QED
    BY <2>2, <2>3, <2>4, <2>5
<1> QED
  BY <1>1, <1>3, <1>4, <1>5

\* The order of a list only depends on the jobs in it.
LEMMA SortedSame ==
    ASSUME NEW s \in Seq(Jobs), NEW pool, NEW other, Sorted(pool, s),
           \A i \in Jobs : InList(i, s) => other[i] = pool[i]
    PROVE  Sorted(other, s)
<1>1. \A k \in DOMAIN s : other[s[k]] = pool[s[k]]
  BY DEF InList
<1> QED
  BY <1>1 DEF Sorted, Older

-----------------------------------------------------------------------------
(* Steps that move one job *)

LEMMA HeldIs ==
    ASSUME NEW t
    PROVE  /\ Held(t, "queue") = queue[t] /\ Held(t, "done") = done[t]
           /\ Held(t, "active") = fiber[t].active
           /\ Held(t, "queue")' = queue'[t] /\ Held(t, "done")' = done'[t]
           /\ Held(t, "active")' = fiber'[t].active
  BY DEF Held

\* Where job n is does not matter to the others: it is enough that n itself is
\* in its one place afterwards, at list w1 of task t1 or nowhere.
OthersStay(n) ==
    /\ \A j \in Jobs : j # n => job'[j] = job[j]
    /\ \A j \in Jobs, t \in Tasks, w \in ListKinds : j # n => (In(j, t, w)' <=> In(j, t, w))
    /\ \A t \in Tasks, w \in ListKinds : Distinct(Held(t, w))'

LEMMA OneJobMoves ==
    ASSUME Types, OnePlace, Pooled, Rest,
           \A t \in Tasks : Live(t) => Live(t)',
           NEW n \in Jobs, NEW t1 \in Tasks, NEW w1 \in ListKinds, OthersStay(n),
           \A t \in Tasks, w \in ListKinds : In(n, t, w)' => t = t1 /\ w = w1,
           In(n, t1, w1)' =>
             /\ Live(t1)' /\ job'[n] # NoJob
             /\ w1 = "done" <=> "done" \in job'[n].flags
             /\ w1 = "active" => job'[n].kind # "msg"
             /\ t1 = Root /\ w1 # "done" => "exit" \notin job'[n].flags,
           job'[n] # NoJob => job'[n].kind = "text" \/ In(n, t1, w1)',
           job'[n].kind = "msg" => job'[n].flags = {} /\ job'[n].arg \in 0 .. calls' - 1
    PROVE  OnePlace' /\ Pooled'
<1>1. OnePlace'
  <2>1. \A t \in Tasks, w \in ListKinds : Distinct(Held(t, w))'
    BY DEF OthersStay
  <2>2. ASSUME NEW j \in Jobs, NEW t \in Tasks, NEW u \in Tasks,
               NEW w \in ListKinds, NEW v \in ListKinds, In(j, t, w)', In(j, u, v)'
        PROVE  t = u /\ w = v
    <3>1. CASE j = n
      BY <2>2, <3>1
    <3>2. CASE j # n
      <4>1. In(j, t, w) /\ In(j, u, v)
        BY <2>2, <3>2 DEF OthersStay
      <4> QED
        BY <4>1 DEF OnePlace
    <3> QED
      BY <3>1, <3>2
  <2> QED
    BY <2>1, <2>2 DEF OnePlace
<1>2. ASSUME NEW j \in Jobs, NEW t \in Tasks, NEW w \in ListKinds, In(j, t, w)'
      PROVE  /\ Live(t)' /\ job'[j] # NoJob
             /\ w = "done" <=> "done" \in job'[j].flags
             /\ w = "active" => job'[j].kind # "msg"
             /\ t = Root /\ w # "done" => "exit" \notin job'[j].flags
  <2>1. CASE j = n
    BY <1>2, <2>1
  <2>2. CASE j # n
    <3>1. In(j, t, w) /\ job'[j] = job[j]
      BY <1>2, <2>2 DEF OthersStay
    <3> QED
      BY <3>1 DEF Pooled
  <2> QED
    BY <2>1, <2>2
<1>3. ASSUME NEW j \in Jobs, job'[j] # NoJob, job'[j].kind # "text"
      PROVE  \E t \in Tasks, w \in ListKinds : In(j, t, w)'
  <2>1. CASE j = n
    BY <1>3, <2>1
  <2>2. CASE j # n
    <3>1. job'[j] = job[j]
      BY <2>2 DEF OthersStay
    <3>2. PICK t \in Tasks, w \in ListKinds : In(j, t, w)
      BY <1>3, <3>1 DEF Pooled
    <3> QED
      BY <2>2, <3>2 DEF OthersStay
  <2> QED
    BY <2>1, <2>2
<1>4. ASSUME NEW j \in Jobs, job'[j].kind = "msg"
      PROVE  job'[j].flags = {} /\ job'[j].arg \in 0 .. calls' - 1
  <2>1. CASE j = n
    BY <1>4, <2>1
  <2>2. CASE j # n
    <3>1. job'[j] = job[j]
      BY <2>2 DEF OthersStay
    <3>2. job[j].flags = {} /\ job[j].arg \in 0 .. calls - 1
      BY <1>4, <3>1 DEF Pooled
    <3>3. calls \in Nat /\ calls' \in Nat /\ calls <= calls'
      BY Numbers DEF Rest, Types
    <3> QED
      BY <3>1, <3>2, <3>3
  <2> QED
    BY <2>1, <2>2
<1>5. Pooled'
  BY <1>2, <1>3, <1>4 DEF Pooled
<1> QED
  BY <1>1, <1>5

\* No running TaskText holds job n.
Unreserved(n) == \A t \in Tasks : ~Names(Having(fiber[t].stack, "text"), n)

LEMMA UnreservedIs ==
    ASSUME Reserved, NEW n \in Jobs,
           job[n].kind # "text" \/ \E t \in Tasks, w \in ListKinds : In(n, t, w)
    PROVE  Unreserved(n)
  BY DEF Reserved, Unreserved

LEMMA ReservedStay ==
    ASSUME Reserved, TextsKept,
           \A t \in Tasks, j \in Jobs : Names(Having(fiber[t].stack, "text"), j) =>
              /\ job'[j] = job[j]
              /\ \A u \in Tasks, w \in ListKinds : In(j, u, w)' => In(j, u, w)
    PROVE  Reserved'
<1> SUFFICES ASSUME NEW t \in Tasks
             PROVE  /\ OneEach(Having(fiber'[t].stack, "text"))
                    /\ \A j \in Jobs : Names(Having(fiber'[t].stack, "text"), j) =>
                         /\ job'[j].kind = "text" /\ job'[j].by = t /\ job'[j].flags = {}
                         /\ \A u \in Tasks, w \in ListKinds : ~In(j, u, w)'
  BY DEF Reserved
<1>1. CASE Having(fiber'[t].stack, "text") = <<>>
  <2>1. DOMAIN <<>> = {}
    OBVIOUS
  <2> QED
    BY <1>1, <2>1 DEF OneEach, Names
<1>2. CASE Having(fiber'[t].stack, "text") = Having(fiber[t].stack, "text")
  <2>1. OneEach(Having(fiber'[t].stack, "text"))
    BY <1>2 DEF Reserved
  <2>2. ASSUME NEW j \in Jobs, Names(Having(fiber'[t].stack, "text"), j)
        PROVE  /\ job'[j].kind = "text" /\ job'[j].by = t /\ job'[j].flags = {}
               /\ \A u \in Tasks, w \in ListKinds : ~In(j, u, w)'
    <3>1. Names(Having(fiber[t].stack, "text"), j)
      BY <1>2, <2>2
    <3>2. /\ job[j].kind = "text" /\ job[j].by = t /\ job[j].flags = {}
          /\ \A u \in Tasks, w \in ListKinds : ~In(j, u, w)
      BY <3>1 DEF Reserved
    <3> QED
      BY <3>1, <3>2
  <2> QED
    BY <2>1, <2>2
<1> QED
  BY <1>1, <1>2 DEF TextsKept

LEMMA ReservedOthers ==
    ASSUME Reserved, TextsKept, NEW n \in Jobs, OthersStay(n), Unreserved(n)
    PROVE  Reserved'
<1>1. ASSUME NEW t \in Tasks, NEW j \in Jobs, Names(Having(fiber[t].stack, "text"), j)
      PROVE  /\ job'[j] = job[j]
             /\ \A u \in Tasks, w \in ListKinds : In(j, u, w)' => In(j, u, w)
  <2>1. j # n
    BY <1>1 DEF Unreserved
  <2> QED
    BY <2>1 DEF OthersStay
<1> QED
  BY <1>1, ReservedStay

-----------------------------------------------------------------------------
(* What every step is shown to do *)

\* The three action properties, of one step.
Harmless ==
    /\ \A t \in Tasks : Live(t) /\ fiber'[t].state = "done" => ~fiber[t].cb
    /\ \A t \in Tasks, j \in Jobs :
         /\ Live(t) /\ fiber'[t].state = "run"
         /\ fiber[t].wait = "job" /\ fiber[t].target = j
         /\ \E s \in Tasks : In(j, s, "active")
         /\ job[j].kind = "exe" /\ "free" \notin job[j].flags
         /\ job[j].master \in {None, t}
         => job'[j] # NoJob
    /\ \A t \in Tasks, j \in Jobs :
         /\ Live(t) /\ fiber[t].kind = "filter" /\ In(j, t, "queue")
         /\ job[j].kind = "msg"
         => job'[j] # NoJob \/ (current = t /\ Top.op = "take")

Fine == IInv' /\ Harmless

FiltersStay ==
    \A t \in Tasks : Live(t)' /\ fiber'[t].kind = "filter" =>
       Live(t) /\ fiber[t].kind = "filter" /\ fiber'[t].parent = fiber[t].parent

LEMMA ServerIsTask ==
    ASSUME Tree, Filters, NEW t \in Tasks, Live(t), fiber[t].kind = "filter"
    PROVE  /\ t # Root /\ fiber[t].parent \in Tasks /\ Live(fiber[t].parent)
           /\ fiber[t].parent # t /\ fiber[fiber[t].parent].kind # "filter"
           /\ fiber[fiber[t].parent].filter = t
<1>1. t # Root
  BY Numbers DEF Filters
<1> QED
  BY <1>1 DEF Tree, Filters, Live

\* Taking jobs out of the queues keeps the order.
LEMMA QueuesShrink ==
    ASSUME Tree, Filters, InOrder, FiltersStay,
           \A t \in Tasks : Sorted(job', queue'[t]),
           \A t \in Tasks, j \in Jobs : In(j, t, "queue")' =>
              In(j, t, "queue") /\ job'[j] = job[j]
    PROVE  InOrder'
<1>1. ASSUME NEW t \in Tasks, NEW i \in Jobs, NEW j \in Jobs,
             Live(t)', fiber'[t].kind = "filter",
             In(i, fiber[t].parent, "queue")', In(j, t, "queue")'
      PROVE  Older(job', i, j)
  <2>1. Live(t) /\ fiber[t].kind = "filter" /\ fiber'[t].parent = fiber[t].parent
    BY <1>1 DEF FiltersStay
  <2>2. PICK p \in Tasks : p = fiber[t].parent
    BY <2>1, ServerIsTask
  <2>3. In(i, p, "queue")'
    BY <1>1, <2>1, <2>2 DEF In, Held
  <2>4. In(i, p, "queue") /\ In(j, t, "queue") /\ job'[i] = job[i] /\ job'[j] = job[j]
    BY <1>1, <2>3
  <2>5. Older(job, i, j)
    BY <2>1, <2>2, <2>4 DEF InOrder
  <2> QED
    BY <2>4, <2>5 DEF Older
<1>2. \A t \in Tasks : Sorted(job, queue[t])'
  BY DEF Sorted, Older
<1> QED
  BY <1>1, <1>2 DEF InOrder, Older

LEMMA FineIs ==
    ASSUME IInv, Family, Rest,
           queue' \in [Tasks -> Seq(Jobs)], done' \in [Tasks -> Seq(Jobs)],
           DOMAIN job' = Jobs, \A j \in Jobs : job'[j] = NoJob \/ JobType(job'[j]),
           OnePlace', Pooled', Reserved', InOrder', Harmless
    PROVE  Fine
<1>1. /\ \A t \in Tasks : FiberType(fiber'[t])
      /\ Stacks' /\ Tree' /\ Filters'
  BY FamilyLives DEF IInv
<1>2. Types'
  <2>1. calls' \in 0 .. guest'.calls /\ guest' \in Guests
    BY Numbers DEF IInv, Types, Rest
  <2>2. DOMAIN fiber' = Tasks
    BY DEF Family
  <2> QED
    BY <1>1, <2>1, <2>2 DEF Types, Rest, FiberType, JobType, NoJob
<1>3. fail' \notin TreeFailures
  BY DEF Rest
<1>4. (fail \notin TreeFailures)'
  BY <1>3 DEF TreeFailures
<1> QED
  BY <1>1, <1>2, <1>4 DEF Fine, IInv

\* Of a family, only a job that is removed could be missed.
LEMMA HarmlessIs ==
    ASSUME IInv, Family,
           \A j \in Jobs : job[j] # NoJob /\ job'[j] = NoJob =>
              /\ \A t \in Tasks : ~In(j, t, "active")
              /\ \A t \in Tasks : fiber[t].kind = "filter" /\ In(j, t, "queue") =>
                    current = t /\ Top.op = "take"
    PROVE  Harmless
<1>1. ASSUME NEW t \in Tasks, Live(t) PROVE fiber'[t].state # "done"
  <2>1. Live(t)'
    BY <1>1, FamilyLives DEF IInv
  <2> QED
    BY <2>1 DEF Live
<1>2. \A j \in Jobs, t \in Tasks, w \in ListKinds : In(j, t, w) => job[j] # NoJob
  BY DEF IInv, Pooled
<1>3. "active" \in ListKinds /\ "queue" \in ListKinds
  BY DEF ListKinds
<1>4. ASSUME NEW t \in Tasks, NEW j \in Jobs, \E s \in Tasks : In(j, s, "active")
      PROVE  job'[j] # NoJob
  BY <1>2, <1>3, <1>4
<1>5. ASSUME NEW t \in Tasks, NEW j \in Jobs, fiber[t].kind = "filter", In(j, t, "queue")
      PROVE  job'[j] # NoJob \/ (current = t /\ Top.op = "take")
  BY <1>2, <1>3, <1>5
<1> QED
  BY <1>1, <1>4, <1>5 DEF Harmless

LEMMA FamilyFilters ==
    ASSUME IInv, Family
    PROVE  FiltersStay /\ \A t \in Tasks : Live(t) => Live(t)'
  BY FamilyLives DEF IInv, FiltersStay

\* A step of the running task, or a birth, that leaves the jobs alone.
LEMMA JobsAsTheyAre ==
    ASSUME IInv, Family, Rest, ActiveKept, TextsKept, UNCHANGED jobVars
    PROVE  Fine
<1>1. queue' = queue /\ done' = done /\ job' = job
  BY DEF jobVars
<1>2. \A t \in Tasks, w \in ListKinds : Held(t, w)' = Held(t, w)
  BY <1>1 DEF Held, ActiveKept
<1>3. \A j \in Jobs, t \in Tasks, w \in ListKinds : In(j, t, w)' <=> In(j, t, w)
  BY <1>2 DEF In, InList
<1>4. FiltersStay /\ \A t \in Tasks : Live(t) => Live(t)'
  BY FamilyFilters
<1>5. OnePlace'
  <2>1. \A t \in Tasks, w \in ListKinds : Distinct(Held(t, w))'
    BY <1>2 DEF IInv, OnePlace, Distinct
  <2> QED
    BY <1>3, <2>1 DEF IInv, OnePlace
<1>6. Pooled'
  <2>1. ASSUME NEW j \in Jobs, job[j].kind = "msg"
        PROVE  job[j].flags = {} /\ job[j].arg \in 0 .. calls' - 1
    <3>1. job[j].flags = {} /\ job[j].arg \in 0 .. calls - 1
      BY <2>1 DEF IInv, Pooled
    <3>2. calls \in Nat /\ calls' \in Nat /\ calls <= calls'
      BY Numbers DEF Rest, IInv, Types
    <3> QED
      BY <3>1, <3>2
  <2>2. ASSUME NEW j \in Jobs, NEW t \in Tasks, NEW w \in ListKinds, In(j, t, w)'
        PROVE  /\ Live(t)' /\ job[j] # NoJob
               /\ w = "done" <=> "done" \in job[j].flags
               /\ w = "active" => job[j].kind # "msg"
               /\ t = Root /\ w # "done" => "exit" \notin job[j].flags
    BY <1>3, <1>4, <2>2 DEF IInv, Pooled
  <2>3. \A j \in Jobs : job[j] # NoJob =>
           \/ job[j].kind = "text"
           \/ \E t \in Tasks, w \in ListKinds : In(j, t, w)'
    BY <1>3 DEF IInv, Pooled
  <2> QED
    BY <1>1, <2>1, <2>2, <2>3 DEF Pooled
<1>7. Reserved'
  BY <1>1, <1>3, ReservedStay DEF IInv
<1>8. InOrder'
  <2>1. \A t \in Tasks : Sorted(job', queue'[t])
    BY <1>1 DEF IInv, InOrder
  <2>2. \A t \in Tasks, j \in Jobs : In(j, t, "queue")' =>
           In(j, t, "queue") /\ job'[j] = job[j]
    BY <1>1, <1>3 DEF ListKinds
  <2> QED
    BY <1>4, <2>1, <2>2, QueuesShrink DEF IInv
<1>9. Harmless
  BY <1>1, HarmlessIs
<1>10. /\ queue' \in [Tasks -> Seq(Jobs)] /\ done' \in [Tasks -> Seq(Jobs)]
       /\ DOMAIN job' = Jobs /\ \A j \in Jobs : job'[j] = NoJob \/ JobType(job'[j])
  BY <1>1 DEF IInv, Types
<1> QED
  BY <1>5, <1>6, <1>7, <1>8, <1>9, <1>10, FineIs

-----------------------------------------------------------------------------
(* Steps of the running task that leave the jobs alone *)

\* What such a step leaves of the running task besides its stack.
Like(g) ==
    /\ DOMAIN g = Fields
    /\ g.state = "run" /\ g.kind = Me.kind /\ g.parent = Me.parent
    /\ g.filter = Me.filter /\ g.active = Me.active /\ g.num = Me.num
    /\ g.target \in Tasks \cup Jobs \cup {None}
    /\ g.cb \in BOOLEAN /\ g.idle \in BOOLEAN
    /\ current = Root => g.kill = FALSE

Clock == guest' = guest /\ calls' \in calls .. guest.calls
Apart == UNCHANGED <<current, serial, fail>> /\ Clock

LEMMA ClockIs ==
    ASSUME IInv
    PROVE  /\ Apart => Rest
           /\ \A name : Call(name) => Running /\ GuestRuns /\ Clock
           /\ \A op : At(op) => Running /\ Top.op = op /\ Clock
<1>1. /\ current \in Tasks /\ serial \in Nat /\ fail \notin TreeFailures
      /\ guest \in Guests /\ calls \in 0 .. guest.calls /\ guest.calls \in Nat
  BY Numbers DEF IInv, Types
<1>2. Apart => Rest
  BY <1>1 DEF Apart, Clock, Rest
<1>3. ASSUME NEW name, Call(name) PROVE Running /\ GuestRuns /\ Clock
  BY <1>1, <1>3 DEF Call, Clock
<1>4. ASSUME NEW op, At(op) PROVE Running /\ Top.op = op /\ Clock
  BY <1>1, <1>4 DEF At, Clock
<1> QED
  BY <1>2, <1>3, <1>4

LEMMA MeIs ==
    ASSUME IInv, Running
    PROVE  /\ current \in Tasks /\ Live(current) /\ FiberType(Me)
           /\ Me.state = "run" /\ Stacked(current, Me.stack, Me.active)
           /\ current = Root => Me.kill = FALSE
           /\ Me.stack \in Seq(Frames) /\ Me.stack # <<>>
           /\ Top \in Frames /\ Like(Me) /\ Me = fiber[current]
<1>1. /\ current \in Tasks /\ Live(current) /\ FiberType(fiber[current])
      /\ fiber[current].state = "run"
      /\ Stacked(current, fiber[current].stack, fiber[current].active)
      /\ current = Root => fiber[current].kill = FALSE
  BY DEF Running, IInv, Types, Stacks, Live
<1>2. /\ fiber[current].stack \in Seq(Frames) /\ fiber[current].stack # <<>>
      /\ Head(fiber[current].stack) \in Frames
  BY <1>1, StackTop
<1> QED
  BY <1>1, <1>2 DEF Me, Top, Like, FiberType

LEMMA LikeKeeps ==
    ASSUME IInv, Running, NEW g, Like(g), Stacked(current, g.stack, Me.active)
    PROVE  Keeps(current, g)
<1>1. FiberType(Me) /\ Me = fiber[current]
  BY MeIs
<1>2. g.stack \in Seq(Frames)
  BY DEF Stacked
<1>3. FiberType(g)
  BY <1>1, <1>2 DEF Like, FiberType
<1> QED
  BY <1>1, <1>3 DEF Keeps, Like

\* The running task goes on as g.
LEMMA MyStep ==
    ASSUME IInv, Running, NEW g, Like(g), OnStack(current, Me.stack, g.stack, Me.active),
           SetMe(g), UNCHANGED jobVars, Rest
    PROVE  Fine
<1>1. current \in Tasks /\ Live(current) /\ Me = fiber[current] /\ DOMAIN fiber = Tasks
  BY MeIs DEF IInv, Types
<1>2. Keeps(current, g)
  BY LikeKeeps DEF OnStack
<1>3. /\ DOMAIN fiber' = Tasks /\ fiber'[current] = g
      /\ \A t \in Tasks : t # current => fiber'[t] = fiber[t]
  BY <1>1 DEF SetMe
<1>4. Family
  BY <1>1, <1>2, <1>3 DEF Family
<1>5. ActiveKept
  BY <1>1, <1>3 DEF ActiveKept, Like
<1>6. TextsKept
  <2>1. Having(g.stack, "text") \in {Having(fiber[current].stack, "text"), <<>>}
    BY <1>1 DEF OnStack
  <2> QED
    BY <1>3, <2>1 DEF TextsKept
<1> QED
  BY <1>4, <1>5, <1>6, JobsAsTheyAre

Quiet(g) == SetMe(g) /\ UNCHANGED jobVars /\ Apart

LEMMA PushStep ==
    ASSUME IInv, Running, NEW fr \in Frames, fr.op \notin Bottom \cup {"body", "text"},
           NEW g, Like(g), g.stack = <<fr>> \o Me.stack, Quiet(g)
    PROVE  Fine
<1>1. Stacked(current, Me.stack, Me.active)
  BY MeIs
<1>2. OnStack(current, Me.stack, <<fr>> \o Me.stack, Me.active)
  BY <1>1, OnSame, OnPush
<1> QED
  BY <1>2, MyStep, ClockIs DEF Quiet

LEMMA PopStep ==
    ASSUME IInv, Running, Top.op \notin Bottom \cup {"body", "text"},
           NEW g, Like(g), g.stack = Tail(Me.stack), Quiet(g)
    PROVE  Fine
<1>1. Stacked(current, Me.stack, Me.active)
  BY MeIs
<1>2. OnStack(current, Me.stack, Tail(Me.stack), Me.active)
  BY <1>1, OnSame, OnPop DEF Top
<1> QED
  BY <1>2, MyStep, ClockIs DEF Quiet

LEMMA ReplaceStep ==
    ASSUME IInv, Running, Top.op \notin Bottom \cup {"body", "text"},
           NEW fr \in Frames, fr.op \notin Bottom \cup {"body", "text"},
           NEW g, Like(g), g.stack = <<fr>> \o Tail(Me.stack), Quiet(g)
    PROVE  Fine
<1>1. Stacked(current, Me.stack, Me.active)
  BY MeIs
<1>2. OnStack(current, Me.stack, Tail(Me.stack), Me.active)
  BY <1>1, OnSame, OnPop DEF Top
<1>3. OnStack(current, Me.stack, <<fr>> \o Tail(Me.stack), Me.active)
  BY <1>2, OnPush
<1> QED
  BY <1>3, MyStep, ClockIs DEF Quiet

\* Two frames for one, of which the second may be at the bottom.
LEMMA ReplaceTwoStep ==
    ASSUME IInv, Running, Top.op \notin {"body", "text"},
           NEW f1 \in Frames, f1.op \notin Bottom \cup {"body", "text"},
           NEW f2 \in Frames, f2.op \notin {"body", "text"},
           f2.op \in Bottom => f2.op # "filter",
           f2.op \in Bottom <=> Top.op \in Bottom,
           Top.op \in Bottom => current # Root,
           NEW g, Like(g), g.stack = <<f1, f2>> \o Tail(Me.stack), Quiet(g)
    PROVE  Fine
<1>1. Stacked(current, Me.stack, Me.active) /\ Tail(Me.stack) \in Seq(Frames)
  BY MeIs, StackTop
<1>2. PICK z \in Seq(Frames) : z = Tail(Me.stack)
  BY <1>1
<1>3. OnStack(current, Me.stack, <<f2>> \o z, Me.active)
  <2>1. CASE Top.op \in Bottom
    BY <1>1, <1>2, <2>1, OnLoop DEF Top
  <2>2. CASE Top.op \notin Bottom
    <3>1. OnStack(current, Me.stack, z, Me.active)
      BY <1>1, <1>2, <2>2, OnSame, OnPop DEF Top
    <3> QED
      BY <2>2, <3>1, OnPush
  <2> QED
    BY <2>1, <2>2
<1>4. OnStack(current, Me.stack, <<f1>> \o (<<f2>> \o z), Me.active)
  BY <1>3, OnPush
<1>5. <<f1, f2>> \o z = <<f1>> \o (<<f2>> \o z)
  <2>1. <<f1>> \in Seq(Frames) /\ <<f2>> \in Seq(Frames) /\ <<f1, f2>> = <<f1>> \o <<f2>>
    OBVIOUS
  <2> QED
    BY <2>1, ConcatAssociative
<1> QED
  BY <1>2, <1>4, <1>5, MyStep, ClockIs DEF Quiet

LEMMA SameStackStep ==
    ASSUME IInv, Running, NEW g, Like(g), g.stack = Me.stack, Quiet(g)
    PROVE  Fine
<1>1. OnStack(current, Me.stack, Me.stack, Me.active)
  BY MeIs, OnSame
<1> QED
  BY <1>1, MyStep, ClockIs DEF Quiet

LEMMA FreshStep ==
    ASSUME IInv, Running, current # Root, NEW fr \in Frames, fr.op \in Bottom,
           fr.op = "filter" => Me.kind = "filter",
           NEW g, Like(g), g.stack = <<fr>>, Quiet(g)
    PROVE  Fine
<1>1. OnStack(current, Me.stack, <<fr>>, Me.active)
  BY OnFresh DEF Me
<1> QED
  BY <1>1, MyStep, ClockIs DEF Quiet

\* Ending abandons the stack.
LEMMA EndedIs ==
    ASSUME IInv, Running, NEW f, Like(f), f.stack \in Seq(Frames)
    PROVE  /\ Frame("teardown") \in Frames /\ Frame("teardown").op \in Bottom
           /\ Frame("teardown").op # "filter"
           /\ Ended(f).stack = <<Frame("teardown")>>
           /\ current # Root => Like(Ended(f))
<1>1. "teardown" \in FrameOps /\ "teardown" \in Bottom
  BY DEF FrameOps, Bottom
<1>2. Frame("teardown") \in Frames /\ Frame("teardown").op = "teardown"
  <2>1. None \in Tasks \cup Jobs \cup {None} /\ FALSE \in BOOLEAN /\ 0 \in Nat
    OBVIOUS
  <2> QED
    BY <1>1, <2>1, FrameTyped
<1>3. Ended(f).stack = <<Frame("teardown")>>
  BY DEF Ended, Like, Fields
<1>4. current # Root => Like(Ended(f))
  BY DEF Ended, Like, Fields
<1> QED
  BY <1>1, <1>2, <1>3, <1>4

LEMMA EndStep ==
    ASSUME IInv, Running, current # Root, NEW f, Like(f), f.stack \in Seq(Frames),
           Quiet(Ended(f))
    PROVE  Fine
<1>1. PICK fr \in Frames : /\ fr = Frame("teardown") /\ fr.op \in Bottom
                           /\ fr.op # "filter"
  BY EndedIs
<1>2. PICK g : g = Ended(f) /\ Like(g) /\ g.stack = <<fr>>
  BY <1>1, EndedIs
<1> QED
  BY <1>1, <1>2, FreshStep

\* The loops and continuations of host functions.
HostOps == FrameOps \ (Bottom \cup {"body", "text", "exit"})

LEMMA HostFrame ==
    ASSUME NEW op \in HostOps, NEW x \in Tasks \cup Jobs \cup {None},
           NEW b \in BOOLEAN, NEW n \in Nat
    PROVE  /\ FrameOn(op, x, b, n) \in Frames /\ FrameOn(op, x, b, n).op = op
           /\ FrameOn(op, x, b, n).op \notin Bottom \cup {"body", "text"}
           /\ Frame(op) \in Frames /\ Frame(op).op = op
           /\ Frame(op).op \notin Bottom \cup {"body", "text"}
  BY FrameTyped DEF HostOps

LEMMA YieldPushed ==
    ASSUME IInv, Running, SetMe(Pushed(Frame("yield"))), UNCHANGED jobVars, Apart
    PROVE  Fine
<1>1. "yield" \in HostOps
  BY DEF HostOps, FrameOps, Bottom
<1>2. PICK fr \in Frames : fr = Frame("yield") /\ fr.op \notin Bottom \cup {"body", "text"}
  BY <1>1, HostFrame
<1>3. PICK g : g = Pushed(fr)
  OBVIOUS
<1>4. Like(g) /\ g.stack = <<fr>> \o Me.stack
  BY <1>3, MeIs DEF Pushed, Like, Fields
<1> QED
  BY <1>2, <1>3, <1>4, PushStep DEF Quiet

LEMMA YieldFine ==
    ASSUME IInv, Yield
    PROVE  Fine
  BY ClockIs, YieldPushed DEF Yield, Apart

LEMMA SleepFine ==
    ASSUME IInv, Sleep
    PROVE  Fine
<1>1. Running /\ Apart /\ UNCHANGED jobVars
  BY ClockIs DEF Sleep, Apart
<1>2. "sleep" \in HostOps /\ Me.idle \in BOOLEAN
  BY <1>1, MeIs DEF HostOps, FrameOps, Bottom, FiberType
<1>3. PICK fr \in Frames : /\ fr = FrameOn("sleep", None, Me.idle, 0)
                           /\ fr.op \notin Bottom \cup {"body", "text"}
  BY <1>2, HostFrame
<1>4. PICK g : g = [Pushed(fr) EXCEPT !.idle = TRUE, !.wait = "timer", !.due = FALSE]
  OBVIOUS
<1>5. Like(g) /\ g.stack = <<fr>> \o Me.stack
  BY <1>1, <1>4, MeIs DEF Pushed, Like, Fields
<1> QED
  BY <1>1, <1>3, <1>4, <1>5, PushStep DEF Quiet, Sleep

LEMMA SetCallbackFine ==
    ASSUME IInv, SetCallback
    PROVE  Fine
<1>1. Running /\ Apart /\ UNCHANGED jobVars
  BY ClockIs DEF SetCallback, Apart
<1>2. PICK g : g = [Me EXCEPT !.cb = TRUE]
  OBVIOUS
<1>3. Like(g) /\ g.stack = Me.stack
  BY <1>1, <1>2, MeIs DEF Like, Fields
<1> QED
  BY <1>1, <1>2, <1>3, SameStackStep DEF Quiet, SetCallback

LEMMA ExitFine ==
    ASSUME IInv, Exit
    PROVE  Fine
<1>1. Running /\ Apart /\ UNCHANGED jobVars /\ current # Root
  BY ClockIs DEF Exit, Apart, App
<1>2. Like(Me) /\ Me.stack \in Seq(Frames)
  BY <1>1, MeIs
<1>3. PICK f : f = Me
  OBVIOUS
<1> QED
  BY <1>1, <1>2, <1>3, EndStep DEF Quiet, Exit

\* A wait keeps its condition in the task and pushes its loop.
LEMMA WaitStep ==
    ASSUME IInv, Running, NEW f, Like(f), NEW s, f.stack = s,
           OnStack(current, Me.stack, s, Me.active),
           NEW kind, NEW x \in Tasks \cup Jobs \cup {None}, NEW n \in Nat
    PROVE  /\ Like(Waiting(f, kind, x, n))
           /\ OnStack(current, Me.stack, Waiting(f, kind, x, n).stack, Me.active)
<1>1. PICK b \in BOOLEAN : b = (kind = "death")
  OBVIOUS
<1>2. PICK fr \in Frames : /\ fr = FrameOn("wait", x, b, n)
                           /\ fr.op \notin Bottom \cup {"body", "text"}
  <2>1. "wait" \in HostOps
    BY DEF HostOps, FrameOps, Bottom
  <2> QED
    BY <2>1, HostFrame
<1>3. PICK g : g = Waiting(f, kind, x, n)
  OBVIOUS
<1>4. Like(g) /\ g.stack = <<fr>> \o s
  BY <1>1, <1>2, <1>3 DEF Waiting, Like, Fields
<1>5. OnStack(current, Me.stack, <<fr>> \o s, Me.active)
  BY <1>2, OnPush
<1> QED
  BY <1>3, <1>4, <1>5

LEMMA WaitFine ==
    ASSUME IInv, Running, NEW kind, NEW x \in Tasks \cup Jobs \cup {None}, NEW n \in Nat,
           Quiet(Waiting(Me, kind, x, n))
    PROVE  Fine
<1>1. Like(Me) /\ OnStack(current, Me.stack, Me.stack, Me.active)
  BY MeIs, OnSame
<1>2. PICK f, g : f = Me /\ g = Waiting(f, kind, x, n)
  OBVIOUS
<1>3. Like(g) /\ OnStack(current, Me.stack, g.stack, Me.active)
  BY <1>1, <1>2, WaitStep
<1> QED
  BY <1>2, <1>3, MyStep, ClockIs DEF Quiet

\* What a step does to a live task whose links, dispatches and reserved jobs
\* stay; a nudge only touches what it waits for.
Calm(t, g) ==
    /\ Keeps(t, g) /\ g.active = fiber[t].active
    /\ Having(g.stack, "text") \in {Having(fiber[t].stack, "text"), <<>>}
Nudged(t, g) ==
    /\ DOMAIN g = Fields
    /\ g.state = "run" /\ g.kind = fiber[t].kind /\ g.parent = fiber[t].parent
    /\ g.filter = fiber[t].filter /\ g.active = fiber[t].active
    /\ g.num = fiber[t].num /\ g.target = fiber[t].target /\ g.cb = fiber[t].cb
    /\ g.idle \in BOOLEAN /\ g.stack = fiber[t].stack
    /\ t = Root => g.kill = FALSE

Calmly ==
    /\ DOMAIN fiber' = Tasks
    /\ \A t \in Tasks : \/ fiber'[t] = fiber[t]
                        \/ Live(t) /\ Calm(t, fiber'[t])
                        \/ ~Live(t) /\ Born(t, fiber'[t])

LEMMA CalmMe ==
    ASSUME IInv, Running, NEW g, Like(g), OnStack(current, Me.stack, g.stack, Me.active)
    PROVE  Calm(current, g)
<1>1. Keeps(current, g) /\ Me = fiber[current]
  BY LikeKeeps, MeIs DEF OnStack
<1> QED
  BY <1>1 DEF Calm, Like, OnStack

LEMMA CalmNudge ==
    ASSUME IInv, NEW t \in Tasks, Live(t), NEW g, Nudged(t, g)
    PROVE  Calm(t, g)
<1>1. FiberType(fiber[t]) /\ Stacked(t, fiber[t].stack, fiber[t].active)
  BY DEF IInv, Types, Stacks
<1>2. FiberType(g)
  BY <1>1 DEF FiberType, Nudged
<1> QED
  BY <1>1, <1>2 DEF Calm, Keeps, Nudged

LEMMA CalmFamily ==
    ASSUME IInv, Calmly
    PROVE  Family /\ ActiveKept /\ TextsKept
<1>1. Family
  BY DEF Calmly, Family, Calm
<1>2. ASSUME NEW t \in Tasks
      PROVE  /\ fiber'[t].active = fiber[t].active
             /\ Having(fiber'[t].stack, "text") \in {Having(fiber[t].stack, "text"), <<>>}
  <2>1. CASE ~Live(t) /\ Born(t, fiber'[t])
    <3>1. t # Root /\ fiber[t].active = <<>>
      BY <2>1 DEF IInv, Tree, Stacks
    <3>2. PICK g : g = fiber'[t] /\ Born(t, g)
      BY <2>1
    <3>3. g.active = <<>> /\ Having(g.stack, "text") = <<>>
      BY <3>1, <3>2, BornIs
    <3> QED
      BY <3>1, <3>2, <3>3
  <2>2. CASE ~(~Live(t) /\ Born(t, fiber'[t]))
    BY <2>2 DEF Calmly, Calm
  <2> QED
    BY <2>1, <2>2
<1> QED
  BY <1>1, <1>2 DEF ActiveKept, TextsKept

LEMMA CalmStep ==
    ASSUME IInv, Calmly, UNCHANGED jobVars, Rest
    PROVE  Fine
  BY CalmFamily, JobsAsTheyAre

\* zc_fail ends the session.
LEMMA FailStep ==
    ASSUME IInv, NEW why, why \notin TreeFailures, Fails(why), Clock
    PROVE  Fine
<1>1. /\ fiber' = fiber /\ UNCHANGED jobVars
      /\ current' = current /\ serial' = serial /\ fail' = why
  BY DEF Fails, jobVars
<1>2. Calmly
  BY <1>1 DEF Calmly, IInv, Types
<1>3. Rest
  BY <1>1 DEF Rest, Clock, IInv, Types
<1> QED
  BY <1>1, <1>2, <1>3, CalmStep

\* One task is nudged.
LEMMA NudgeStep ==
    ASSUME IInv, NEW t \in Tasks, Live(t), NEW g, Nudged(t, g),
           fiber' = [fiber EXCEPT ![t] = g], UNCHANGED jobVars, Apart
    PROVE  Fine
<1>1. DOMAIN fiber = Tasks
  BY DEF IInv, Types
<1>2. Calm(t, g)
  BY CalmNudge
<1>3. Calmly
  BY <1>1, <1>2 DEF Calmly
<1> QED
  BY <1>3, CalmStep, ClockIs

LEMMA SuspendFine ==
    ASSUME IInv, Suspend
    PROVE  Fine
<1>1. Apart /\ UNCHANGED jobVars
  BY ClockIs DEF Suspend, Apart
<1>2. PICK t \in Tasks \ {Root, System} :
          Live(t) /\ fiber' = [fiber EXCEPT ![t].susp = ~@]
  BY DEF Suspend
<1>3. FiberType(fiber[t])
  BY DEF IInv, Types
<1>4. PICK g : g = [fiber[t] EXCEPT !.susp = ~@]
  OBVIOUS
<1>5. Nudged(t, g)
  BY <1>2, <1>3, <1>4 DEF Nudged, FiberType, Fields, Live
<1>6. fiber' = [fiber EXCEPT ![t] = g]
  BY <1>2, <1>4
<1> QED
  BY <1>1, <1>2, <1>5, <1>6, NudgeStep

LEMMA TickFine ==
    ASSUME IInv, Tick
    PROVE  Fine
<1>1. Apart /\ UNCHANGED jobVars
  <2>1. calls \in Nat /\ guest.calls \in Nat /\ calls <= guest.calls
    BY Numbers DEF IInv, Types
  <2>2. /\ UNCHANGED jobVars /\ UNCHANGED <<current, serial, fail>>
        /\ guest' = guest /\ calls' = calls
    BY Zenon DEF Tick
  <2> QED
    BY <2>1, <2>2 DEF Apart, Clock
<1>2. PICK t \in Tasks : Live(t) /\ fiber' = [fiber EXCEPT ![t].due = TRUE]
  BY DEF Tick
<1>3. FiberType(fiber[t]) /\ (t = Root => fiber[t].kill = FALSE)
  BY DEF IInv, Types, Stacks
<1>4. PICK g : g = [fiber[t] EXCEPT !.due = TRUE]
  OBVIOUS
<1>5. Nudged(t, g)
  BY <1>2, <1>3, <1>4 DEF Nudged, FiberType, Fields, Live
<1>6. fiber' = [fiber EXCEPT ![t] = g]
  BY <1>2, <1>4
<1> QED
  BY <1>1, <1>2, <1>5, <1>6, NudgeStep

LEMMA BirthWaitFine ==
    ASSUME IInv, BirthWait
    PROVE  Fine
<1>1. Running /\ Apart /\ UNCHANGED jobVars
  BY ClockIs DEF BirthWait, Apart
<1>2. PICK t \in Tasks : SetMe(Waiting(Me, "birth", t, fiber[t].num))
  BY DEF BirthWait
<1>3. PICK n \in Nat : n = fiber[t].num
  BY DEF IInv, Types, FiberType
<1> QED
  BY <1>1, <1>2, <1>3, WaitFine DEF Quiet

LEMMA JobsHandlerFine ==
    ASSUME IInv, JobsHandler
    PROVE  Fine
<1>1. Running /\ Apart /\ UNCHANGED jobVars
  BY ClockIs DEF JobsHandler, Apart
<1>2. "jobs" \in HostOps
  BY DEF HostOps, FrameOps, Bottom
<1>3. PICK fr \in Frames : /\ fr = FrameOn("jobs", None, FALSE, 0)
                           /\ fr.op \notin Bottom \cup {"body", "text"}
  BY <1>2, HostFrame
<1>4. PICK g : g = Pushed(fr)
  OBVIOUS
<1>5. Like(g) /\ g.stack = <<fr>> \o Me.stack
  BY <1>1, <1>4, MeIs DEF Pushed, Like, Fields
<1> QED
  BY <1>1, <1>3, <1>4, <1>5, PushStep DEF Quiet, JobsHandler

LEMMA JobResGetFine ==
    ASSUME IInv, JobResGet
    PROVE  Fine
<1>1. Running /\ Apart /\ UNCHANGED jobVars
  BY ClockIs DEF JobResGet, Apart
<1>2. PICK j \in Jobs : SetMe(Pushed(FrameOn("result", j, FALSE, 0)))
  BY DEF JobResGet
<1>3. "result" \in HostOps
  BY DEF HostOps, FrameOps, Bottom
<1>4. PICK fr \in Frames : /\ fr = FrameOn("result", j, FALSE, 0)
                           /\ fr.op \notin Bottom \cup {"body", "text"}
  BY <1>3, HostFrame
<1>5. PICK g : g = Pushed(fr)
  OBVIOUS
<1>6. Like(g) /\ g.stack = <<fr>> \o Me.stack
  BY <1>1, <1>5, MeIs DEF Pushed, Like, Fields
<1> QED
  BY <1>1, <1>2, <1>4, <1>5, <1>6, PushStep DEF Quiet

LEMMA TaskRunFine ==
    ASSUME IInv, TaskRun
    PROVE  Fine
<1>1. Running /\ Apart /\ UNCHANGED jobVars
  BY ClockIs DEF TaskRun, Apart
<1>2. "run" \in HostOps
  BY DEF HostOps, FrameOps, Bottom
<1>3. PICK fr \in Frames : fr = Frame("run") /\ fr.op \notin Bottom \cup {"body", "text"}
  BY <1>2, HostFrame
<1>4. PICK g : g = Pushed(fr)
  OBVIOUS
<1>5. Like(g) /\ g.stack = <<fr>> \o Me.stack
  BY <1>1, <1>4, MeIs DEF Pushed, Like, Fields
<1> QED
  BY <1>1, <1>3, <1>4, <1>5, PushStep DEF Quiet, TaskRun

LEMMA MessageGetFine ==
    ASSUME IInv, MessageGet
    PROVE  Fine
<1>1. Running /\ Apart /\ UNCHANGED jobVars
  BY ClockIs DEF MessageGet, Apart
<1>2. PICK timed \in BOOLEAN :
         SetMe([Pushed(FrameOn("get", current, timed, 0)) EXCEPT
                   !.idle = FALSE,
                   !.target = IF timed THEN current ELSE @,
                   !.due = IF timed THEN FALSE ELSE @])
  BY DEF MessageGet
<1>3. "get" \in HostOps
  BY DEF HostOps, FrameOps, Bottom
<1>4. PICK fr \in Frames : /\ fr = FrameOn("get", current, timed, 0)
                           /\ fr.op \notin Bottom \cup {"body", "text"}
  BY <1>1, <1>3, HostFrame, MeIs
<1>5. PICK g : g = [Pushed(fr) EXCEPT
                      !.idle = FALSE,
                      !.target = IF timed THEN current ELSE @,
                      !.due = IF timed THEN FALSE ELSE @]
  OBVIOUS
<1>6. Like(g) /\ g.stack = <<fr>> \o Me.stack
  BY <1>1, <1>5, MeIs DEF Pushed, Like, Fields
<1> QED
  BY <1>1, <1>2, <1>4, <1>5, <1>6, PushStep DEF Quiet

-----------------------------------------------------------------------------
(* The loops of waiting host functions *)

LEMMA PopFine ==
    ASSUME IInv, Running, Top.op \notin Bottom \cup {"body", "text"}, Return, Clock
    PROVE  Fine
<1>1. PICK g : g = Popped
  OBVIOUS
<1>2. Like(g) /\ g.stack = Tail(Me.stack)
  BY <1>1, MeIs DEF Popped, Like, Fields
<1>3. Quiet(g)
  BY <1>1 DEF Quiet, Return, Apart
<1> QED
  BY <1>2, <1>3, PopStep

LEMMA YieldAgainFine ==
    ASSUME IInv, Running, YieldAgain, Clock
    PROVE  Fine
  BY YieldPushed DEF YieldAgain, Apart

LEMMA ResumesFine ==
    ASSUME IInv, Running, Top.op \notin Bottom \cup {"body", "text"},
           NEW f, Like(f), f.stack = Tail(Me.stack), Resumes(f), Clock
    PROVE  Fine
<1>1. PICK g : g = [f EXCEPT !.wait = "none"]
  OBVIOUS
<1>2. Like(g) /\ g.stack = Tail(Me.stack)
  BY <1>1 DEF Like, Fields
<1>3. Quiet(g)
  BY <1>1 DEF Quiet, Resumes, Apart
<1> QED
  BY <1>2, <1>3, PopStep

LEMMA PoppedIs ==
    ASSUME IInv, Running
    PROVE  Like(Popped) /\ Popped.stack = Tail(Me.stack)
  BY MeIs DEF Popped, Like, Fields

LEMMA AtHost ==
    ASSUME IInv, NEW op \in HostOps, At(op)
    PROVE  /\ Running /\ Clock /\ Top.op = op /\ Top \in Frames
           /\ Top.op \notin Bottom \cup {"body", "text"}
  BY ClockIs, MeIs DEF HostOps

LEMMA WaitLoopsFine ==
    ASSUME IInv, WaitLoops
    PROVE  Fine
<1>1. /\ Running /\ Clock /\ Top.op \notin Bottom \cup {"body", "text"}
  <2>1. "wait" \in HostOps /\ At("wait")
    BY DEF HostOps, FrameOps, Bottom, WaitLoops
  <2> QED
    BY <2>1, AtHost
<1>2. CASE Resumes(Popped)
  <2>1. PICK f : f = Popped
    OBVIOUS
  <2> QED
    BY <1>1, <1>2, <2>1, PoppedIs, ResumesFine
<1>3. CASE Fails("task wait cannot progress")
  <2>1. PICK why : why = "task wait cannot progress"
    OBVIOUS
  <2>2. why \notin TreeFailures
    BY <2>1, Zenon DEF TreeFailures
  <2> QED
    BY <1>1, <1>3, <2>1, <2>2, FailStep
<1>4. CASE YieldAgain
  BY <1>1, <1>4, YieldAgainFine
<1> QED
  BY <1>2, <1>3, <1>4, Zenon DEF WaitLoops

LEMMA SleepLoopsFine ==
    ASSUME IInv, SleepLoops
    PROVE  Fine
<1>1. /\ Running /\ Clock /\ Top.op \notin Bottom \cup {"body", "text"} /\ Top \in Frames
  <2>1. "sleep" \in HostOps /\ At("sleep")
    BY DEF HostOps, FrameOps, Bottom, SleepLoops
  <2> QED
    BY <2>1, AtHost
<1>2. CASE Resumes([Popped EXCEPT !.idle = Top.flag])
  <2>1. PICK f : f = [Popped EXCEPT !.idle = Top.flag]
    OBVIOUS
  <2>2. Top.flag \in BOOLEAN
    BY <1>1 DEF Frames
  <2>3. Like(f) /\ f.stack = Tail(Me.stack)
    BY <1>1, <2>1, <2>2, PoppedIs DEF Like, Fields
  <2> QED
    BY <1>1, <1>2, <2>1, <2>3, ResumesFine
<1>3. CASE YieldAgain
  BY <1>1, <1>3, YieldAgainFine
<1> QED
  BY <1>2, <1>3, Zenon DEF SleepLoops

LEMMA TimedWaitLoopsFine ==
    ASSUME IInv, TimedWaitLoops
    PROVE  Fine
<1>1. /\ Running /\ Clock /\ Top.op \notin Bottom \cup {"body", "text"}
  <2>1. "timed" \in HostOps /\ At("timed")
    BY DEF HostOps, FrameOps, Bottom, TimedWaitLoops
  <2> QED
    BY <2>1, AtHost
<1>2. CASE Resumes(Popped)
  <2>1. PICK f : f = Popped
    OBVIOUS
  <2> QED
    BY <1>1, <1>2, <2>1, PoppedIs, ResumesFine
<1>3. CASE Fails("timed task wait cannot progress")
  <2>1. PICK why : why = "timed task wait cannot progress"
    OBVIOUS
  <2>2. why \notin TreeFailures
    BY <2>1, Zenon DEF TreeFailures
  <2> QED
    BY <1>1, <1>3, <2>1, <2>2, FailStep
<1>4. CASE YieldAgain
  BY <1>1, <1>4, YieldAgainFine
<1> QED
  BY <1>2, <1>3, <1>4, Zenon DEF TimedWaitLoops

LEMMA KillLoopsFine ==
    ASSUME IInv, KillLoops
    PROVE  Fine
<1>1. /\ Running /\ Clock /\ Top.op \notin Bottom \cup {"body", "text"}
  <2>1. "kill" \in HostOps /\ At("kill")
    BY DEF HostOps, FrameOps, Bottom, KillLoops
  <2> QED
    BY <2>1, AtHost
<1> QED
  BY <1>1, YieldAgainFine, PopFine, Zenon DEF KillLoops

LEMMA SliceLoopsFine ==
    ASSUME IInv, SliceLoops
    PROVE  Fine
<1>1. /\ Running /\ Clock /\ Top.op \notin Bottom \cup {"body", "text"}
  <2>1. "slice" \in HostOps /\ At("slice")
    BY DEF HostOps, FrameOps, Bottom, SliceLoops
  <2> QED
    BY <2>1, AtHost
<1> QED
  BY <1>1, YieldAgainFine, PopFine, Zenon DEF SliceLoops

LEMMA RunLoopsFine ==
    ASSUME IInv, RunLoops
    PROVE  Fine
<1>1. /\ Running /\ Clock /\ Top.op \notin Bottom \cup {"body", "text"}
  <2>1. "run" \in HostOps /\ At("run")
    BY DEF HostOps, FrameOps, Bottom, RunLoops
  <2> QED
    BY <2>1, AtHost
<1> QED
  BY <1>1, YieldAgainFine, PopFine, Zenon DEF RunLoops

LEMMA ShellIdlesFine ==
    ASSUME IInv, ShellIdles
    PROVE  Fine
<1>1. Running /\ Clock
  BY ClockIs DEF ShellIdles
<1> QED
  BY <1>1, YieldAgainFine DEF ShellIdles

LEMMA DeathBeginsFine ==
    ASSUME IInv, DeathBegins
    PROVE  Fine
<1>1. /\ Running /\ Clock /\ Top.op \notin Bottom \cup {"body", "text"} /\ Top \in Frames
  <2>1. "death" \in HostOps /\ At("death")
    BY DEF HostOps, FrameOps, Bottom, DeathBegins
  <2> QED
    BY <2>1, AtHost
<1>2. PICK f : f = Popped
  OBVIOUS
<1>3. PICK x \in Tasks \cup Jobs \cup {None}, n \in Nat : x = Top.on /\ n = Top.num
  BY <1>1 DEF Frames
<1>4. Like(f) /\ f.stack = Tail(Me.stack)
  BY <1>1, <1>2, PoppedIs
<1>5. OnStack(current, Me.stack, Tail(Me.stack), Me.active)
  BY <1>1, MeIs, OnSame, OnPop DEF Top
<1>6. PICK g : g = Waiting(f, "death", x, n)
  OBVIOUS
<1>7. Like(g) /\ OnStack(current, Me.stack, g.stack, Me.active)
  BY <1>1, <1>4, <1>5, <1>6, WaitStep
<1>8. SetMe(g) /\ UNCHANGED jobVars /\ Apart
  BY <1>1, <1>2, <1>3, <1>6 DEF DeathBegins, Apart
<1> QED
  BY <1>1, <1>7, <1>8, MyStep, ClockIs

-----------------------------------------------------------------------------
(* Switching *)

LEMMA NextGuestIsTask ==
    ASSUME NEW fib, NEW from \in Tasks
    PROVE  NextGuest(fib, from) \in Tasks
<1> DEFINE at(k) == (from + k) % (AppTasks + 2)
           ready == {k \in 1 .. AppTasks + 2 : Schedulable(fib, at(k))}
<1>1. AppTasks + 2 \in Nat /\ AppTasks + 2 > 0 /\ from \in Nat
  BY Numbers
<1>2. ASSUME NEW k \in ready PROVE at(k) \in Tasks
  <2>1. PICK a \in Nat, b \in Nat : a = from + k /\ b = AppTasks + 2 /\ b > 0
    BY <1>1
  <2>2. a % b \in 0 .. b - 1
    BY <2>1
  <2> QED
    BY <1>1, <2>1, <2>2, Numbers
<1>3. ASSUME ready # {} PROVE (CHOOSE k \in ready : \A l \in ready : k <= l) \in ready
  <2>1. ready \in SUBSET Nat
    BY <1>1
  <2> HIDE DEF ready
  <2>2. \E k \in ready : \A l \in ready : k <= l
    BY <1>3, <2>1, LeastNumber
  <2> QED
    BY <2>2
<1>4. NextGuest(fib, from) = IF ready = {} THEN Root
                             ELSE at(CHOOSE k \in ready : \A l \in ready : k <= l)
  BY DEF NextGuest
<1> HIDE DEF ready, at
<1> QED
  BY <1>2, <1>3, <1>4, Numbers

LEMMA SwitchFine ==
    ASSUME IInv, Running, Clock, Top.op \notin Bottom \cup {"body", "text"},
           NEW idle \in BOOLEAN, NEW serving \in {0, 1}, Switches(idle, serving)
    PROVE  Fine
<1>1. PICK b \in BOOLEAN : b = (/\ current # Root /\ Me.wait = "none" /\ Me.await
                                /\ queue[current] = <<>>)
  OBVIOUS
<1>2. PICK x \in Tasks \cup Jobs \cup {None} : x = IF b THEN current ELSE None
  BY MeIs
<1>3. PICK fr \in Frames : /\ fr = FrameOn("resumed", x, idle, serving)
                           /\ fr.op \notin Bottom \cup {"body", "text"}
  <2>1. "resumed" \in HostOps
    BY DEF HostOps, FrameOps, Bottom
  <2> QED
    BY <2>1, HostFrame
<1>4. PICK g : g = [Replaced(<<fr>>) EXCEPT
                 !.wait   = IF b THEN "server" ELSE @,
                 !.target = IF b THEN current ELSE @,
                 !.idle   = @ \/ (serving = 1 /\ current = Root)]
  OBVIOUS
<1>5. Like(g) /\ g.stack = <<fr>> \o Tail(Me.stack)
  BY <1>4, MeIs DEF Replaced, Like, Fields
<1>6. /\ SetMe(g) /\ UNCHANGED jobVars /\ serial' = serial /\ fail' = fail
      /\ current' = NextGuest([fiber EXCEPT ![current] = g], current)
  BY <1>1, <1>2, <1>3, <1>4 DEF Switches
<1>7. PICK fib : fib = [fiber EXCEPT ![current] = g]
  OBVIOUS
<1>8. current' \in Tasks
  BY <1>6, <1>7, NextGuestIsTask, MeIs
<1>9. Rest
  BY <1>6, <1>8 DEF Rest, Clock, IInv, Types
<1>10. OnStack(current, Me.stack, <<fr>> \o Tail(Me.stack), Me.active)
  <2>1. PICK z : z = Tail(Me.stack) /\ OnStack(current, Me.stack, z, Me.active)
    BY MeIs, OnSame, OnPop DEF Top
  <2> QED
    BY <1>3, <2>1, OnPush
<1> QED
  BY <1>5, <1>6, <1>9, <1>10, MyStep

LEMMA YieldBeginsFine ==
    ASSUME IInv, YieldBegins
    PROVE  Fine
<1>1. /\ Running /\ Clock /\ Top.op \notin Bottom \cup {"body", "text"}
  <2>1. "yield" \in HostOps /\ At("yield")
    BY DEF HostOps, FrameOps, Bottom, YieldBegins
  <2> QED
    BY <2>1, AtHost
<1>2. Me.idle \in BOOLEAN
  BY <1>1, MeIs DEF FiberType
<1>3. CASE Serves
  <2>1. "jobs" \in HostOps /\ "switch" \in HostOps
    BY DEF HostOps, FrameOps, Bottom
  <2>2. PICK b \in BOOLEAN : b = (Me.active # <<>>)
    OBVIOUS
  <2>3. PICK f1 \in Frames : /\ f1 = FrameOn("jobs", None, b, 0)
                             /\ f1.op \notin Bottom \cup {"body", "text"}
    BY <2>1, HostFrame
  <2>4. PICK f2 \in Frames : /\ f2 = FrameOn("switch", None, Me.idle, 1)
                             /\ f2.op \notin Bottom \cup {"body", "text"}
    BY <1>2, <2>1, HostFrame
  <2>5. PICK g : g = Replaced(<<f1, f2>>)
    OBVIOUS
  <2>6. Like(g) /\ g.stack = <<f1, f2>> \o Tail(Me.stack)
    BY <1>1, <2>5, MeIs DEF Replaced, Like, Fields
  <2>7. Quiet(g)
    BY <1>1, <1>3, <2>2, <2>3, <2>4, <2>5 DEF YieldBegins, Quiet, Apart
  <2> QED
    BY <1>1, <2>3, <2>4, <2>6, <2>7, ReplaceTwoStep
<1>4. CASE ~Serves
  <2>1. PICK b \in BOOLEAN, n \in {0, 1} : b = Me.idle /\ n = 0
    BY <1>2
  <2>2. Switches(b, n)
    BY <1>4, <2>1 DEF YieldBegins
  <2> QED
    BY <1>1, <2>2, SwitchFine
<1> QED
  BY <1>3, <1>4

LEMMA YieldSwitchesFine ==
    ASSUME IInv, YieldSwitches
    PROVE  Fine
<1>1. /\ Running /\ Clock /\ Top.op \notin Bottom \cup {"body", "text"} /\ Top \in Frames
  <2>1. "switch" \in HostOps /\ At("switch")
    BY DEF HostOps, FrameOps, Bottom, YieldSwitches
  <2> QED
    BY <2>1, AtHost
<1>2. PICK b \in BOOLEAN, n \in {0, 1} : b = Top.flag /\ n = 1
  BY <1>1 DEF Frames
<1>3. Switches(b, n)
  BY <1>2 DEF YieldSwitches
<1> QED
  BY <1>1, <1>3, SwitchFine

\* A task that was killed while it was away ends when it comes back; the root
\* is never killed.
LEMMA AfterYieldFine ==
    ASSUME IInv, Running, Clock, Top.op \notin Bottom \cup {"body", "text"},
           SetMe(AfterYield(Me, Top)), UNCHANGED <<jobVars, current, serial, fail>>
    PROVE  Fine
<1>1. Apart /\ UNCHANGED jobVars
  BY DEF Apart, jobVars
<1>2. Top.flag \in BOOLEAN
  BY MeIs DEF Frames
<1>3. PICK g : g = [Me EXCEPT !.stack = Tail(@),
                       !.idle = IF Top.num = 1 THEN Top.flag ELSE @,
                       !.wait = IF Top.on # None THEN "none" ELSE @]
  OBVIOUS
<1>4. Like(g) /\ g.stack = Tail(Me.stack)
  BY <1>2, <1>3, MeIs DEF Like, Fields
<1>5. CASE Me.kill /\ ~Me.ending
  <2>1. current # Root
    BY <1>5, MeIs
  <2>2. SetMe(Ended(g))
    BY <1>3, <1>5 DEF AfterYield
  <2>3. g.stack \in Seq(Frames)
    BY <1>4, MeIs, StackTop
  <2> QED
    BY <1>1, <1>4, <2>1, <2>2, <2>3, EndStep DEF Quiet
<1>6. CASE ~(Me.kill /\ ~Me.ending)
  <2>1. SetMe(g)
    BY <1>3, <1>6 DEF AfterYield
  <2> QED
    BY <1>1, <1>4, <2>1, PopStep DEF Quiet
<1> QED
  BY <1>5, <1>6

LEMMA YieldReturnsFine ==
    ASSUME IInv, YieldReturns
    PROVE  Fine
<1>1. /\ Running /\ Clock /\ Top.op \notin Bottom \cup {"body", "text"}
  <2>1. "back" \in HostOps /\ At("back")
    BY DEF HostOps, FrameOps, Bottom, YieldReturns
  <2> QED
    BY <2>1, AtHost
<1> QED
  BY <1>1, AfterYieldFine DEF YieldReturns

LEMMA ResumedFine ==
    ASSUME IInv, Resumed
    PROVE  Fine
<1>1. /\ Running /\ Clock /\ Top.op \notin Bottom \cup {"body", "text"}
      /\ Top.op = "resumed" /\ Top \in Frames
  <2>1. "resumed" \in HostOps /\ At("resumed")
    BY DEF HostOps, FrameOps, Bottom, Resumed
  <2> QED
    BY <2>1, AtHost
<1>2. CASE Top.num = 1
  <2>1. "jobs" \in HostOps /\ "back" \in HostOps
    BY DEF HostOps, FrameOps, Bottom
  <2>2. PICK b \in BOOLEAN : b = (Me.active # <<>>)
    OBVIOUS
  <2>3. PICK f1 \in Frames : /\ f1 = FrameOn("jobs", None, b, 0)
                             /\ f1.op \notin Bottom \cup {"body", "text"}
    BY <2>1, HostFrame
  <2>4. PICK f2 \in Frames : /\ f2 = [Top EXCEPT !.op = "back"]
                             /\ f2.op \notin Bottom \cup {"body", "text"}
    <3>1. [Top EXCEPT !.op = "back"] \in Frames /\ [Top EXCEPT !.op = "back"].op = "back"
      BY <1>1, <2>1 DEF Frames, HostOps
    <3> QED
      BY <2>1, <3>1 DEF HostOps
  <2>5. PICK g : g = Replaced(<<f1, f2>>)
    OBVIOUS
  <2>6. Like(g) /\ g.stack = <<f1, f2>> \o Tail(Me.stack)
    BY <1>1, <2>5, MeIs DEF Replaced, Like, Fields
  <2>7. Quiet(g)
    BY <1>1, <1>2, <2>2, <2>3, <2>4, <2>5 DEF Resumed, Quiet, Apart
  <2> QED
    BY <1>1, <2>3, <2>4, <2>6, <2>7, ReplaceTwoStep
<1>3. CASE Top.num # 1
  BY <1>1, <1>3, AfterYieldFine DEF Resumed
<1> QED
  BY <1>2, <1>3

LEMMA EnterNextFine ==
    ASSUME IInv, EnterNext
    PROVE  Fine
<1>1. /\ fiber' = fiber /\ UNCHANGED jobVars /\ serial' = serial /\ fail' = fail
      /\ guest' = guest /\ calls' = calls /\ current' = NextGuest(fiber, current)
  BY DEF EnterNext, jobVars
<1>2. current' \in Tasks
  BY <1>1, NextGuestIsTask DEF IInv, Types
<1>3. calls \in Nat /\ guest.calls \in Nat /\ calls <= guest.calls
  BY Numbers DEF IInv, Types
<1>4. Rest
  BY <1>1, <1>2, <1>3 DEF Rest, IInv, Types
<1>5. Calmly
  BY <1>1 DEF Calmly, IInv, Types
<1> QED
  BY <1>1, <1>4, <1>5, CalmStep

LEMMA TrampolineFine ==
    ASSUME IInv, Trampoline
    PROVE  Fine
<1>1. Running /\ Top.op = "start" /\ Apart /\ UNCHANGED jobVars
  BY ClockIs DEF Trampoline, Apart
<1>2. current # Root
  <2>1. Stacked(current, Me.stack, Me.active)
    BY <1>1, MeIs
  <2>2. Head(Me.stack).op = "start" /\ "start" \in Bottom
    BY <1>1 DEF Top, Bottom
  <2> QED
    BY <2>1, <2>2, StackTop
<1>3. PICK f : f = [Me EXCEPT !.started = TRUE]
  OBVIOUS
<1>4. Like(f) /\ f.stack \in Seq(Frames)
  BY <1>1, <1>3, MeIs DEF Like, Fields
<1>5. ASSUME NEW op \in {"loop", "filter", "entry"}, op = "filter" => Me.kind = "filter",
             SetMe([f EXCEPT !.stack = <<Frame(op)>>])
      PROVE  Fine
  <2>1. op \in FrameOps /\ op \in Bottom /\ op \notin {"exit", "body", "text"}
    BY DEF FrameOps, Bottom
  <2>2. None \in Tasks \cup Jobs \cup {None} /\ FALSE \in BOOLEAN /\ 0 \in Nat
    OBVIOUS
  <2>3. PICK fr \in Frames : fr = Frame(op) /\ fr.op \in Bottom /\ fr.op = op
    <3>1. Frame(op) \in Frames /\ Frame(op).op = op
      BY <2>1, <2>2, FrameTyped
    <3> QED
      BY <2>1, <3>1
  <2>4. PICK g : g = [f EXCEPT !.stack = <<fr>>]
    OBVIOUS
  <2>5. Like(g) /\ g.stack = <<fr>>
    BY <1>4, <2>4 DEF Like, Fields
  <2>6. Quiet(g)
    BY <1>1, <1>5, <2>3, <2>4 DEF Quiet
  <2> QED
    BY <1>1, <1>2, <1>5, <2>3, <2>5, <2>6, FreshStep
<1>6. CASE SetMe(Ended(f))
  BY <1>1, <1>2, <1>4, <1>6, EndStep DEF Quiet
<1>7. \/ SetMe([f EXCEPT !.stack = <<Frame("loop")>>])
      \/ SetMe(Ended(f))
      \/ Me.kind = "filter" /\ SetMe([f EXCEPT !.stack = <<Frame("filter")>>])
      \/ SetMe([f EXCEPT !.stack = <<Frame("entry")>>])
  <2>1. CASE Me.kind \in {"exec", "system"}
    BY <1>3, <2>1 DEF Trampoline
  <2>2. CASE Me.kind \notin {"exec", "system"} /\ Me.kill
    BY <1>3, <2>2 DEF Trampoline
  <2>3. CASE Me.kind \notin {"exec", "system"} /\ ~Me.kill /\ Me.kind = "filter"
    BY <1>3, <2>3 DEF Trampoline
  <2>4. CASE Me.kind \notin {"exec", "system"} /\ ~Me.kill /\ Me.kind # "filter"
    BY <1>3, <2>4 DEF Trampoline
  <2> QED
    BY <2>1, <2>2, <2>3, <2>4
<1> QED
  BY <1>5, <1>6, <1>7

LEMMA CodeReturnsFine ==
    ASSUME IInv, CodeReturns
    PROVE  Fine
<1>1. CASE At("callback") /\ SetMe(Popped)
  <2>1. "callback" \in HostOps
    BY DEF HostOps, FrameOps, Bottom
  <2>2. Running /\ Clock /\ Top.op \notin Bottom \cup {"body", "text"}
    BY <1>1, <2>1, AtHost
  <2>3. Return
    BY <1>1 DEF CodeReturns, Return
  <2> QED
    BY <2>2, <2>3, PopFine
<1>2. CASE At("entry") /\ App(current) /\ SetMe(Ended(Me))
  <2>1. Running /\ Apart /\ UNCHANGED jobVars /\ current # Root
    BY <1>2, ClockIs DEF CodeReturns, Apart, App
  <2>2. Like(Me) /\ Me.stack \in Seq(Frames)
    BY <2>1, MeIs
  <2>3. PICK f : f = Me
    OBVIOUS
  <2> QED
    BY <1>2, <2>1, <2>2, <2>3, EndStep DEF Quiet
<1> QED
  BY <1>1, <1>2 DEF CodeReturns

LEMMA PairIs ==
    ASSUME NEW A, NEW a \in A, NEW b \in A
    PROVE  <<a>> \o <<b>> = <<a, b>> /\ <<>> \o <<b>> = <<b>>
<1>1. <<a>> \in Seq(A) /\ <<b>> \in Seq(A)
  OBVIOUS
<1>2. <<a>> \o <<b>> = <<a, b>>
  <2>1. PICK s \in Seq(A) : s = <<a>> \o <<b>>
    <3>1. <<a>> \o <<b>> \in Seq(A)
      BY <1>1, ConsAt
    <3> QED
      BY <3>1
  <2>2. Len(s) = 2 /\ s[1] = a /\ s[2] = b
    BY <1>1, <2>1
  <2>3. PICK z \in Seq(A) : z = <<a, b>>
    <3>1. <<a, b>> \in Seq(A)
      OBVIOUS
    <3> QED
      BY <3>1
  <2>4. Len(z) = 2 /\ z[1] = a /\ z[2] = b
    BY <2>3
  <2>5. \A k \in 1 .. Len(s) : s[k] = z[k]
    BY <2>2, <2>4
  <2> QED
    BY <2>1, <2>2, <2>3, <2>4, <2>5, SeqEqual
<1>3. <<>> \o <<b>> = <<b>>
  BY <1>1
<1> QED
  BY <1>2, <1>3

LEMMA GetScansFine ==
    ASSUME IInv, GetScans
    PROVE  Fine
<1>1. /\ Running /\ Clock /\ Top.op \notin Bottom \cup {"body", "text"}
      /\ Top.op = "get" /\ Top \in Frames
  <2>1. "get" \in HostOps /\ At("get")
    BY DEF HostOps, FrameOps, Bottom, GetScans
  <2> QED
    BY <2>1, AtHost
<1>2. "jobs" \in HostOps /\ "take" \in HostOps
  BY DEF HostOps, FrameOps, Bottom
<1>3. PICK f1 \in Frames : /\ f1 = FrameOn("jobs", None, FALSE, 0)
                           /\ f1.op \notin Bottom \cup {"body", "text"}
  BY <1>2, HostFrame
<1>4. PICK f2 \in Frames : /\ f2 = [Top EXCEPT !.op = "take"]
                           /\ f2.op \notin Bottom \cup {"body", "text"}
  <2>1. [Top EXCEPT !.op = "take"] \in Frames /\ [Top EXCEPT !.op = "take"].op = "take"
    BY <1>1, <1>2 DEF Frames, HostOps
  <2> QED
    BY <1>2, <2>1 DEF HostOps
<1>5. PICK pre : pre = (IF DispatchBlocks THEN <<>>
                        ELSE <<FrameOn("jobs", None, FALSE, 0)>>)
                       \o <<[Top EXCEPT !.op = "take"]>>
  OBVIOUS
<1>6. pre = IF DispatchBlocks THEN <<f2>> ELSE <<f1, f2>>
  BY <1>3, <1>4, <1>5, PairIs
<1>7. PICK g : g = [Replaced(pre) EXCEPT !.idle = FALSE,
                                         !.wait = IF Top.flag THEN @ ELSE "none"]
  OBVIOUS
<1>8. Like(g) /\ g.stack = pre \o Tail(Me.stack)
  BY <1>1, <1>7, MeIs DEF Replaced, Like, Fields
<1>9. Quiet(g)
  BY <1>1, <1>5, <1>7 DEF GetScans, Quiet, Apart
<1>10. CASE DispatchBlocks
  BY <1>1, <1>4, <1>6, <1>8, <1>9, <1>10, ReplaceStep
<1>11. CASE ~DispatchBlocks
  BY <1>1, <1>3, <1>4, <1>6, <1>8, <1>9, <1>11, ReplaceTwoStep
<1> QED
  BY <1>10, <1>11

LEMMA TaskWaitFine ==
    ASSUME IInv, TaskWait
    PROVE  Fine
<1>1. Running /\ Apart /\ UNCHANGED jobVars
  BY ClockIs DEF TaskWait, Apart
<1>2. PICK t \in Tasks :
         \/ SetMe(Waiting(Me, "idle", t, 0))
         \/ SetMe([Pushed(FrameOn("timed", t, FALSE, 0)) EXCEPT
                   !.wait = "idle timeout", !.target = t, !.due = FALSE])
  BY DEF TaskWait
<1>3. CASE SetMe(Waiting(Me, "idle", t, 0))
  <2>1. PICK n \in Nat : n = 0
    OBVIOUS
  <2> QED
    BY <1>1, <1>3, <2>1, WaitFine DEF Quiet
<1>4. CASE SetMe([Pushed(FrameOn("timed", t, FALSE, 0)) EXCEPT
                   !.wait = "idle timeout", !.target = t, !.due = FALSE])
  <2>1. "timed" \in HostOps
    BY DEF HostOps, FrameOps, Bottom
  <2>2. PICK fr \in Frames : /\ fr = FrameOn("timed", t, FALSE, 0)
                             /\ fr.op \notin Bottom \cup {"body", "text"}
    BY <2>1, HostFrame
  <2>3. PICK w : w = "idle timeout"
    OBVIOUS
  <2>4. PICK g : g = [Pushed(fr) EXCEPT !.wait = w, !.target = t, !.due = FALSE]
    OBVIOUS
  <2>5. Like(g) /\ g.stack = <<fr>> \o Me.stack
    BY <1>1, <2>4, MeIs DEF Pushed, Like, Fields
  <2>6. Quiet(g)
    BY <1>1, <1>4, <2>2, <2>3, <2>4, Zenon DEF Quiet
  <2> QED
    BY <1>1, <2>2, <2>5, <2>6, PushStep
<1> QED
  BY <1>2, <1>3, <1>4, Zenon

\* send_exit pushes the slice, the exit request and the wait for the death.
LEMMA DeathWaitFine ==
    ASSUME IInv, DeathWait
    PROVE  Fine
<1>1. Running /\ Apart /\ UNCHANGED jobVars
  BY ClockIs DEF DeathWait, Apart
<1> DEFINE slice(t) == IF t # current /\ ~fiber[t].started /\ ~fiber[t].susp
                       THEN <<FrameOn("slice", t, FALSE, fiber[t].num)>> ELSE <<>>
           exit(t) == <<FrameOn("exit", t, FALSE, fiber[t].num),
                        FrameOn("death", t, FALSE, fiber[t].num)>>
<1>2. PICK t \in Tasks : /\ App(t)
                         /\ \/ SetMe([Me EXCEPT !.stack = slice(t) \o exit(t) \o @])
                            \/ SetMe(Waiting(Me, "death", t, fiber[t].num))
  BY Zenon DEF DeathWait
<1>3. PICK n \in Nat : n = fiber[t].num
  BY DEF IInv, Types, FiberType
<1>4. CASE SetMe(Waiting(Me, "death", t, fiber[t].num))
  BY <1>1, <1>3, <1>4, WaitFine DEF Quiet
<1>5. CASE SetMe([Me EXCEPT !.stack = slice(t) \o exit(t) \o @])
  <2>1. "slice" \in HostOps /\ "death" \in HostOps
    BY DEF HostOps, FrameOps, Bottom
  <2>2. PICK f1 \in Frames : /\ f1 = FrameOn("slice", t, FALSE, n)
                             /\ f1.op \notin Bottom \cup {"body", "text"}
    BY <2>1, HostFrame
  <2>3. PICK f3 \in Frames : /\ f3 = FrameOn("death", t, FALSE, n)
                             /\ f3.op \notin Bottom \cup {"body", "text"}
    BY <2>1, HostFrame
  <2>4. PICK f2 \in Frames : /\ f2 = FrameOn("exit", t, FALSE, n)
                             /\ f2.op \notin Bottom \cup {"body", "text"}
    <3>1. "exit" \in FrameOps /\ "exit" \notin Bottom /\ t \in Tasks \ {Root}
      BY <1>2 DEF FrameOps, Bottom, App
    <3>2. FrameOn("exit", t, FALSE, n) \in Frames /\ FrameOn("exit", t, FALSE, n).op = "exit"
      <4>1. PICK op \in FrameOps, x \in Tasks \cup Jobs \cup {None}, b \in BOOLEAN :
                op = "exit" /\ x = t /\ b = FALSE
        BY <3>1
      <4>2. op # "body" /\ op # "text" /\ x \in Tasks \ {Root}
        BY <3>1, <4>1
      <4>3. FrameOn(op, x, b, n) \in Frames /\ FrameOn(op, x, b, n).op = op
        BY <4>2, FrameTyped
      <4> QED
        BY <4>1, <4>3
    <3> QED
      BY <3>1, <3>2
  <2>5. PICK s \in Seq(Frames) : /\ s = Me.stack
                                 /\ OnStack(current, Me.stack, s, Me.active)
    BY <1>1, MeIs, OnSame
  <2>6. PICK s3 \in Seq(Frames) : /\ s3 = <<f3>> \o s
                                  /\ OnStack(current, Me.stack, s3, Me.active)
    <3>1. OnStack(current, Me.stack, <<f3>> \o s, Me.active)
      BY <2>3, <2>5, OnPush
    <3>2. <<f3>> \o s \in Seq(Frames)
      BY ConsAt
    <3> QED
      BY <3>1, <3>2
  <2>7. PICK s2 \in Seq(Frames) : /\ s2 = <<f2>> \o s3
                                  /\ OnStack(current, Me.stack, s2, Me.active)
    <3>1. OnStack(current, Me.stack, <<f2>> \o s3, Me.active)
      BY <2>4, <2>6, OnPush
    <3>2. <<f2>> \o s3 \in Seq(Frames)
      BY ConsAt
    <3> QED
      BY <3>1, <3>2
  <2>8. OnStack(current, Me.stack, <<f1>> \o s2, Me.active)
    BY <2>2, <2>7, OnPush
  <2>9. /\ <<f2, f3>> \o s = s2
        /\ <<f1>> \o (<<f2, f3>> \o s) = <<f1>> \o s2
        /\ <<>> \o (<<f2, f3>> \o s) = s2
        /\ (<<f1>> \o <<f2, f3>>) \o s = <<f1>> \o s2
        /\ (<<>> \o <<f2, f3>>) \o s = s2
    <3>1. /\ <<f1>> \in Seq(Frames) /\ <<f2>> \in Seq(Frames) /\ <<f3>> \in Seq(Frames)
          /\ <<f2, f3>> \in Seq(Frames) /\ <<f2, f3>> = <<f2>> \o <<f3>>
          /\ <<>> \o <<f2, f3>> = <<f2, f3>> /\ <<>> \o s2 = s2
      OBVIOUS
    <3>2. <<f2, f3>> \o s = s2
      BY <2>6, <2>7, <3>1, ConcatAssociative
    <3>3. (<<f1>> \o <<f2, f3>>) \o s = <<f1>> \o (<<f2, f3>> \o s)
      BY <3>1, ConcatAssociative
    <3> QED
      BY <3>1, <3>2, <3>3
  <2>10. PICK z : z = slice(t) \o exit(t) \o Me.stack
    OBVIOUS
  <2>11. z \in {s2, <<f1>> \o s2}
    <3>1. exit(t) = <<f2, f3>>
      BY <1>3, <2>3, <2>4
    <3>2. slice(t) = <<f1>> \/ slice(t) = <<>>
      BY <1>3, <2>2
    <3> HIDE DEF slice, exit
    <3> QED
      BY <2>5, <2>9, <2>10, <3>1, <3>2
  <2> HIDE DEF slice, exit
  <2>12. PICK g : g = [Me EXCEPT !.stack = z]
    OBVIOUS
  <2>13. Like(g) /\ g.stack = z
    BY <1>1, <2>12, MeIs DEF Like, Fields
  <2>14. SetMe(g)
    BY <1>5, <2>10, <2>12
  <2>15. OnStack(current, Me.stack, g.stack, Me.active)
    BY <2>7, <2>8, <2>11, <2>13
  <2> QED
    BY <1>1, <2>13, <2>14, <2>15, MyStep, ClockIs
<1> QED
  BY <1>2, <1>4, <1>5

-----------------------------------------------------------------------------
(* New tasks *)

LEMMA SlotIsFree ==
    ASSUME FreeSlots # {}
    PROVE  /\ FirstSlot \in Tasks \ {Root} /\ ~Live(FirstSlot)
           /\ FirstSlot \in 1 .. AppTasks - 1
<1>1. FreeSlots \subseteq Nat
  BY Numbers DEF FreeSlots
<1>2. \E i \in FreeSlots : \A k \in FreeSlots : i <= k
  BY <1>1, LeastNumber
<1>3. FirstSlot \in FreeSlots
  BY <1>2 DEF FirstSlot
<1> QED
  BY <1>3, Numbers DEF FreeSlots

LEMMA BirthStep ==
    ASSUME IInv, NEW i \in Tasks, ~Live(i), NEW p \in Tasks, Live(p),
           NEW kind \in {"entry", "exec", "system"},
           fiber' = [fiber EXCEPT ![i] = NewFiber(i, p, kind, serial + 1)],
           serial' = serial + 1, UNCHANGED jobVars, UNCHANGED <<current, fail>>, Clock
    PROVE  Fine
<1>1. DOMAIN fiber = Tasks /\ serial + 1 \in Nat
  BY DEF IInv, Types
<1>2. PICK n \in Nat : n = serial + 1
  BY <1>1
<1>3. PICK g : g = NewFiber(i, p, kind, n)
  OBVIOUS
<1>4. Born(i, g)
  BY <1>3 DEF Born
<1>5. fiber' = [fiber EXCEPT ![i] = g]
  BY <1>2, <1>3
<1>6. Calmly
  BY <1>1, <1>4, <1>5 DEF Calmly
<1>7. Rest
  BY <1>1 DEF Rest, Clock, IInv, Types
<1> QED
  BY <1>6, <1>7, CalmStep

LEMMA SpawnFine ==
    ASSUME IInv, Spawn
    PROVE  Fine
<1>1. Running /\ Clock /\ UNCHANGED jobVars /\ UNCHANGED <<current, fail>>
  BY ClockIs DEF Spawn, jobVars
<1>2. PICK i : i = FirstSlot /\ i \in Tasks /\ ~Live(i)
  BY SlotIsFree DEF Spawn
<1>3. PICK p \in {Root, current} :
         fiber' = [fiber EXCEPT ![FirstSlot] = NewFiber(FirstSlot, p, "entry", serial + 1)]
  BY DEF Spawn
<1>4. p \in Tasks /\ Live(p)
  BY <1>1, <1>3, MeIs, Numbers DEF IInv, Tree
<1>5. PICK kind \in {"entry", "exec", "system"} : kind = "entry"
  OBVIOUS
<1>6. serial' = serial + 1 /\ fiber' = [fiber EXCEPT ![i] = NewFiber(i, p, kind, serial + 1)]
  BY <1>2, <1>3, <1>5 DEF Spawn
<1> QED
  BY <1>1, <1>2, <1>4, <1>6, BirthStep

LEMMA SystemStartFine ==
    ASSUME IInv, SystemStart
    PROVE  Fine
<1>1. Running /\ Clock /\ UNCHANGED jobVars /\ UNCHANGED <<current, fail>>
  BY ClockIs DEF SystemStart
<1>2. PICK i \in Tasks, p \in Tasks, kind \in {"entry", "exec", "system"} :
         i = System /\ p = Root /\ kind = "system" /\ ~Live(i) /\ Live(p)
  BY Numbers DEF SystemStart, IInv, Tree
<1>3. serial' = serial + 1 /\ fiber' = [fiber EXCEPT ![i] = NewFiber(i, p, kind, serial + 1)]
  BY <1>2 DEF SystemStart
<1> QED
  BY <1>1, <1>2, <1>3, BirthStep

-----------------------------------------------------------------------------
(* New jobs *)

LEMMA NewJobIsFree ==
    ASSUME IInv, FreeJobs # {}
    PROVE  /\ NewJob \in Jobs /\ job[NewJob] = NoJob
           /\ \A t \in Tasks, w \in ListKinds : ~In(NewJob, t, w)
           /\ Unreserved(NewJob)
<1>1. FreeJobs \subseteq Nat
  BY Numbers DEF FreeJobs
<1>2. \E i \in FreeJobs : \A k \in FreeJobs : i <= k
  BY <1>1, LeastNumber
<1>3. PICK n : n = NewJob
  OBVIOUS
<1>4. n \in Jobs /\ job[n] = NoJob
  BY <1>2, <1>3 DEF NewJob, FreeJobs
<1>5. \A t \in Tasks, w \in ListKinds : ~In(n, t, w)
  BY <1>4 DEF IInv, Pooled
<1>6. job[n].kind # "text"
  BY <1>4 DEF NoJob
<1>7. Unreserved(n)
  BY <1>4, <1>6, UnreservedIs DEF IInv
<1> QED
  BY <1>3, <1>4, <1>5, <1>7

\* What a request may be for the server that it is queued for; a message is
\* the newest, and does not overtake those of an input filter.
Request(srv, rec) ==
    /\ JobType(rec)
    /\ rec.kind # "text" /\ "done" \notin rec.flags
    /\ srv = Root => "exit" \notin rec.flags
    /\ rec.kind = "msg" =>
         /\ rec.flags = {} /\ rec.arg = calls /\ calls < calls'
         /\ \A u \in Tasks : Live(u) /\ fiber[u].kind = "filter" => fiber[u].parent # srv

LEMMA EnqueueStep ==
    ASSUME IInv, FreeJobs # {}, NEW srv \in Tasks, NEW rec, Request(srv, rec),
           Enqueue(srv, rec), done' = done, Calmly, Live(srv)', Rest
    PROVE  Fine
<1>1. PICK n \in Jobs : n = NewJob
  BY NewJobIsFree
<1>2. /\ job[n] = NoJob /\ \A t \in Tasks, w \in ListKinds : ~In(n, t, w)
      /\ Unreserved(n)
  BY <1>1, NewJobIsFree
<1>3. /\ DOMAIN job = Jobs /\ DOMAIN queue = Tasks /\ queue \in [Tasks -> Seq(Jobs)]
      /\ done \in [Tasks -> Seq(Jobs)]
      /\ \A j \in Jobs : job[j] = NoJob \/ JobType(job[j])
  BY DEF IInv, Types
<1>4. /\ job' = [job EXCEPT ![n] = rec]
      /\ queue' = [queue EXCEPT ![srv] = Append(@, n)]
  BY <1>1 DEF Enqueue
<1>5. /\ DOMAIN job' = Jobs /\ job'[n] = rec
      /\ \A j \in Jobs : j # n => job'[j] = job[j]
  BY <1>3, <1>4
<1>6. PICK q \in Seq(Jobs) : q = queue[srv]
  BY <1>3
<1>7. PICK q1 \in Seq(Jobs) : q1 = Append(q, n)
  BY ListAppend
<1>8. /\ queue'[srv] = q1 /\ \A t \in Tasks : t # srv => queue'[t] = queue[t]
  BY <1>3, <1>4, <1>6, <1>7
<1>9. queue' \in [Tasks -> Seq(Jobs)]
  BY <1>3, <1>4, <1>6, <1>7
<1>10. /\ Family /\ ActiveKept /\ TextsKept /\ FiltersStay
       /\ \A t \in Tasks : Live(t) => Live(t)'
  BY CalmFamily, FamilyFilters
<1>11. \A i : InList(i, q1) <=> InList(i, q) \/ i = n
  BY <1>7, ListAppend
<1>12. ASSUME NEW t \in Tasks, NEW w \in ListKinds
       PROVE  /\ \A j \in Jobs : j # n => (In(j, t, w)' <=> In(j, t, w))
              /\ In(n, t, w)' <=> t = srv /\ w = "queue"
              /\ Distinct(Held(t, w))'
  <2>1. CASE t = srv /\ w = "queue"
    <3>1. Held(t, w) = q /\ Held(t, w)' = q1
      BY <1>6, <1>8, <2>1, HeldIs
    <3>2. Distinct(q) /\ ~InList(n, q)
      BY <1>2, <1>6, <3>1 DEF IInv, OnePlace, In
    <3>3. Distinct(q1)
      BY <1>7, <3>2, ListAppend
    <3>4. Distinct(Held(t, w))'
      BY <3>1, <3>3 DEF Distinct
    <3>5. \A j : In(j, t, w)' <=> InList(j, q1)
      BY <3>1 DEF In, InList
    <3>6. \A j : In(j, t, w) <=> InList(j, q)
      BY <3>1 DEF In
    <3> QED
      BY <1>11, <2>1, <3>4, <3>5, <3>6
  <2>2. CASE ~(t = srv /\ w = "queue")
    <3>1. Held(t, w)' = Held(t, w)
      BY <1>8, <1>10, <2>2, HeldIs DEF Held, ListKinds, ActiveKept
    <3>2. \A j : In(j, t, w)' <=> In(j, t, w)
      BY <3>1 DEF In, InList
    <3>3. Distinct(Held(t, w))'
      BY <3>1 DEF IInv, OnePlace, Distinct
    <3> QED
      BY <1>2, <2>2, <3>2, <3>3
  <2> QED
    BY <2>1, <2>2
<1>13. OthersStay(n)
  BY <1>5, <1>12 DEF OthersStay
<1>14. rec # NoJob
  BY DEF Request, JobType, NoJob
<1>15. OnePlace' /\ Pooled'
  <2>1. PICK w \in ListKinds : w = "queue"
    BY DEF ListKinds
  <2>2. \A t \in Tasks, v \in ListKinds : In(n, t, v)' => t = srv /\ v = w
    BY <1>12, <2>1
  <2>3. /\ Live(srv)' /\ job'[n] # NoJob
        /\ w = "done" <=> "done" \in job'[n].flags
        /\ w = "active" => job'[n].kind # "msg"
        /\ srv = Root /\ w # "done" => "exit" \notin job'[n].flags
    BY <1>5, <1>14, <2>1 DEF Request
  <2>4. In(n, srv, w)'
    BY <1>12, <2>1
  <2>5. job'[n].kind = "msg" => job'[n].flags = {} /\ job'[n].arg \in 0 .. calls' - 1
    <3>1. calls \in Nat /\ calls' \in Nat
      BY Numbers DEF Rest, IInv, Types
    <3> QED
      BY <1>5, <3>1 DEF Request
  <2> QED
    BY <1>10, <1>13, <2>2, <2>3, <2>4, <2>5, OneJobMoves DEF IInv
<1>16. Reserved'
  BY <1>2, <1>10, <1>13, ReservedOthers DEF IInv
<1>17. ASSUME NEW i \in Jobs, i # n PROVE Older(job', i, n)
  <2>1. CASE job[i].kind = "msg" /\ rec.kind = "msg"
    <3>1. job[i].arg \in 0 .. calls - 1 /\ rec.arg = calls
      BY <2>1 DEF IInv, Pooled, Request
    <3>2. calls \in Nat
      BY Numbers DEF IInv, Types
    <3>3. job[i].arg < rec.arg
      BY <3>1, <3>2
    <3> QED
      BY <1>5, <1>17, <3>3 DEF Older
  <2>2. CASE ~(job[i].kind = "msg" /\ rec.kind = "msg")
    BY <1>5, <1>17, <2>2 DEF Older
  <2> QED
    BY <2>1, <2>2
<1>18. InOrder'
  <2>1. ASSUME NEW t \in Tasks PROVE Sorted(job', queue'[t])
    <3>1. PICK s \in Seq(Jobs) : s = queue[t]
      BY <1>3
    <3>2. Sorted(job, s) /\ ~InList(n, s)
      <4>1. ~In(n, t, "queue")
        BY <1>2 DEF ListKinds
      <4> QED
        BY <3>1, <4>1, HeldIs DEF IInv, InOrder, In
    <3>3. PICK pool : pool = job'
      OBVIOUS
    <3>4. Sorted(pool, s)
      <4>1. \A i \in Jobs : InList(i, s) => pool[i] = job[i]
        BY <1>5, <3>2, <3>3
      <4> QED
        BY <3>2, <4>1, SortedSame
    <3>5. CASE t # srv
      BY <1>8, <3>1, <3>3, <3>4, <3>5
    <3>6. CASE t = srv
      <4>1. \A i : InList(i, s) => i \in Jobs /\ i # n
        BY <3>2 DEF InList
      <4>2. \A i : InList(i, s) => Older(pool, i, n)
        BY <1>17, <3>3, <4>1
      <4>3. Sorted(pool, Append(s, n))
        BY <3>4, <4>2, ListAppend
      <4> QED
        BY <1>6, <1>7, <1>8, <3>1, <3>3, <3>6, <4>3
    <3> QED
      BY <3>5, <3>6
  <2>2. ASSUME NEW t \in Tasks, NEW i \in Jobs, NEW j \in Jobs,
               Live(t)', fiber'[t].kind = "filter",
               In(i, fiber[t].parent, "queue")', In(j, t, "queue")'
        PROVE  Older(job', i, j)
    <3>1. /\ Live(t) /\ fiber[t].kind = "filter" /\ fiber'[t].parent = fiber[t].parent
      BY <1>10, <2>2 DEF FiltersStay
    <3>2. PICK p \in Tasks : p = fiber[t].parent /\ p # t
      BY <3>1, ServerIsTask DEF IInv
    <3>3. /\ i # n => In(i, p, "queue")
          /\ j # n => In(j, t, "queue")
          /\ i = n => p = srv
          /\ j = n => t = srv
      BY <1>12, <2>2, <3>1, <3>2 DEF ListKinds
    <3>4. CASE i # n /\ j # n
      <4>1. Older(job, i, j)
        BY <3>1, <3>2, <3>3, <3>4 DEF IInv, InOrder
      <4> QED
        BY <1>5, <3>4, <4>1 DEF Older
    <3>5. CASE j = n /\ i # n
      BY <1>17, <3>5
    <3>6. CASE i = n
      <4>1. rec.kind # "msg"
        BY <3>1, <3>2, <3>3, <3>6 DEF Request
      <4> QED
        BY <1>5, <3>6, <4>1 DEF Older
    <3> QED
      BY <3>4, <3>5, <3>6
  <2> QED
    BY <2>1, <2>2 DEF InOrder
<1>19. Harmless
  <2>1. \A j \in Jobs : job[j] # NoJob => job'[j] # NoJob
    BY <1>2, <1>5
  <2> QED
    BY <1>10, <2>1, HarmlessIs
<1>20. \A j \in Jobs : job'[j] = NoJob \/ JobType(job'[j])
  BY <1>3, <1>5 DEF Request
<1> QED
  BY <1>3, <1>5, <1>9, <1>10, <1>15, <1>16, <1>18, <1>19, <1>20, FineIs

LEMMA JobRecord ==
    ASSUME IInv, NEW kind \in {"exe", "call", "spawn", "msg", "text"}, NEW code,
           NEW m \in Tasks \cup {None}, NEW flags, NEW arg \in Int,
           NEW r, r = Job(kind, code, m, flags, arg)
    PROVE  /\ JobType(r) /\ r # NoJob
           /\ r.kind = kind /\ r.flags = flags /\ r.arg = arg /\ r.by = current
<1>1. current \in Tasks \cup {None}
  BY DEF IInv, Types
<1>2. /\ r.kind = kind /\ r.flags = flags /\ r.arg = arg /\ r.by = current
      /\ r.master = m /\ DOMAIN r = JobFields
  BY DEF Job, JobFields
<1> QED
  BY <1>1, <1>2 DEF JobType, NoJob

LEMMA WokenNudged ==
    ASSUME IInv, NEW t \in Tasks, Live(t)
    PROVE  Nudged(t, Woken(fiber[t])) /\ Calm(t, Woken(fiber[t]))
<1>1. FiberType(fiber[t]) /\ (t = Root => fiber[t].kill = FALSE) /\ fiber[t].state = "run"
  BY DEF IInv, Types, Stacks, Live
<1>2. PICK g : g = Woken(fiber[t])
  OBVIOUS
<1>3. Nudged(t, g)
  BY <1>1, <1>2 DEF Nudged, FiberType, Fields, Woken
<1> QED
  BY <1>2, <1>3, CalmNudge

LEMMA CalmLives ==
    ASSUME IInv, Calmly, NEW t \in Tasks, Live(t)
    PROVE  Live(t)'
  BY CalmFamily, FamilyFilters

LEMMA PoolFull ==
    ASSUME IInv, Clock, Fails("guest job queue full") \/ Fails("guest message queue full")
    PROVE  Fine
<1>1. PICK why \in {"guest job queue full", "guest message queue full"} : Fails(why)
  BY Zenon
<1>2. why \notin TreeFailures
  BY <1>1, Zenon DEF TreeFailures
<1> QED
  BY <1>1, <1>2, FailStep

LEMMA TaskExeFine ==
    ASSUME IInv, TaskExe
    PROVE  Fine
<1>1. Running /\ Clock
  BY ClockIs DEF TaskExe
<1>2. PICK t \in Tasks, m \in {None, current},
          flags \in {{}, {"wake"}, {"exit"}, {"free"}} :
         /\ Live(t) /\ t # Executive
         /\ "wake" \in flags => m = current /\ t # current
         /\ "exit" \in flags => t \notin {Root, System}
         /\ IF FreeJobs = {} THEN Fails("guest job queue full")
            ELSE /\ Enqueue(t, Job("exe", "", m, flags, None))
                 /\ fiber' = IF "wake" \in flags
                             THEN [[fiber EXCEPT ![t] = Woken(@)] EXCEPT
                                     ![current] = Waiting(Me, "job", NewJob, 0)]
                             ELSE [fiber EXCEPT ![t] = Woken(@)]
                 /\ UNCHANGED <<done, current, serial, fail>>
  BY Zenon DEF TaskExe
<1>3. CASE FreeJobs = {}
  BY <1>1, <1>2, <1>3, PoolFull, Zenon
<1>4. CASE FreeJobs # {}
  <2>1. PICK rec : rec = Job("exe", "", m, flags, None)
    OBVIOUS
  <2>2. /\ Enqueue(t, rec) /\ UNCHANGED <<done, current, serial, fail>>
        /\ fiber' = IF "wake" \in flags
                    THEN [[fiber EXCEPT ![t] = Woken(@)] EXCEPT
                            ![current] = Waiting(Me, "job", NewJob, 0)]
                    ELSE [fiber EXCEPT ![t] = Woken(@)]
    BY <1>2, <1>4, <2>1, Zenon
  <2>3. Apart /\ Rest
    BY <1>1, <2>2, ClockIs DEF Apart
  <2>4. JobType(rec) /\ rec.kind = "exe" /\ rec.flags = flags
    <3>1. m \in Tasks \cup {None}
      BY <1>1, MeIs, Numbers
    <3>2. PICK kind \in {"exe", "call", "spawn", "msg", "text"} : kind = "exe"
      OBVIOUS
    <3>3. PICK arg \in Int : arg = None
      BY Numbers
    <3>4. PICK code : code = ""
      OBVIOUS
    <3>5. rec = Job(kind, code, m, flags, arg)
      BY <2>1, <3>2, <3>3, <3>4, Zenon
    <3>6. JobType(rec) /\ rec.kind = kind /\ rec.flags = flags
      BY <3>1, <3>5, JobRecord
    <3> QED
      BY <3>2, <3>6
  <2>5. Request(t, rec)
    BY <1>2, <2>4 DEF Request
  <2>6. PICK n \in Tasks \cup Jobs \cup {None} : n = NewJob
    BY <1>4, NewJobIsFree
  <2>7. PICK g : g = Woken(fiber[t]) /\ Calm(t, g)
    BY <1>2, WokenNudged
  <2>8. PICK h : h = Waiting(Me, "job", n, 0)
    OBVIOUS
  <2>9. Calm(current, h)
    <3>1. /\ Like(Me) /\ OnStack(current, Me.stack, Me.stack, Me.active)
      BY <1>1, MeIs, OnSame
    <3>2. PICK k \in Nat : k = 0
      OBVIOUS
    <3>3. PICK f : f = Me
      OBVIOUS
    <3>4. Like(h) /\ OnStack(current, Me.stack, h.stack, Me.active)
      BY <1>1, <2>8, <3>1, <3>2, <3>3, WaitStep
    <3> QED
      BY <1>1, <3>4, CalmMe
  <2>10. DOMAIN fiber = Tasks /\ current \in Tasks /\ Live(current) /\ Me = fiber[current]
    BY <1>1, MeIs DEF IInv, Types
  <2>11. Calmly
    <3>1. CASE "wake" \in flags
      <4>1. t # current
        BY <1>2, <3>1
      <4>2. fiber' = [[fiber EXCEPT ![t] = g] EXCEPT ![current] = h]
        BY <2>2, <2>6, <2>7, <2>8, <2>10, <3>1, <4>1
      <4> QED
        BY <1>2, <2>7, <2>9, <2>10, <4>1, <4>2 DEF Calmly
    <3>2. CASE "wake" \notin flags
      <4>1. /\ DOMAIN fiber' = Tasks /\ fiber'[t] = g
            /\ \A u \in Tasks : u # t => fiber'[u] = fiber[u]
        BY <2>2, <2>7, <2>10, <3>2
      <4> QED
        BY <1>2, <2>7, <4>1 DEF Calmly
    <3> QED
      BY <3>1, <3>2
  <2>12. Live(t)' /\ done' = done
    BY <1>2, <2>2, <2>11, CalmLives
  <2> QED
    BY <1>4, <2>2, <2>3, <2>5, <2>11, <2>12, EnqueueStep
<1> QED
  BY <1>3, <1>4

\* The caller's frame that a request leaves behind, woken or not.
LEMMA PushedIs ==
    ASSUME IInv, Running, NEW f, Like(f), NEW s, f.stack = s,
           OnStack(current, Me.stack, s, Me.active),
           NEW fr \in Frames, fr.op \notin Bottom \cup {"body", "text"},
           NEW g, g = [f EXCEPT !.stack = <<fr>> \o @]
    PROVE  /\ Like(g) /\ g.stack = <<fr>> \o s
           /\ OnStack(current, Me.stack, g.stack, Me.active)
<1>1. Like(g) /\ g.stack = <<fr>> \o s
  BY DEF Like, Fields
<1>2. OnStack(current, Me.stack, <<fr>> \o s, Me.active)
  BY OnPush
<1> QED
  BY <1>1, <1>2

LEMMA WokenMe ==
    ASSUME IInv, Running, NEW f, Like(f), OnStack(current, Me.stack, f.stack, Me.active)
    PROVE  Calm(current, Woken(f))
<1>1. PICK g : g = Woken(f)
  OBVIOUS
<1>2. Like(g) /\ g.stack = f.stack
  BY <1>1 DEF Like, Fields, Woken
<1>3. Calm(current, g)
  BY <1>2, CalmMe
<1> QED
  BY <1>1, <1>3

LEMMA SysFine ==
    ASSUME IInv, Sys
    PROVE  Fine
<1>1. Running /\ Clock
  BY ClockIs DEF Sys
<1>2. CASE FreeJobs = {}
  BY <1>1, <1>2, PoolFull, Zenon DEF Sys
<1>3. CASE FreeJobs # {}
  <2>1. PICK t \in Tasks : t = (IF Live(System) THEN System ELSE Root) /\ Live(t)
    BY Numbers DEF IInv, Tree
  <2>2. PICK flags \in {{"sys"}, {"sys", "wake"}} :
           flags = IF t = current THEN {"sys"} ELSE {"sys", "wake"}
    OBVIOUS
  <2>3. PICK ask : ask = [Me EXCEPT !.stack = <<FrameOn("sys", NewJob, FALSE, 0)>> \o @]
    OBVIOUS
  <2>4. PICK rec : rec = Job("exe", "", current, flags, None)
    OBVIOUS
  <2>5. /\ Enqueue(t, rec) /\ UNCHANGED <<done, current, serial, fail>>
        /\ fiber' = IF t = current
                    THEN [fiber EXCEPT ![t] = Woken(
                       [ask EXCEPT !.stack =
                            <<FrameOn("jobs", None, TRUE, 0)>> \o @])]
                    ELSE [fiber EXCEPT ![t] = Woken(@),
                            ![current] = Waiting(ask, "job", NewJob, 0)]
    BY <1>3, <2>1, <2>2, <2>3, <2>4, Zenon DEF Sys
  <2>6. Apart /\ Rest
    BY <1>1, <2>5, ClockIs DEF Apart
  <2>7. DOMAIN fiber = Tasks /\ current \in Tasks /\ Live(current) /\ Me = fiber[current]
    BY <1>1, MeIs DEF IInv, Types
  <2>8. JobType(rec) /\ rec.kind = "exe" /\ rec.flags = flags
    <3>1. PICK kind \in {"exe", "call", "spawn", "msg", "text"} : kind = "exe"
      OBVIOUS
    <3>2. PICK arg \in Int : arg = None
      BY Numbers
    <3>3. PICK code : code = ""
      OBVIOUS
    <3>4. PICK m \in Tasks \cup {None} : m = current
      BY <2>7
    <3>5. rec = Job(kind, code, m, flags, arg)
      BY <2>4, <3>1, <3>2, <3>3, <3>4, Zenon
    <3>6. JobType(rec) /\ rec.kind = kind /\ rec.flags = flags
      BY <3>5, JobRecord
    <3> QED
      BY <3>1, <3>6
  <2>9. Request(t, rec)
    BY <2>8 DEF Request
  <2>10. PICK n \in Tasks \cup Jobs \cup {None} : n = NewJob
    BY <1>3, NewJobIsFree
  <2>11. PICK f1 \in Frames : /\ f1 = FrameOn("sys", n, FALSE, 0)
                              /\ f1.op \notin Bottom \cup {"body", "text"}
    <3>1. "sys" \in HostOps
      BY DEF HostOps, FrameOps, Bottom
    <3> QED
      BY <3>1, HostFrame
  <2>12. Like(ask) /\ OnStack(current, Me.stack, ask.stack, Me.active)
    <3>1. Like(Me) /\ OnStack(current, Me.stack, Me.stack, Me.active)
      BY <1>1, MeIs, OnSame
    <3>2. PICK f : f = Me
      OBVIOUS
    <3>3. ask = [f EXCEPT !.stack = <<f1>> \o @]
      BY <2>3, <2>10, <2>11, <3>2
    <3> QED
      BY <1>1, <2>11, <3>1, <3>2, <3>3, PushedIs
  <2>13. CASE t = current
    <3>1. PICK f2 \in Frames : /\ f2 = FrameOn("jobs", None, TRUE, 0)
                               /\ f2.op \notin Bottom \cup {"body", "text"}
      <4>1. "jobs" \in HostOps
        BY DEF HostOps, FrameOps, Bottom
      <4> QED
        BY <4>1, HostFrame
    <3>2. PICK f : f = [ask EXCEPT !.stack = <<f2>> \o @]
      OBVIOUS
    <3>3. Like(f) /\ OnStack(current, Me.stack, f.stack, Me.active)
      BY <1>1, <2>12, <3>1, <3>2, PushedIs
    <3>4. PICK g : g = Woken(f)
      OBVIOUS
    <3>5. Calm(current, g)
      BY <1>1, <3>3, <3>4, WokenMe
    <3>6. fiber' = [fiber EXCEPT ![current] = g]
      BY <2>5, <2>13, <3>1, <3>2, <3>4
    <3>7. Calmly
      BY <2>7, <3>5, <3>6 DEF Calmly
    <3>8. Live(t)' /\ done' = done
      BY <2>1, <2>5, <3>7, CalmLives
    <3> QED
      BY <1>3, <2>5, <2>6, <2>9, <3>7, <3>8, EnqueueStep
  <2>14. CASE t # current
    <3>1. PICK g : g = Woken(fiber[t]) /\ Calm(t, g)
      BY <2>1, WokenNudged
    <3>2. PICK k \in Nat : k = 0
      OBVIOUS
    <3>3. PICK h : h = Waiting(ask, "job", n, k)
      OBVIOUS
    <3>4. Like(h) /\ OnStack(current, Me.stack, h.stack, Me.active)
      BY <1>1, <2>12, <3>3, WaitStep
    <3>5. Calm(current, h)
      BY <1>1, <3>4, CalmMe
    <3>6. fiber' = [fiber EXCEPT ![t] = g, ![current] = h]
      BY <2>5, <2>10, <2>14, <3>1, <3>2, <3>3
    <3>7. Calmly
      BY <2>1, <2>7, <2>14, <3>1, <3>5, <3>6 DEF Calmly
    <3>8. Live(t)' /\ done' = done
      BY <2>1, <2>5, <3>7, CalmLives
    <3> QED
      BY <1>3, <2>5, <2>6, <2>9, <3>7, <3>8, EnqueueStep
  <2> QED
    BY <2>13, <2>14
<1> QED
  BY <1>2, <1>3

\* The executive task gets the request, and is created with the first one.
LEMMA QueuedFine ==
    ASSUME IInv, Running, Clock, FreeJobs # {}, NEW kind \in {"call", "spawn"},
           NEW flags \in {{}, {"free"}, {"que"}},
           NEW me, Like(me), OnStack(current, Me.stack, me.stack, Me.active),
           Queued(kind, flags, me)
    PROVE  Fine
<1>1. DOMAIN fiber = Tasks /\ current \in Tasks /\ Live(current) /\ Me = fiber[current]
  BY MeIs DEF IInv, Types
<1>2. PICK rec : rec = Job(kind, "", None, flags, Root)
  OBVIOUS
<1>3. /\ Enqueue(Executive, rec) /\ UNCHANGED <<done, current, fail>>
      /\ serial' = (IF Live(Executive) THEN serial ELSE serial + 1)
      /\ fiber' = [fiber EXCEPT
         ![Executive] = IF Live(Executive) THEN Woken(@)
                        ELSE NewFiber(Executive, Root, "exec", serial + 1),
         ![current] = IF current = Executive THEN Woken(me) ELSE me]
  BY <1>2 DEF Queued
<1>4. Executive \in Tasks /\ Executive # Root /\ Root \in Tasks /\ Live(Root)
  BY Numbers DEF IInv, Tree
<1>5. JobType(rec) /\ rec.kind = kind /\ rec.flags = flags
  <2>1. PICK arg \in Int : arg = Root
    BY Numbers
  <2>2. PICK code : code = ""
    OBVIOUS
  <2>3. PICK m \in Tasks \cup {None} : m = None
    OBVIOUS
  <2>4. rec = Job(kind, code, m, flags, arg)
    BY <1>2, <2>1, <2>2, <2>3, Zenon
  <2>5. kind \in {"exe", "call", "spawn", "msg", "text"}
    OBVIOUS
  <2> QED
    BY <2>4, <2>5, JobRecord
<1>6. Request(Executive, rec)
  BY <1>4, <1>5 DEF Request
<1>7. Calm(current, me)
  BY CalmMe
<1>8. Rest
  BY <1>1, <1>3 DEF Rest, Clock, IInv, Types
<1>9. Calmly /\ Live(Executive)'
  <2>1. CASE current = Executive
    <3>1. PICK g : g = Woken(me) /\ Calm(current, g)
      BY WokenMe
    <3>2. /\ DOMAIN fiber' = Tasks /\ fiber'[current] = g
          /\ \A u \in Tasks : u # current => fiber'[u] = fiber[u]
      BY <1>1, <1>3, <2>1, <3>1
    <3>3. Calmly
      BY <1>1, <3>1, <3>2 DEF Calmly
    <3> QED
      BY <1>1, <2>1, <3>3, CalmLives
  <2>2. CASE current # Executive /\ Live(Executive)
    <3>1. PICK g : g = Woken(fiber[Executive]) /\ Calm(Executive, g)
      BY <1>4, <2>2, WokenNudged
    <3>2. fiber' = [fiber EXCEPT ![Executive] = g, ![current] = me]
      BY <1>3, <2>2, <3>1
    <3>3. Calmly
      BY <1>1, <1>4, <1>7, <2>2, <3>1, <3>2 DEF Calmly
    <3> QED
      BY <1>4, <2>2, <3>3, CalmLives
  <2>3. CASE current # Executive /\ ~Live(Executive)
    <3>1. PICK n \in Nat : n = serial + 1
      BY DEF IInv, Types
    <3>2. PICK k \in {"entry", "exec", "system"} : k = "exec"
      OBVIOUS
    <3>3. PICK g : g = NewFiber(Executive, Root, k, n)
      OBVIOUS
    <3>4. Born(Executive, g)
      BY <1>4, <3>3 DEF Born
    <3>5. fiber' = [fiber EXCEPT ![Executive] = g, ![current] = me]
      BY <1>3, <2>3, <3>1, <3>2, <3>3
    <3>6. Calmly
      BY <1>1, <1>4, <1>7, <2>3, <3>4, <3>5 DEF Calmly
    <3>7. g.state = "run"
      BY <1>4, <3>4, BornIs
    <3>8. fiber'[Executive] = g
      BY <1>1, <1>4, <2>3, <3>5
    <3> QED
      BY <1>4, <3>6, <3>7, <3>8 DEF Live
  <2> QED
    BY <2>1, <2>2, <2>3
<1> QED
  BY <1>3, <1>4, <1>6, <1>8, <1>9, EnqueueStep

LEMMA JobQueueFine ==
    ASSUME IInv, JobQueue
    PROVE  Fine
<1>1. Running /\ Clock
  BY ClockIs DEF JobQueue
<1>2. CASE FreeJobs = {}
  BY <1>1, <1>2, PoolFull, Zenon DEF JobQueue
<1>3. CASE FreeJobs # {}
  <2>1. PICK flags \in {{}, {"free"}, {"que"}} : Queued("call", flags, Me)
    BY <1>3 DEF JobQueue
  <2>2. PICK kind \in {"call", "spawn"} : Queued(kind, flags, Me)
    BY <2>1
  <2>3. PICK f : f = Me /\ Like(f) /\ OnStack(current, Me.stack, f.stack, Me.active)
    BY <1>1, MeIs, OnSame
  <2> QED
    BY <1>1, <1>3, <2>2, <2>3, QueuedFine
<1> QED
  BY <1>2, <1>3

LEMMA SpawnQueueFine ==
    ASSUME IInv, SpawnQueue
    PROVE  Fine
<1>1. Running /\ Clock
  BY ClockIs DEF SpawnQueue
<1>2. CASE FreeJobs = {}
  BY <1>1, <1>2, PoolFull, Zenon DEF SpawnQueue
<1>3. CASE FreeJobs # {}
  <2>1. PICK n \in Tasks \cup Jobs \cup {None} : n = NewJob
    BY <1>3, NewJobIsFree
  <2>2. PICK fr \in Frames : /\ fr = FrameOn("spawned", n, FALSE, 0)
                             /\ fr.op \notin Bottom \cup {"body", "text"}
    <3>1. "spawned" \in HostOps
      BY DEF HostOps, FrameOps, Bottom
    <3> QED
      BY <3>1, HostFrame
  <2>3. PICK f : f = [Pushed(fr) EXCEPT !.idle = TRUE]
    OBVIOUS
  <2>4. Like(f) /\ f.stack = <<fr>> \o Me.stack
    BY <1>1, <2>3, MeIs DEF Pushed, Like, Fields
  <2>5. OnStack(current, Me.stack, <<fr>> \o Me.stack, Me.active)
    BY <1>1, <2>2, MeIs, OnSame, OnPush
  <2>6. PICK k \in Nat : k = 0
    OBVIOUS
  <2>7. PICK me : me = Waiting(f, "job", n, k)
    OBVIOUS
  <2>8. Like(me) /\ OnStack(current, Me.stack, me.stack, Me.active)
    BY <1>1, <2>4, <2>5, <2>7, WaitStep
  <2>9. PICK flags \in {{}, {"free"}, {"que"}}, kind \in {"call", "spawn"} :
            flags = {"que"} /\ kind = "spawn"
    OBVIOUS
  <2>10. Queued(kind, flags, me)
    BY <1>3, <2>1, <2>2, <2>3, <2>6, <2>7, <2>9 DEF SpawnQueue
  <2> QED
    BY <1>1, <1>3, <2>8, <2>10, QueuedFine
<1> QED
  BY <1>2, <1>3

-----------------------------------------------------------------------------
(* Messages *)

\* Input goes to a live task, and not to one that has an input filter.
LEMMA Inlet ==
    ASSUME IInv, NEW t \in Tasks, Live(t), fiber[t].kind # "filter"
    PROVE  /\ fiber[t].filter \in Tasks /\ Live(fiber[t].filter)
           /\ \A u \in Tasks : Live(u) /\ fiber[u].kind = "filter" =>
                fiber[u].parent # fiber[t].filter
<1>1. PICK s : s = fiber[t].filter
  OBVIOUS
<1>2. s = t \/ (Live(s) /\ fiber[s].kind = "filter" /\ fiber[s].parent = t)
  BY <1>1 DEF IInv, Filters
<1>3. s \in Tasks /\ Live(s)
  BY <1>2 DEF Live
<1>4. ASSUME NEW u \in Tasks, Live(u), fiber[u].kind = "filter", fiber[u].parent = s
      PROVE  FALSE
  <2>1. fiber[s].filter = u /\ fiber[s].kind # "filter"
    BY <1>4, ServerIsTask DEF IInv
  <2>2. s = t
    BY <1>2, <2>1
  <2> QED
    BY <1>1, <1>4, <2>1, <2>2
<1> QED
  BY <1>1, <1>3, <1>4

\* A motion that replaces the last one is newer than everything before it.
LEMMA CoalesceStep ==
    ASSUME IInv, Rest, Calmly, NEW srv \in Tasks, Live(srv),
           \A u \in Tasks : Live(u) /\ fiber[u].kind = "filter" => fiber[u].parent # srv,
           queue[srv] # <<>>, NEW n, n = Last(queue[srv]), job[n].kind = "msg",
           job' = [job EXCEPT ![n].arg = calls], UNCHANGED <<queue, done>>, calls < calls'
    PROVE  Fine
<1>1. /\ DOMAIN job = Jobs /\ queue \in [Tasks -> Seq(Jobs)] /\ done \in [Tasks -> Seq(Jobs)]
      /\ \A j \in Jobs : job[j] = NoJob \/ JobType(job[j])
      /\ calls \in Nat /\ calls' \in Nat
  <2>1. calls \in Nat /\ calls' \in Nat
    BY Numbers DEF Rest, IInv, Types
  <2> QED
    BY <2>1 DEF IInv, Types
<1>2. PICK q \in Seq(Jobs) : q = queue[srv]
  BY <1>1
<1>3. n = q[Len(q)] /\ Len(q) \in DOMAIN q /\ n \in Jobs
  BY <1>2 DEF Last
<1>4. In(n, srv, "queue")
  BY <1>2, <1>3, HeldIs DEF In, InList
<1>5. "queue" \in ListKinds
  BY DEF ListKinds
<1>6. /\ job[n] # NoJob /\ JobType(job[n]) /\ job[n].flags = {}
  BY <1>1, <1>3, <1>4, <1>5 DEF IInv, Pooled
<1>7. PICK rec : rec = [job[n] EXCEPT !.arg = calls]
  OBVIOUS
<1>8. /\ rec.kind = "msg" /\ rec.flags = {} /\ rec.arg = calls /\ JobType(rec)
      /\ rec # NoJob
  BY <1>1, <1>6, <1>7 DEF JobType, JobFields, NoJob
<1>9. /\ DOMAIN job' = Jobs /\ job'[n] = rec
      /\ \A j \in Jobs : j # n => job'[j] = job[j]
  BY <1>1, <1>3, <1>7
<1>10. /\ Family /\ ActiveKept /\ TextsKept /\ FiltersStay
       /\ \A t \in Tasks : Live(t) => Live(t)'
  BY CalmFamily, FamilyFilters
<1>11. \A t \in Tasks, w \in ListKinds : Held(t, w)' = Held(t, w)
  BY <1>10 DEF Held, ActiveKept
<1>12. \A j \in Jobs, t \in Tasks, w \in ListKinds : In(j, t, w)' <=> In(j, t, w)
  BY <1>11 DEF In, InList
<1>13. OthersStay(n)
  <2>1. \A t \in Tasks, w \in ListKinds : Distinct(Held(t, w))'
    BY <1>11 DEF IInv, OnePlace, Distinct
  <2> QED
    BY <1>9, <1>12, <2>1 DEF OthersStay
<1>14. OnePlace' /\ Pooled'
  <2>1. PICK w \in ListKinds : w = "queue"
    BY <1>5
  <2>2. \A t \in Tasks, v \in ListKinds : In(n, t, v)' => t = srv /\ v = w
    BY <1>3, <1>4, <1>12, <2>1 DEF IInv, OnePlace
  <2>3. /\ Live(srv)' /\ job'[n] # NoJob
        /\ w = "done" <=> "done" \in job'[n].flags
        /\ w = "active" => job'[n].kind # "msg"
        /\ srv = Root /\ w # "done" => "exit" \notin job'[n].flags
    BY <1>8, <1>9, <1>10, <2>1
  <2>4. In(n, srv, w)'
    BY <1>3, <1>4, <1>12, <2>1
  <2>5. job'[n].flags = {} /\ job'[n].arg \in 0 .. calls' - 1
    <3>1. calls \in 0 .. calls' - 1
      BY <1>1
    <3> QED
      BY <1>8, <1>9, <3>1
  <2> QED
    BY <1>3, <1>10, <1>13, <2>2, <2>3, <2>4, <2>5, OneJobMoves DEF IInv
<1>15. Reserved'
  <2>1. Unreserved(n)
    BY <1>3, <1>4, <1>5, UnreservedIs DEF IInv
  <2> QED
    BY <1>3, <1>10, <1>13, <2>1, ReservedOthers DEF IInv
<1>16. ASSUME NEW i \in Jobs, i # n PROVE Older(job', i, n)
  <2>1. CASE job[i].kind = "msg"
    <3>1. job[i].arg \in 0 .. calls - 1
      BY <2>1 DEF IInv, Pooled
    <3>2. job[i].arg < calls
      BY <1>1, <3>1
    <3> QED
      BY <1>8, <1>9, <1>16, <3>2 DEF Older
  <2>2. CASE job[i].kind # "msg"
    BY <1>9, <1>16, <2>2 DEF Older
  <2> QED
    BY <2>1, <2>2
<1>17. InOrder'
  <2>1. ASSUME NEW t \in Tasks PROVE Sorted(job', queue'[t])
    <3>1. PICK s \in Seq(Jobs) : s = queue[t] /\ s = queue'[t]
      BY <1>1
    <3>2. Sorted(job, s) /\ Distinct(s)
      BY <1>5, <3>1, HeldIs DEF IInv, InOrder, OnePlace
    <3> SUFFICES ASSUME NEW k \in DOMAIN s, NEW l \in DOMAIN s, k < l
                 PROVE  Older(job', s[k], s[l])
      BY <3>1 DEF Sorted
    <3>3. s[k] \in Jobs /\ s[l] \in Jobs
      OBVIOUS
    <3>4. s[k] # s[l]
      BY <3>2 DEF Distinct
    <3>5. CASE s[l] = n
      BY <1>16, <3>3, <3>4, <3>5
    <3>6. CASE s[l] # n /\ s[k] # n
      <4>1. Older(job, s[k], s[l])
        BY <3>2 DEF Sorted
      <4> QED
        BY <1>9, <3>3, <3>6, <4>1 DEF Older
    <3>7. CASE s[k] = n
      <4>1. In(n, t, "queue")
        BY <3>1, <3>7, HeldIs DEF In, InList
      <4>2. t = srv
        BY <1>3, <1>4, <1>5, <4>1 DEF IInv, OnePlace
      <4>3. s = q /\ s[Len(q)] = n
        BY <1>2, <1>3, <3>1, <4>2
      <4>4. k = Len(q)
        BY <1>3, <3>2, <3>7, <4>3 DEF Distinct
      <4> QED
        BY <4>3, <4>4
    <3> QED
      BY <3>5, <3>6, <3>7
  <2>2. ASSUME NEW t \in Tasks, NEW i \in Jobs, NEW j \in Jobs,
               Live(t)', fiber'[t].kind = "filter",
               In(i, fiber[t].parent, "queue")', In(j, t, "queue")'
        PROVE  Older(job', i, j)
    <3>1. /\ Live(t) /\ fiber[t].kind = "filter" /\ fiber'[t].parent = fiber[t].parent
      BY <1>10, <2>2 DEF FiltersStay
    <3>2. PICK p \in Tasks : p = fiber[t].parent /\ p # t
      BY <3>1, ServerIsTask DEF IInv
    <3>3. In(i, p, "queue")'
      BY <2>2, <3>1, <3>2 DEF In, Held
    <3>4. In(i, p, "queue") /\ In(j, t, "queue")
      BY <1>5, <1>12, <2>2, <3>3
    <3>5. i # n
      <4>1. p # srv
        BY <3>1, <3>2
      <4> QED
        BY <1>3, <1>4, <1>5, <3>4, <4>1 DEF IInv, OnePlace
    <3>6. CASE j = n
      BY <1>16, <3>5, <3>6
    <3>7. CASE j # n
      <4>1. Older(job, i, j)
        BY <3>1, <3>2, <3>4 DEF IInv, InOrder
      <4> QED
        BY <1>9, <3>5, <3>7, <4>1 DEF Older
    <3> QED
      BY <3>6, <3>7
  <2> QED
    BY <2>1, <2>2 DEF InOrder
<1>18. Harmless
  <2>1. \A j \in Jobs : job[j] # NoJob => job'[j] # NoJob
    BY <1>8, <1>9
  <2> QED
    BY <1>10, <2>1, HarmlessIs
<1>19. /\ queue' \in [Tasks -> Seq(Jobs)] /\ done' \in [Tasks -> Seq(Jobs)]
       /\ \A j \in Jobs : job'[j] = NoJob \/ JobType(job'[j])
  BY <1>1, <1>8, <1>9
<1> QED
  BY <1>9, <1>10, <1>14, <1>15, <1>17, <1>18, <1>19, FineIs

LEMMA MessagePostFine ==
    ASSUME IInv, MessagePost
    PROVE  Fine
<1>1. Running /\ Clock
  BY ClockIs DEF MessagePost
<1>2. /\ calls \in Nat /\ calls' = calls + 1 /\ calls < calls'
  <2>1. calls \in Nat
    BY Numbers DEF IInv, Types
  <2>2. calls' = calls + 1
    BY DEF MessagePost, Call
  <2> QED
    BY <2>1, <2>2
<1>3. PICK t \in Tasks, code \in {"move", "key"} :
         LET srv  == fiber[t].filter
             last == LastMove(queue[srv])
             same == code = "move" /\ last # None
         IN /\ Live(t) /\ t # Executive /\ fiber[t].kind # "filter"
            /\ IF same \/ FreeJobs # {}
               THEN /\ IF same
                       THEN /\ job' = [job EXCEPT ![last].arg = calls]
                            /\ UNCHANGED queue
                       ELSE Enqueue(srv, Job("msg", code, None, {}, calls))
                    /\ fiber' = [fiber EXCEPT ![srv] = Woken(@)]
                    /\ UNCHANGED <<done, current, serial, fail>>
               ELSE IF code = "move"
               THEN UNCHANGED <<fiber, jobVars, current, serial, fail>>
               ELSE Fails("guest message queue full")
  BY Zenon DEF MessagePost
<1>4. PICK srv : srv = fiber[t].filter
  OBVIOUS
<1>5. /\ srv \in Tasks /\ Live(srv)
      /\ \A u \in Tasks : Live(u) /\ fiber[u].kind = "filter" => fiber[u].parent # srv
  BY <1>3, <1>4, Inlet
<1>6. PICK last : last = LastMove(queue[srv])
  OBVIOUS
<1>7. \/ /\ last # None /\ job' = [job EXCEPT ![last].arg = calls] /\ UNCHANGED queue
         /\ fiber' = [fiber EXCEPT ![srv] = Woken(@)]
         /\ UNCHANGED <<done, current, serial, fail>>
      \/ /\ FreeJobs # {} /\ Enqueue(srv, Job("msg", code, None, {}, calls))
         /\ fiber' = [fiber EXCEPT ![srv] = Woken(@)]
         /\ UNCHANGED <<done, current, serial, fail>>
      \/ UNCHANGED <<fiber, jobVars, current, serial, fail>>
      \/ Fails("guest message queue full")
  BY <1>3, <1>4, <1>6, Zenon
<1>8. PICK g : g = Woken(fiber[srv]) /\ Calm(srv, g)
  BY <1>5, WokenNudged
<1>9. ASSUME fiber' = [fiber EXCEPT ![srv] = Woken(@)] PROVE Calmly
  <2>1. DOMAIN fiber = Tasks
    BY DEF IInv, Types
  <2>2. fiber' = [fiber EXCEPT ![srv] = g]
    BY <1>8, <1>9
  <2> QED
    BY <1>5, <1>8, <2>1, <2>2 DEF Calmly
<1>10. CASE /\ last # None /\ job' = [job EXCEPT ![last].arg = calls] /\ UNCHANGED queue
            /\ fiber' = [fiber EXCEPT ![srv] = Woken(@)]
            /\ UNCHANGED <<done, current, serial, fail>>
  <2>1. queue[srv] # <<>> /\ last = Last(queue[srv]) /\ job[last].kind = "msg"
    BY <1>6, <1>10 DEF LastMove
  <2>2. Calmly /\ Rest
    BY <1>1, <1>9, <1>10, ClockIs DEF Apart
  <2>3. UNCHANGED <<queue, done>>
    BY <1>10
  <2> QED
    BY <1>2, <1>5, <1>10, <2>1, <2>2, <2>3, CoalesceStep
<1>11. CASE /\ FreeJobs # {} /\ Enqueue(srv, Job("msg", code, None, {}, calls))
            /\ fiber' = [fiber EXCEPT ![srv] = Woken(@)]
            /\ UNCHANGED <<done, current, serial, fail>>
  <2>1. PICK rec : rec = Job("msg", code, None, {}, calls)
    OBVIOUS
  <2>2. /\ JobType(rec) /\ rec.kind = "msg" /\ rec.flags = {} /\ rec.arg = calls
    <3>1. PICK kind \in {"exe", "call", "spawn", "msg", "text"} : kind = "msg"
      OBVIOUS
    <3>2. PICK m \in Tasks \cup {None}, arg \in Int : m = None /\ arg = calls
      BY <1>2
    <3>3. PICK flags : flags = {}
      OBVIOUS
    <3>4. rec = Job(kind, code, m, flags, arg)
      BY <2>1, <3>1, <3>2, <3>3, Zenon
    <3>5. JobType(rec) /\ rec.kind = kind /\ rec.flags = flags /\ rec.arg = arg
      BY <3>4, JobRecord
    <3> QED
      BY <3>1, <3>2, <3>3, <3>5
  <2>3. Request(srv, rec)
    BY <1>2, <1>5, <2>2 DEF Request
  <2>4. Calmly /\ Rest /\ done' = done
    BY <1>1, <1>9, <1>11, ClockIs DEF Apart
  <2>5. Live(srv)'
    BY <1>5, <2>4, CalmLives
  <2> QED
    BY <1>5, <1>11, <2>1, <2>3, <2>4, <2>5, EnqueueStep
<1>12. CASE UNCHANGED <<fiber, jobVars, current, serial, fail>>
  <2>1. fiber' = fiber /\ UNCHANGED jobVars /\ Apart
    BY <1>1, <1>12 DEF Apart, jobVars
  <2>2. Calmly
    BY <2>1 DEF Calmly, IInv, Types
  <2> QED
    BY <2>1, <2>2, CalmStep, ClockIs
<1>13. CASE Fails("guest message queue full")
  BY <1>1, <1>13, PoolFull, Zenon
<1> QED
  BY <1>7, <1>10, <1>11, <1>12, <1>13, Zenon

-----------------------------------------------------------------------------
(* Jobs that leave the pool *)

LEMMA InSet ==
    ASSUME NEW A, NEW s \in Seq(A), NEW j
    PROVE  j \in ToSet(s) <=> InList(j, s)
  BY DEF ToSet, InList

LEMMA ListedJob ==
    ASSUME NEW s \in Seq(Jobs), NEW j, InList(j, s)
    PROVE  j \in Jobs
  BY DEF InList

LEMMA ListWithout ==
    ASSUME NEW s \in Seq(Jobs), NEW j
    PROVE  /\ Without(s, j) \in Seq(Jobs)
           /\ \A i : InList(i, Without(s, j)) <=> InList(i, s) /\ i # j
           /\ Distinct(s) => Distinct(Without(s, j))
           /\ \A pool : Sorted(pool, s) => Sorted(pool, Without(s, j))
<1>1. PICK S : S = ToSet(s) \ {j}
  OBVIOUS
<1>2. Without(s, j) = Only(s, S)
  BY <1>1 DEF Without
<1>3. \A i : InList(i, s) /\ i \in S <=> InList(i, s) /\ i # j
  BY <1>1, InSet
<1>4. /\ Only(s, S) \in Seq(Jobs)
      /\ \A i : InList(i, Only(s, S)) <=> InList(i, s) /\ i \in S
      /\ Distinct(s) => Distinct(Only(s, S))
      /\ \A pool : Sorted(pool, s) => Sorted(pool, Only(s, S))
  BY ListOnly
<1> QED
  BY <1>2, <1>3, <1>4

LEMMA RemoveStep ==
    ASSUME IInv, Rest, Family, NEW n \in Jobs, OthersStay(n), job'[n] = NoJob,
           \A t \in Tasks, w \in ListKinds : ~In(n, t, w)',
           queue' \in [Tasks -> Seq(Jobs)], done' \in [Tasks -> Seq(Jobs)],
           DOMAIN job' = Jobs, \A t \in Tasks : Sorted(job, queue'[t]),
           Reserved', Harmless
    PROVE  Fine
<1>1. FiltersStay /\ \A t \in Tasks : Live(t) => Live(t)'
  BY FamilyFilters
<1>2. /\ job'[n].kind = "none"
      /\ \A j \in Jobs : j # n => job'[j] = job[j]
      /\ \A j \in Jobs, t \in Tasks, w \in ListKinds : In(j, t, w)' => j # n /\ In(j, t, w)
  BY DEF NoJob, OthersStay
<1>3. OnePlace' /\ Pooled'
  <2>1. Root \in Tasks /\ "queue" \in ListKinds
    BY Numbers DEF ListKinds
  <2> QED
    BY <1>1, <1>2, <2>1, OneJobMoves DEF IInv
<1>4. InOrder'
  <2>1. ASSUME NEW t \in Tasks PROVE Sorted(job', queue'[t])
    <3>1. PICK s \in Seq(Jobs) : s = queue'[t]
      OBVIOUS
    <3>2. \A i : InList(i, s) => In(i, t, "queue")'
      BY <3>1, HeldIs DEF In, InList
    <3>3. PICK pool : pool = job'
      OBVIOUS
    <3>4. \A i \in Jobs : InList(i, s) => pool[i] = job[i]
      BY <1>2, <3>2, <3>3 DEF ListKinds
    <3>5. Sorted(pool, s)
      BY <3>1, <3>4, SortedSame
    <3> QED
      BY <3>1, <3>3, <3>5
  <2>2. \A t \in Tasks, j \in Jobs : In(j, t, "queue")' =>
           In(j, t, "queue") /\ job'[j] = job[j]
    BY <1>2 DEF ListKinds
  <2> QED
    BY <1>1, <2>1, <2>2, QueuesShrink DEF IInv
<1>5. \A j \in Jobs : job'[j] = NoJob \/ JobType(job'[j])
  BY <1>2 DEF IInv, Types
<1> QED
  BY <1>3, <1>4, <1>5, FineIs

\* JobResGet, SpawnQueue and Sys collect a completed job.
LEMMA TakesFine ==
    ASSUME IInv, Running, Clock, Top.op \notin Bottom \cup {"body", "text"},
           NEW n, IsDone(n), NEW me, Like(me), me.stack = Tail(Me.stack), Takes(n, me)
    PROVE  Fine
<1>1. DOMAIN fiber = Tasks /\ current \in Tasks /\ Live(current) /\ Me = fiber[current]
  BY MeIs DEF IInv, Types
<1>2. /\ DOMAIN job = Jobs /\ queue \in [Tasks -> Seq(Jobs)] /\ done \in [Tasks -> Seq(Jobs)]
      /\ \A t \in Tasks : fiber[t].active \in Seq(Jobs)
  BY DEF IInv, Types, FiberType
<1>3. PICK t0 \in Tasks, w0 \in ListKinds : In(n, t0, w0) /\ n \in Jobs
  <2>1. PICK t0 \in Tasks : \/ n \in ToSet(fiber[t0].active)
                            \/ n \in ToSet(queue[t0])
                            \/ n \in ToSet(done[t0])
    BY DEF IsDone, Known
  <2>2. \/ InList(n, Held(t0, "active")) \/ InList(n, Held(t0, "queue"))
        \/ InList(n, Held(t0, "done"))
    <3>1. queue[t0] \in Seq(Jobs) /\ done[t0] \in Seq(Jobs)
      BY <1>2
    <3> QED
      BY <1>2, <2>1, <3>1, InSet, HeldIs
  <2>3. n \in Jobs
    <3>1. /\ Held(t0, "active") \in Seq(Jobs) /\ Held(t0, "queue") \in Seq(Jobs)
          /\ Held(t0, "done") \in Seq(Jobs)
      <4>1. /\ queue[t0] \in Seq(Jobs) /\ done[t0] \in Seq(Jobs)
            /\ fiber[t0].active \in Seq(Jobs)
        BY <1>2
      <4> QED
        BY <4>1, HeldIs
    <3> QED
      BY <2>2, <3>1, ListedJob
  <2> QED
    BY <2>2, <2>3 DEF In, ListKinds
<1>4. w0 = "done"
  BY <1>3 DEF IsDone, IInv, Pooled
<1>5. \A t \in Tasks, w \in ListKinds : In(n, t, w) => w = "done"
  BY <1>3, <1>4 DEF IInv, OnePlace
<1>6. /\ done' = [t \in Tasks |-> Without(done[t], n)]
      /\ job' = [job EXCEPT ![n] = NoJob] /\ queue' = queue
      /\ SetMe([me EXCEPT !.wait = "none"]) /\ Apart
  BY DEF Takes, Collect, Apart
<1>7. PICK g : g = [me EXCEPT !.wait = "none"]
  OBVIOUS
<1>8. Like(g) /\ g.stack = Tail(Me.stack)
  BY <1>7 DEF Like, Fields
<1>9. Calm(current, g)
  <2>1. OnStack(current, Me.stack, Tail(Me.stack), Me.active)
    BY MeIs, OnSame, OnPop DEF Top
  <2> QED
    BY <1>8, <2>1, CalmMe
<1>10. Calmly
  <2>1. fiber' = [fiber EXCEPT ![current] = g]
    BY <1>6, <1>7 DEF SetMe
  <2> QED
    BY <1>1, <1>9, <2>1 DEF Calmly
<1>11. Family /\ ActiveKept /\ TextsKept /\ Rest
  BY <1>6, <1>10, CalmFamily, ClockIs
<1>12. /\ DOMAIN job' = Jobs /\ job'[n] = NoJob
       /\ \A j \in Jobs : j # n => job'[j] = job[j]
  BY <1>2, <1>3, <1>6
<1>13. ASSUME NEW t \in Tasks
       PROVE  /\ done'[t] \in Seq(Jobs) /\ Distinct(done'[t])
              /\ \A i : InList(i, done'[t]) <=> InList(i, done[t]) /\ i # n
  <2>1. PICK s \in Seq(Jobs) : s = done[t]
    BY <1>2
  <2>2. Distinct(s)
    <3>1. Distinct(Held(t, "done"))
      BY DEF IInv, OnePlace, ListKinds
    <3> QED
      BY <2>1, <3>1, HeldIs
  <2>3. PICK z : z = Without(s, n)
    OBVIOUS
  <2>4. z \in Seq(Jobs) /\ Distinct(z) /\ \A i : InList(i, z) <=> InList(i, s) /\ i # n
    BY <2>2, <2>3, ListWithout
  <2>5. done'[t] = z
    BY <1>6, <2>1, <2>3
  <2> QED
    BY <2>1, <2>4, <2>5
<1>14. done' \in [Tasks -> Seq(Jobs)]
  <2>1. DOMAIN done' = Tasks /\ done' = [t \in Tasks |-> done'[t]]
    BY <1>6
  <2> QED
    BY <1>13, <2>1
<1>15. ASSUME NEW t \in Tasks, NEW w \in ListKinds
       PROVE  /\ \A j \in Jobs : In(j, t, w)' <=> In(j, t, w) /\ j # n
              /\ Distinct(Held(t, w))'
  <2>1. CASE w = "done"
    <3>1. Held(t, w)' = done'[t] /\ Held(t, w) = done[t]
      BY <2>1, HeldIs
    <3>2. \A j \in Jobs : (In(j, t, w)' <=> InList(j, done'[t]))
                          /\ (In(j, t, w) <=> InList(j, done[t]))
      BY <3>1 DEF In, InList
    <3>3. Distinct(Held(t, w))'
      BY <1>13, <3>1 DEF Distinct
    <3> QED
      BY <1>13, <3>2, <3>3
  <2>2. CASE w # "done"
    <3>1. Held(t, w)' = Held(t, w)
      BY <1>6, <1>11, <2>2, HeldIs DEF Held, ListKinds, ActiveKept
    <3>2. \A j : In(j, t, w)' <=> In(j, t, w)
      BY <3>1 DEF In, InList
    <3>3. Distinct(Held(t, w))'
      BY <3>1 DEF IInv, OnePlace, Distinct
    <3> QED
      BY <1>5, <2>2, <3>2, <3>3
  <2> QED
    BY <2>1, <2>2
<1>16. OthersStay(n)
  BY <1>12, <1>15 DEF OthersStay
<1>17. \A t \in Tasks, w \in ListKinds : ~In(n, t, w)'
  BY <1>3, <1>15
<1>18. Reserved'
  <2>1. Unreserved(n)
    BY <1>3, UnreservedIs DEF IInv
  <2> QED
    BY <1>3, <1>11, <1>16, <2>1, ReservedOthers DEF IInv
<1>19. Harmless
  <2>1. \A t \in Tasks : ~In(n, t, "active") /\ ~In(n, t, "queue")
    BY <1>5 DEF ListKinds
  <2>2. \A j \in Jobs : job[j] # NoJob /\ job'[j] = NoJob => j = n
    BY <1>12
  <2> QED
    BY <1>11, <2>1, <2>2, HarmlessIs
<1>20. \A t \in Tasks : Sorted(job, queue'[t])
  BY <1>6 DEF IInv, InOrder
<1>21. queue' \in [Tasks -> Seq(Jobs)]
  BY <1>2, <1>6
<1> QED
  BY <1>3, <1>11, <1>12, <1>14, <1>16, <1>17, <1>18, <1>19, <1>20, <1>21, RemoveStep

LEMMA ResultLoopsFine ==
    ASSUME IInv, ResultLoops
    PROVE  Fine
<1>1. /\ Running /\ Clock /\ Top.op \notin Bottom \cup {"body", "text"} /\ Top \in Frames
  <2>1. "result" \in HostOps /\ At("result")
    BY DEF HostOps, FrameOps, Bottom, ResultLoops
  <2> QED
    BY <2>1, AtHost
<1>2. CASE IsDone(Top.on) /\ Takes(Top.on, Popped)
  <2>1. PICK me : me = Popped
    OBVIOUS
  <2> QED
    BY <1>1, <1>2, <2>1, PoppedIs, TakesFine
<1>3. CASE \/ Fails("job request ended before completion")
           \/ Fails("executive cannot wait for its own job")
           \/ Fails("job wait cannot progress")
  <2>1. PICK why \in {"job request ended before completion",
                      "executive cannot wait for its own job",
                      "job wait cannot progress"} : Fails(why)
    BY <1>3, Zenon
  <2>2. why \notin TreeFailures
    BY <2>1, Zenon DEF TreeFailures
  <2> QED
    BY <1>1, <2>1, <2>2, FailStep
<1>4. CASE /\ SetMe([Pushed(Frame("yield")) EXCEPT !.wait = "job", !.target = Top.on])
           /\ UNCHANGED <<jobVars, current, serial, fail>>
  <2>1. "yield" \in HostOps
    BY DEF HostOps, FrameOps, Bottom
  <2>2. PICK fr \in Frames : fr = Frame("yield") /\ fr.op \notin Bottom \cup {"body", "text"}
    BY <2>1, HostFrame
  <2>3. PICK g : g = [Pushed(fr) EXCEPT !.wait = "job", !.target = Top.on]
    OBVIOUS
  <2>4. Top.on \in Tasks \cup Jobs \cup {None}
    BY <1>1 DEF Frames
  <2>5. Like(g) /\ g.stack = <<fr>> \o Me.stack
    BY <1>1, <2>3, <2>4, MeIs DEF Pushed, Like, Fields
  <2>6. Quiet(g)
    BY <1>1, <1>4, <2>2, <2>3 DEF Quiet, Apart
  <2> QED
    BY <1>1, <2>2, <2>5, <2>6, PushStep
<1> QED
  BY <1>2, <1>3, <1>4, Zenon DEF ResultLoops

LEMMA SpawnedReturnsFine ==
    ASSUME IInv, SpawnedReturns
    PROVE  Fine
<1>1. /\ Running /\ Clock /\ Top.op \notin Bottom \cup {"body", "text"}
  <2>1. "spawned" \in HostOps /\ At("spawned")
    BY DEF HostOps, FrameOps, Bottom, SpawnedReturns
  <2> QED
    BY <2>1, AtHost
<1>2. CASE IsDone(Top.on) /\ Takes(Top.on, [Popped EXCEPT !.idle = FALSE])
  <2>1. PICK me : me = [Popped EXCEPT !.idle = FALSE]
    OBVIOUS
  <2>2. Like(me) /\ me.stack = Tail(Me.stack)
    BY <1>1, <2>1, PoppedIs DEF Like, Fields
  <2> QED
    BY <1>1, <1>2, <2>1, <2>2, TakesFine
<1>3. CASE Fails("SpawnQueue request ended before completion")
  <2>1. PICK why : why = "SpawnQueue request ended before completion"
    OBVIOUS
  <2>2. why \notin TreeFailures
    BY <2>1, Zenon DEF TreeFailures
  <2> QED
    BY <1>1, <1>3, <2>1, <2>2, FailStep
<1> QED
  BY <1>2, <1>3, Zenon DEF SpawnedReturns

LEMMA SysReturnsFine ==
    ASSUME IInv, SysReturns
    PROVE  Fine
<1>1. /\ Running /\ Clock /\ Top.op \notin Bottom \cup {"body", "text"}
  <2>1. "sys" \in HostOps /\ At("sys")
    BY DEF HostOps, FrameOps, Bottom, SysReturns
  <2> QED
    BY <2>1, AtHost
<1>2. CASE IsDone(Top.on) /\ Takes(Top.on, Popped)
  <2>1. PICK me : me = Popped
    OBVIOUS
  <2> QED
    BY <1>1, <1>2, <2>1, PoppedIs, TakesFine
<1>3. CASE Fails("system request did not complete")
  <2>1. PICK why : why = "system request did not complete"
    OBVIOUS
  <2>2. why \notin TreeFailures
    BY <2>1, Zenon DEF TreeFailures
  <2> QED
    BY <1>1, <1>3, <2>1, <2>2, FailStep
<1> QED
  BY <1>2, <1>3, Zenon DEF SysReturns

\* The running task takes the message at the head of its queue.
LEMMA ReadStep ==
    ASSUME IInv, Running, Apart, queue[current] # <<>>,
           job[Head(queue[current])].kind = "msg",
           queue' = [queue EXCEPT ![current] = Tail(@)],
           job' = [job EXCEPT ![Head(queue[current])] = NoJob],
           done' = done, Calmly,
           Me.kind = "filter" => Top.op = "take"
    PROVE  Fine
<1>1. DOMAIN fiber = Tasks /\ current \in Tasks /\ Live(current) /\ Me = fiber[current]
  BY MeIs DEF IInv, Types
<1>2. /\ DOMAIN job = Jobs /\ queue \in [Tasks -> Seq(Jobs)] /\ done \in [Tasks -> Seq(Jobs)]
  BY DEF IInv, Types
<1>3. PICK q \in Seq(Jobs) : q = queue[current] /\ q # <<>>
  BY <1>1, <1>2
<1>4. PICK n \in Jobs : n = Head(q)
  BY <1>3, ListTail
<1>5. PICK z \in Seq(Jobs) : z = Tail(q)
  BY <1>3, ListTail
<1>6. Distinct(q) /\ Sorted(job, q)
  <2>1. Distinct(Held(current, "queue"))
    BY <1>1 DEF IInv, OnePlace, ListKinds
  <2> QED
    BY <1>1, <1>3, <2>1, HeldIs DEF IInv, InOrder
<1>7. /\ InList(n, q) /\ Distinct(z) /\ Sorted(job, z)
      /\ \A i : InList(i, z) <=> InList(i, q) /\ i # n
  BY <1>3, <1>4, <1>5, <1>6, ListTail
<1>8. In(n, current, "queue")
  BY <1>3, <1>7, HeldIs DEF In
<1>9. \A t \in Tasks, w \in ListKinds : In(n, t, w) => t = current /\ w = "queue"
  BY <1>1, <1>8 DEF IInv, OnePlace, ListKinds
<1>10. /\ DOMAIN job' = Jobs /\ job'[n] = NoJob
       /\ \A j \in Jobs : j # n => job'[j] = job[j]
  BY <1>2, <1>3, <1>4
<1>11. /\ queue' \in [Tasks -> Seq(Jobs)] /\ queue'[current] = z
       /\ \A t \in Tasks : t # current => queue'[t] = queue[t]
  BY <1>1, <1>2, <1>3, <1>5
<1>12. Family /\ ActiveKept /\ TextsKept /\ Rest
  BY CalmFamily, ClockIs
<1>13. ASSUME NEW t \in Tasks, NEW w \in ListKinds
       PROVE  /\ \A j \in Jobs : In(j, t, w)' <=> In(j, t, w) /\ j # n
              /\ Distinct(Held(t, w))'
  <2>1. CASE t = current /\ w = "queue"
    <3>1. Held(t, w)' = z /\ Held(t, w) = q
      BY <1>3, <1>11, <2>1, HeldIs
    <3>2. \A j \in Jobs : (In(j, t, w)' <=> InList(j, z)) /\ (In(j, t, w) <=> InList(j, q))
      BY <3>1 DEF In, InList
    <3>3. Distinct(Held(t, w))'
      BY <1>7, <3>1 DEF Distinct
    <3> QED
      BY <1>7, <3>2, <3>3
  <2>2. CASE ~(t = current /\ w = "queue")
    <3>1. Held(t, w)' = Held(t, w)
      BY <1>11, <1>12, <2>2, HeldIs DEF Held, ListKinds, ActiveKept
    <3>2. \A j : In(j, t, w)' <=> In(j, t, w)
      BY <3>1 DEF In, InList
    <3>3. Distinct(Held(t, w))'
      BY <3>1 DEF IInv, OnePlace, Distinct
    <3> QED
      BY <1>9, <2>2, <3>2, <3>3
  <2> QED
    BY <2>1, <2>2
<1>14. OthersStay(n)
  BY <1>10, <1>13 DEF OthersStay
<1>15. \A t \in Tasks, w \in ListKinds : ~In(n, t, w)'
  BY <1>13
<1>16. Reserved'
  <2>1. Unreserved(n)
    BY <1>1, <1>8, UnreservedIs DEF IInv, ListKinds
  <2> QED
    BY <1>12, <1>14, <2>1, ReservedOthers DEF IInv
<1>17. Harmless
  <2>1. \A t \in Tasks : ~In(n, t, "active") /\ (In(n, t, "queue") => t = current)
    BY <1>9 DEF ListKinds
  <2>2. \A j \in Jobs : job[j] # NoJob /\ job'[j] = NoJob => j = n
    BY <1>10
  <2> QED
    BY <1>1, <1>12, <2>1, <2>2, HarmlessIs
<1>18. ASSUME NEW t \in Tasks PROVE Sorted(job, queue'[t])
  BY <1>7, <1>11 DEF IInv, InOrder
<1>19. done' \in [Tasks -> Seq(Jobs)]
  BY <1>2
<1> QED
  BY <1>10, <1>11, <1>12, <1>14, <1>15, <1>16, <1>17, <1>18, <1>19, RemoveStep

LEMMA GetTakesFine ==
    ASSUME IInv, GetTakes
    PROVE  Fine
<1>1. /\ Running /\ Clock /\ Top.op \notin Bottom \cup {"body", "text"}
      /\ Top.op = "take" /\ Top \in Frames
  <2>1. "take" \in HostOps /\ At("take")
    BY DEF HostOps, FrameOps, Bottom, GetTakes
  <2> QED
    BY <2>1, AtHost
<1>2. DOMAIN fiber = Tasks /\ current \in Tasks /\ Live(current) /\ Me = fiber[current]
  BY <1>1, MeIs DEF IInv, Types
<1> DEFINE loop == <<Frame("yield"), [Top EXCEPT !.op = "get"]>>
<1>3. \/ /\ queue[current] # <<>> /\ job[Head(queue[current])].kind = "msg"
         /\ queue' = [queue EXCEPT ![current] = Tail(@)]
         /\ job' = [job EXCEPT ![Head(queue[current])] = NoJob]
         /\ SetMe([Popped EXCEPT !.idle = FALSE, !.wait = "none"])
         /\ UNCHANGED <<done, current, serial, fail>>
      \/ /\ SetMe([Popped EXCEPT !.idle = TRUE, !.wait = "none"])
         /\ UNCHANGED <<jobVars, current, serial, fail>>
      \/ Fails("message wait cannot progress")
      \/ /\ SetMe([Replaced(loop) EXCEPT
                   !.idle = TRUE,
                   !.wait = IF Top.flag THEN "message timeout" ELSE "message",
                   !.target = IF Top.flag THEN @ ELSE current])
         /\ UNCHANGED <<jobVars, current, serial, fail>>
  BY Zenon DEF GetTakes
<1>4. CASE /\ queue[current] # <<>> /\ job[Head(queue[current])].kind = "msg"
           /\ queue' = [queue EXCEPT ![current] = Tail(@)]
           /\ job' = [job EXCEPT ![Head(queue[current])] = NoJob]
           /\ SetMe([Popped EXCEPT !.idle = FALSE, !.wait = "none"])
           /\ UNCHANGED <<done, current, serial, fail>>
  <2>1. PICK g : g = [Popped EXCEPT !.idle = FALSE, !.wait = "none"]
    OBVIOUS
  <2>2. Like(g) /\ g.stack = Tail(Me.stack)
    BY <1>1, <2>1, PoppedIs DEF Like, Fields
  <2>3. OnStack(current, Me.stack, Tail(Me.stack), Me.active)
    BY <1>1, MeIs, OnSame, OnPop DEF Top
  <2>4. Calm(current, g)
    BY <1>1, <2>2, <2>3, CalmMe
  <2>5. fiber' = [fiber EXCEPT ![current] = g]
    BY <1>4, <2>1 DEF SetMe
  <2>6. Calmly
    BY <1>2, <2>4, <2>5 DEF Calmly
  <2>7. Apart /\ done' = done
    BY <1>1, <1>4 DEF Apart
  <2> QED
    BY <1>1, <1>4, <2>6, <2>7, ReadStep
<1>5. CASE /\ SetMe([Popped EXCEPT !.idle = TRUE, !.wait = "none"])
           /\ UNCHANGED <<jobVars, current, serial, fail>>
  <2>1. PICK g : g = [Popped EXCEPT !.idle = TRUE, !.wait = "none"]
    OBVIOUS
  <2>2. Like(g) /\ g.stack = Tail(Me.stack)
    BY <1>1, <2>1, PoppedIs DEF Like, Fields
  <2>3. Quiet(g)
    BY <1>1, <1>5, <2>1 DEF Quiet, Apart
  <2> QED
    BY <1>1, <2>2, <2>3, PopStep
<1>6. CASE Fails("message wait cannot progress")
  <2>1. PICK why : why = "message wait cannot progress"
    OBVIOUS
  <2>2. why \notin TreeFailures
    BY <2>1, Zenon DEF TreeFailures
  <2> QED
    BY <1>1, <1>6, <2>1, <2>2, FailStep
<1>7. CASE /\ SetMe([Replaced(loop) EXCEPT
                   !.idle = TRUE,
                   !.wait = IF Top.flag THEN "message timeout" ELSE "message",
                   !.target = IF Top.flag THEN @ ELSE current])
           /\ UNCHANGED <<jobVars, current, serial, fail>>
  <2>1. "yield" \in HostOps /\ "get" \in HostOps
    BY DEF HostOps, FrameOps, Bottom
  <2>2. PICK f1 \in Frames : f1 = Frame("yield") /\ f1.op \notin Bottom \cup {"body", "text"}
    BY <2>1, HostFrame
  <2>3. PICK f2 \in Frames : /\ f2 = [Top EXCEPT !.op = "get"]
                             /\ f2.op \notin Bottom \cup {"body", "text"}
    <3>1. [Top EXCEPT !.op = "get"] \in Frames /\ [Top EXCEPT !.op = "get"].op = "get"
      BY <1>1, <2>1 DEF Frames, HostOps
    <3> QED
      BY <2>1, <3>1 DEF HostOps
  <2>4. PICK w : w = IF Top.flag THEN "message timeout" ELSE "message"
    OBVIOUS
  <2>5. PICK g : g = [Replaced(<<f1, f2>>) EXCEPT
                   !.idle = TRUE, !.wait = w,
                   !.target = IF Top.flag THEN @ ELSE current]
    OBVIOUS
  <2>6. Like(g) /\ g.stack = <<f1, f2>> \o Tail(Me.stack)
    BY <1>1, <1>2, <2>5, MeIs DEF Replaced, Like, Fields
  <2>7. Quiet(g)
    BY <1>1, <1>7, <2>2, <2>3, <2>4, <2>5, Zenon DEF Quiet, Apart
  <2> QED
    BY <1>1, <2>2, <2>3, <2>6, <2>7, ReplaceTwoStep
<1> QED
  BY <1>3, <1>4, <1>5, <1>6, <1>7, Zenon

\* A task other than an application's and the root is no input filter.
LEMMA ServerLoopsFine ==
    ASSUME IInv, ServerLoops
    PROVE  Fine
<1>1. CASE /\ At("loop")
           /\ SetMe(Replaced(<<FrameOn("jobs", None, FALSE, 0), Frame("idle")>>))
           /\ UNCHANGED <<jobVars, current, serial, fail>>
  <2>1. Running /\ Clock /\ Top.op = "loop"
    BY <1>1, ClockIs
  <2>2. "jobs" \in HostOps /\ "loop" \in Bottom /\ "idle" \in Bottom /\ "idle" \in FrameOps
    BY DEF HostOps, FrameOps, Bottom
  <2>3. PICK f1 \in Frames : /\ f1 = FrameOn("jobs", None, FALSE, 0)
                             /\ f1.op \notin Bottom \cup {"body", "text"}
    BY <2>2, HostFrame
  <2>4. Frame("idle") \in Frames /\ Frame("idle").op = "idle"
    <3>1. None \in Tasks \cup Jobs \cup {None} /\ FALSE \in BOOLEAN /\ 0 \in Nat
      OBVIOUS
    <3> QED
      BY <2>2, <3>1, FrameTyped
  <2>5. PICK f2 \in Frames : f2 = Frame("idle") /\ f2.op = "idle"
    BY <2>4
  <2>6. current # Root
    <3>1. Stacked(current, Me.stack, Me.active) /\ Head(Me.stack).op = "loop"
      BY <2>1, MeIs DEF Top
    <3> QED
      BY <2>2, <3>1, StackTop
  <2>7. PICK g : g = Replaced(<<f1, f2>>)
    OBVIOUS
  <2>8. Like(g) /\ g.stack = <<f1, f2>> \o Tail(Me.stack)
    BY <2>1, <2>7, MeIs DEF Replaced, Like, Fields
  <2>9. Quiet(g)
    BY <1>1, <2>1, <2>3, <2>5, <2>7 DEF Quiet, Apart
  <2> QED
    BY <2>1, <2>2, <2>3, <2>5, <2>6, <2>8, <2>9, ReplaceTwoStep
<1>2. ASSUME At("idle"),
             LET q == queue[current] IN
             IF current = System /\ q # <<>> /\ job[Head(q)].kind = "msg"
             THEN /\ queue' = [queue EXCEPT ![current] = Tail(@)]
                  /\ job' = [job EXCEPT ![Head(q)] = NoJob]
                  /\ SetMe(Replaced(<<Frame("loop")>>))
                  /\ UNCHANGED <<done, current, serial, fail>>
             ELSE /\ SetMe([Replaced(<<Frame("yield"), Frame("loop")>>) EXCEPT
                               !.idle = TRUE, !.await = TRUE])
                  /\ UNCHANGED <<jobVars, current, serial, fail>>
      PROVE  Fine
  <2>1. Running /\ Clock /\ Top.op = "idle"
    BY <1>2, ClockIs
  <2>2. "yield" \in HostOps /\ "loop" \in Bottom /\ "idle" \in Bottom /\ "loop" \in FrameOps
    BY DEF HostOps, FrameOps, Bottom
  <2>3. PICK f1 \in Frames : f1 = Frame("yield") /\ f1.op \notin Bottom \cup {"body", "text"}
    BY <2>2, HostFrame
  <2>4. Frame("loop") \in Frames /\ Frame("loop").op = "loop"
    <3>1. None \in Tasks \cup Jobs \cup {None} /\ FALSE \in BOOLEAN /\ 0 \in Nat
      OBVIOUS
    <3> QED
      BY <2>2, <3>1, FrameTyped
  <2>5. PICK f2 \in Frames : f2 = Frame("loop") /\ f2.op = "loop"
    BY <2>4
  <2>6. Stacked(current, Me.stack, Me.active) /\ Head(Me.stack).op = "idle"
    BY <2>1, MeIs DEF Top
  <2>7. current # Root
    BY <2>2, <2>6, StackTop
  <2>8. CASE /\ current = System
             /\ queue[current] # <<>> /\ job[Head(queue[current])].kind = "msg"
             /\ queue' = [queue EXCEPT ![current] = Tail(@)]
             /\ job' = [job EXCEPT ![Head(queue[current])] = NoJob]
             /\ SetMe(Replaced(<<Frame("loop")>>))
             /\ UNCHANGED <<done, current, serial, fail>>
    <3>1. PICK g : g = Replaced(<<f2>>)
      OBVIOUS
    <3>2. Like(g) /\ g.stack = <<f2>> \o Tail(Me.stack)
      BY <2>1, <3>1, MeIs DEF Replaced, Like, Fields
    <3>3. OnStack(current, Me.stack, <<f2>> \o Tail(Me.stack), Me.active)
      BY <2>2, <2>5, <2>6, <2>7, OnLoop
    <3>4. Calm(current, g)
      BY <2>1, <3>2, <3>3, CalmMe
    <3>5. fiber' = [fiber EXCEPT ![current] = g]
      BY <2>5, <2>8, <3>1 DEF SetMe
    <3>6. DOMAIN fiber = Tasks /\ current \in Tasks /\ Live(current) /\ Me = fiber[current]
      BY <2>1, MeIs DEF IInv, Types
    <3>7. Calmly
      BY <3>4, <3>5, <3>6 DEF Calmly
    <3>8. Apart /\ done' = done
      BY <2>1, <2>8 DEF Apart
    <3>9. Me.kind # "filter"
      <4>1. current \notin 1 .. AppTasks - 1
        BY <2>8, Numbers
      <4> QED
        BY <3>6, <4>1 DEF IInv, Filters
    <3> QED
      BY <2>1, <2>8, <3>7, <3>8, <3>9, ReadStep
  <2>9. CASE /\ SetMe([Replaced(<<Frame("yield"), Frame("loop")>>) EXCEPT
                               !.idle = TRUE, !.await = TRUE])
             /\ UNCHANGED <<jobVars, current, serial, fail>>
    <3>1. PICK g : g = [Replaced(<<f1, f2>>) EXCEPT !.idle = TRUE, !.await = TRUE]
      OBVIOUS
    <3>2. Like(g) /\ g.stack = <<f1, f2>> \o Tail(Me.stack)
      BY <2>1, <3>1, MeIs DEF Replaced, Like, Fields
    <3>3. Quiet(g)
      BY <2>1, <2>3, <2>5, <2>9, <3>1 DEF Quiet, Apart
    <3> QED
      BY <2>1, <2>2, <2>3, <2>5, <2>7, <3>2, <3>3, ReplaceTwoStep
  <2> QED
    BY <1>2, <2>8, <2>9, Zenon
<1> QED
  BY <1>1, <1>2, Zenon DEF ServerLoops

-----------------------------------------------------------------------------
(* Running a job *)

\* The running task takes job n from its queue and calls its body.
LEMMA BodyStep ==
    ASSUME IInv, Running, Apart, NEW n \in Jobs, In(n, current, "queue"),
           job[n].kind # "msg", NEW z \in Seq(Jobs), Distinct(z), Sorted(job, z),
           \A i : InList(i, z) <=> InList(i, queue[current]) /\ i # n,
           queue' = [queue EXCEPT ![current] = z], done' = done, job' = job,
           SetMe([Pushed(FrameOn("body", n, FALSE, 0)) EXCEPT
                    !.active = <<n>> \o @, !.idle = FALSE])
    PROVE  Fine
<1>1. DOMAIN fiber = Tasks /\ current \in Tasks /\ Live(current) /\ Me = fiber[current]
  BY MeIs DEF IInv, Types
<1>2. /\ DOMAIN job = Jobs /\ queue \in [Tasks -> Seq(Jobs)] /\ done \in [Tasks -> Seq(Jobs)]
      /\ \A j \in Jobs : job[j] = NoJob \/ JobType(job[j])
  BY DEF IInv, Types
<1>3. PICK fr \in Frames : /\ fr = FrameOn("body", n, FALSE, 0)
                           /\ fr.op = "body" /\ fr.on = n
  <2>1. PICK op \in FrameOps, x \in Tasks \cup Jobs \cup {None}, b \in BOOLEAN, k \in Nat :
            op = "body" /\ x = n /\ b = FALSE /\ k = 0
    BY DEF FrameOps
  <2>2. op # "exit" /\ op # "text" /\ x \in Jobs
    BY <2>1
  <2>3. /\ FrameOn(op, x, b, k) \in Frames /\ FrameOn(op, x, b, k).op = op
        /\ FrameOn(op, x, b, k).on = x
    BY <2>2, FrameTyped
  <2> QED
    BY <2>1, <2>3
<1>4. PICK act \in Seq(Jobs) : act = Me.active
  BY MeIs DEF FiberType
<1>5. PICK s \in Seq(Frames) : s = Me.stack
  BY MeIs
<1>6. PICK g : g = [Pushed(fr) EXCEPT !.active = <<n>> \o @, !.idle = FALSE]
  OBVIOUS
<1>7. FiberType(Me) /\ Me.state = "run" /\ (current = Root => Me.kill = FALSE)
  BY MeIs
<1>8. /\ DOMAIN g = Fields /\ g.state = "run" /\ g.kind = Me.kind /\ g.parent = Me.parent
      /\ g.filter = Me.filter /\ g.num = Me.num /\ g.target = Me.target
      /\ g.cb = Me.cb /\ g.idle = FALSE /\ (current = Root => g.kill = FALSE)
      /\ g.active = <<n>> \o act /\ g.stack = <<fr>> \o s
  BY <1>4, <1>5, <1>6, <1>7 DEF Pushed, FiberType, Fields
<1>9. Stacked(current, <<fr>> \o s, <<n>> \o act)
  BY <1>3, <1>4, <1>5, MeIs, StackPushBody
<1>10. <<n>> \o act \in Seq(Jobs) /\ <<fr>> \o s \in Seq(Frames)
  BY ConsAt
<1>11. Keeps(current, g)
  <2>1. FiberType(g)
    BY <1>7, <1>8, <1>10 DEF FiberType
  <2> QED
    BY <1>1, <1>8, <1>9, <2>1 DEF Keeps
<1>12. /\ DOMAIN fiber' = Tasks /\ fiber'[current] = g
       /\ \A t \in Tasks : t # current => fiber'[t] = fiber[t]
  BY <1>1, <1>3, <1>6 DEF SetMe
<1>13. Family /\ Rest
  BY <1>1, <1>11, <1>12, ClockIs DEF Family
<1>14. FiltersStay /\ \A t \in Tasks : Live(t) => Live(t)'
  BY <1>13, FamilyFilters
<1>15. TextsKept
  <2>1. Having(g.stack, "text") = Having(Me.stack, "text")
    BY <1>3, <1>5, <1>8, HavingCons
  <2> QED
    BY <1>1, <1>12, <2>1 DEF TextsKept
<1>16. /\ queue' \in [Tasks -> Seq(Jobs)] /\ queue'[current] = z
       /\ \A t \in Tasks : t # current => queue'[t] = queue[t]
  BY <1>1, <1>2
<1>17. \A t \in Tasks, w \in ListKinds : In(n, t, w) => t = current /\ w = "queue"
  BY <1>1 DEF IInv, OnePlace, ListKinds
<1>18. ASSUME NEW t \in Tasks, NEW w \in ListKinds
       PROVE  /\ \A j \in Jobs : j # n => (In(j, t, w)' <=> In(j, t, w))
              /\ In(n, t, w)' <=> t = current /\ w = "active"
              /\ Distinct(Held(t, w))'
  <2>1. CASE t = current /\ w = "queue"
    <3>1. Held(t, w)' = z /\ Held(t, w) = queue[current]
      BY <1>16, <2>1, HeldIs
    <3>2. \A j : (In(j, t, w)' <=> InList(j, z)) /\ (In(j, t, w) <=> InList(j, queue[current]))
      BY <3>1 DEF In, InList
    <3>3. Distinct(Held(t, w))'
      BY <3>1 DEF Distinct
    <3> QED
      BY <2>1, <3>2, <3>3
  <2>2. CASE t = current /\ w = "active"
    <3>1. PICK s1 \in Seq(Jobs) : s1 = <<n>> \o act
      BY <1>10
    <3>2. Held(t, w)' = s1 /\ Held(t, w) = act
      BY <1>1, <1>4, <1>8, <1>12, <2>2, <3>1, HeldIs
    <3>3. \A j : (In(j, t, w)' <=> InList(j, s1)) /\ (In(j, t, w) <=> InList(j, act))
      BY <3>2 DEF In, InList
    <3>4. Distinct(act) /\ ~InList(n, act)
      <4>1. ~In(n, t, w) /\ Distinct(Held(t, w))
        BY <1>17, <2>2 DEF IInv, OnePlace
      <4> QED
        BY <3>2, <3>3, <4>1
    <3>5. Distinct(s1) /\ \A i : InList(i, s1) <=> InList(i, act) \/ i = n
      BY <3>1, <3>4, ListCons
    <3>6. Distinct(Held(t, w))'
      BY <3>2, <3>5 DEF Distinct
    <3> QED
      BY <2>2, <3>3, <3>5, <3>6
  <2>3. CASE ~(t = current /\ w \in {"queue", "active"})
    <3>1. Held(t, w)' = Held(t, w)
      BY <1>12, <1>16, <2>3, HeldIs DEF Held, ListKinds
    <3>2. \A j : In(j, t, w)' <=> In(j, t, w)
      BY <3>1 DEF In, InList
    <3>3. Distinct(Held(t, w))'
      BY <3>1 DEF IInv, OnePlace, Distinct
    <3> QED
      BY <1>17, <2>3, <3>2, <3>3
  <2> QED
    BY <2>1, <2>2, <2>3
<1>19. OthersStay(n)
  BY <1>18 DEF OthersStay
<1>20. /\ job[n] # NoJob /\ "done" \notin job[n].flags
       /\ current = Root => "exit" \notin job[n].flags
  BY <1>1 DEF IInv, Pooled, ListKinds
<1>21. OnePlace' /\ Pooled'
  <2>1. PICK w \in ListKinds : w = "active"
    BY DEF ListKinds
  <2>2. \A t \in Tasks, v \in ListKinds : In(n, t, v)' => t = current /\ v = w
    BY <1>18, <2>1
  <2>3. /\ Live(current)' /\ job'[n] # NoJob
        /\ w = "done" <=> "done" \in job'[n].flags
        /\ w = "active" => job'[n].kind # "msg"
        /\ current = Root /\ w # "done" => "exit" \notin job'[n].flags
    <3>1. Live(current)'
      <4>1. current' = current
        BY DEF Apart
      <4> QED
        BY <1>1, <1>14, <4>1
    <3> QED
      BY <1>20, <2>1, <3>1
  <2>4. In(n, current, w)'
    <3>1. current' = current
      BY DEF Apart
    <3> QED
      BY <1>1, <1>18, <2>1, <3>1
  <2>5. PICK t \in Tasks : t = current /\ t = current'
    BY <1>1 DEF Apart
  <2>6. job'[n].kind # "msg"
    OBVIOUS
  <2>7. Live(t)' /\ In(n, t, w)'
    BY <2>3, <2>4, <2>5
  <2> QED
    BY <1>13, <1>14, <1>19, <2>2, <2>3, <2>5, <2>6, <2>7, OneJobMoves DEF IInv
<1>22. Reserved'
  <2>1. Unreserved(n)
    BY <1>1, UnreservedIs DEF IInv, ListKinds
  <2> QED
    BY <1>15, <1>19, <2>1, ReservedOthers DEF IInv
<1>23. InOrder'
  <2>1. \A t \in Tasks : Sorted(job', queue'[t])
    BY <1>16 DEF IInv, InOrder
  <2>2. \A t \in Tasks, j \in Jobs : In(j, t, "queue")' =>
           In(j, t, "queue") /\ job'[j] = job[j]
    BY <1>18 DEF ListKinds
  <2> QED
    BY <1>14, <2>1, <2>2, QueuesShrink DEF IInv
<1>24. Harmless
  BY <1>13, HarmlessIs
<1>25. done' \in [Tasks -> Seq(Jobs)] /\ DOMAIN job' = Jobs
  BY <1>2
<1> QED
  BY <1>2, <1>13, <1>16, <1>21, <1>22, <1>23, <1>24, <1>25, FineIs

LEMMA DispatchFine ==
    ASSUME IInv, Dispatch
    PROVE  Fine
<1>1. /\ Running /\ Clock /\ Top.op \notin Bottom \cup {"body", "text"}
  <2>1. "jobs" \in HostOps /\ At("jobs")
    BY DEF HostOps, FrameOps, Bottom, Dispatch
  <2> QED
    BY <2>1, AtHost
<1>2. current \in Tasks /\ Live(current) /\ queue \in [Tasks -> Seq(Jobs)] /\ DOMAIN queue = Tasks
  BY <1>1, MeIs DEF IInv, Types
<1>3. PICK q \in Seq(Jobs) : q = queue[current]
  BY <1>2
<1>4. PICK S : S = {k \in ToSet(q) : "sys" \in job[k].flags}
  OBVIOUS
<1>5. PICK b \in BOOLEAN : b = (Top.flag \/ (current = Root /\ q # <<>> /\ job[Head(q)].kind = "msg"))
  OBVIOUS
<1>6. PICK cand : cand = IF b THEN Only(q, S) ELSE q
  OBVIOUS
<1>7. cand \in Seq(Jobs) /\ \A i : InList(i, cand) => InList(i, q)
  BY <1>6, ListOnly
<1>8. PICK n : n = Head(cand)
  OBVIOUS
<1>9. \/ Fails("job dispatch during executive callback")
      \/ Fails("nested job dispatch depth exceeded")
      \/ Return
      \/ /\ cand # <<>> /\ job[n].kind \in {"exe", "call", "spawn"}
         /\ queue' = [queue EXCEPT ![current] = Without(@, n)]
         /\ SetMe([Pushed(FrameOn("body", n, FALSE, 0)) EXCEPT
                            !.active = <<n>> \o @, !.idle = FALSE])
         /\ UNCHANGED <<done, job, current, serial, fail>>
  BY <1>3, <1>4, <1>5, <1>6, <1>8, Zenon DEF Dispatch
<1>10. CASE \/ Fails("job dispatch during executive callback")
            \/ Fails("nested job dispatch depth exceeded")
  <2>1. PICK why \in {"job dispatch during executive callback",
                      "nested job dispatch depth exceeded"} : Fails(why)
    BY <1>10, Zenon
  <2>2. why \notin TreeFailures
    BY <2>1, Zenon DEF TreeFailures
  <2> QED
    BY <1>1, <2>1, <2>2, FailStep
<1>11. CASE Return
  BY <1>1, <1>11, PopFine
<1>12. CASE /\ cand # <<>> /\ job[n].kind \in {"exe", "call", "spawn"}
            /\ queue' = [queue EXCEPT ![current] = Without(@, n)]
            /\ SetMe([Pushed(FrameOn("body", n, FALSE, 0)) EXCEPT
                            !.active = <<n>> \o @, !.idle = FALSE])
            /\ UNCHANGED <<done, job, current, serial, fail>>
  <2>1. n \in Jobs /\ InList(n, cand)
    BY <1>7, <1>8, <1>12, ListTail
  <2>2. In(n, current, "queue")
    BY <1>3, <1>7, <2>1, HeldIs DEF In
  <2>3. PICK z : z = Without(q, n)
    OBVIOUS
  <2>4. Distinct(q) /\ Sorted(job, q)
    <3>1. Distinct(Held(current, "queue"))
      BY <1>2 DEF IInv, OnePlace, ListKinds
    <3> QED
      BY <1>2, <1>3, <3>1, HeldIs DEF IInv, InOrder
  <2>5. /\ z \in Seq(Jobs) /\ Distinct(z) /\ Sorted(job, z)
        /\ \A i : InList(i, z) <=> InList(i, q) /\ i # n
    BY <2>3, <2>4, ListWithout
  <2>6. queue' = [queue EXCEPT ![current] = z]
    BY <1>3, <1>12, <2>3
  <2>7. Apart /\ done' = done /\ job' = job
    BY <1>1, <1>12 DEF Apart
  <2>8. job[n].kind # "msg"
    BY <1>12
  <2> QED
    BY <1>1, <1>3, <1>12, <2>1, <2>2, <2>5, <2>6, <2>7, <2>8, BodyStep
<1> QED
  BY <1>9, <1>10, <1>11, <1>12, Zenon

\* An input filter passes the message at the head of its queue to its server.
LEMMA PassStep ==
    ASSUME IInv, Running, Apart, Me.kind = "filter", NEW p, p = Me.parent,
           queue[current] # <<>>, NEW n, n = Head(queue[current]), job[n].kind = "msg",
           queue' = [queue EXCEPT ![current] = Tail(@), ![p] = Append(@, n)],
           fiber' = [fiber EXCEPT ![p] = Woken(@)], done' = done, job' = job
    PROVE  Fine
<1>1. DOMAIN fiber = Tasks /\ current \in Tasks /\ Live(current) /\ Me = fiber[current]
  BY MeIs DEF IInv, Types
<1>2. /\ DOMAIN job = Jobs /\ queue \in [Tasks -> Seq(Jobs)] /\ done \in [Tasks -> Seq(Jobs)]
      /\ \A j \in Jobs : job[j] = NoJob \/ JobType(job[j])
  BY DEF IInv, Types
<1>3. /\ p \in Tasks /\ Live(p) /\ p # current /\ fiber[p].kind # "filter"
      /\ fiber[p].filter = current
  BY <1>1, ServerIsTask DEF IInv
<1>4. PICK q \in Seq(Jobs) : q = queue[current] /\ q # <<>>
  BY <1>1, <1>2
<1>5. n \in Jobs /\ n = Head(q)
  BY <1>4, ListTail
<1>6. PICK z \in Seq(Jobs) : z = Tail(q)
  BY <1>4, ListTail
<1>7. PICK r \in Seq(Jobs) : r = queue[p]
  BY <1>2, <1>3
<1>8. PICK r1 \in Seq(Jobs) : r1 = Append(r, n)
  BY <1>5, ListAppend
<1>9. Distinct(q) /\ Sorted(job, q) /\ Distinct(r) /\ Sorted(job, r)
  <2>1. Distinct(Held(current, "queue")) /\ Distinct(Held(p, "queue"))
    BY <1>1, <1>3 DEF IInv, OnePlace, ListKinds
  <2> QED
    BY <1>1, <1>3, <1>4, <1>7, <2>1, HeldIs DEF IInv, InOrder
<1>10. /\ InList(n, q) /\ Distinct(z) /\ Sorted(job, z)
       /\ \A i : InList(i, z) <=> InList(i, q) /\ i # n
       /\ \A i : InList(i, z) => Older(job, n, i)
  BY <1>4, <1>5, <1>6, <1>9, ListTail
<1>11. In(n, current, "queue")
  BY <1>4, <1>10, HeldIs DEF In
<1>12. \A t \in Tasks, w \in ListKinds : In(n, t, w) => t = current /\ w = "queue"
  BY <1>1, <1>5, <1>11 DEF IInv, OnePlace, ListKinds
<1>13. ~InList(n, r)
  <2>1. ~In(n, p, "queue")
    BY <1>3, <1>12 DEF ListKinds
  <2> QED
    BY <1>7, <2>1, HeldIs DEF In
<1>14. \A i \in Jobs, j \in Jobs : InList(i, r) /\ InList(j, q) => Older(job, i, j)
  <2>1. \A i : (InList(i, r) => In(i, p, "queue")) /\ (InList(i, q) => In(i, current, "queue"))
    BY <1>4, <1>7, HeldIs DEF In
  <2> QED
    BY <1>1, <2>1 DEF IInv, InOrder
<1>15. /\ Distinct(r1) /\ Sorted(job, r1)
       /\ \A i : InList(i, r1) <=> InList(i, r) \/ i = n
  <2>1. \A i : InList(i, r) => Older(job, i, n)
    BY <1>5, <1>10, <1>14, ListedJob
  <2> QED
    BY <1>5, <1>8, <1>9, <1>13, <2>1, ListAppend
<1>16. /\ queue' \in [Tasks -> Seq(Jobs)] /\ queue'[current] = z /\ queue'[p] = r1
       /\ \A t \in Tasks : t # current /\ t # p => queue'[t] = queue[t]
  BY <1>1, <1>2, <1>3, <1>4, <1>6, <1>7, <1>8
<1>17. Calmly
  <2>1. PICK g : g = Woken(fiber[p]) /\ Calm(p, g)
    BY <1>3, WokenNudged
  <2>2. fiber' = [fiber EXCEPT ![p] = g]
    BY <2>1
  <2> QED
    BY <1>1, <1>3, <2>1, <2>2 DEF Calmly
<1>18. /\ Family /\ ActiveKept /\ TextsKept /\ Rest /\ FiltersStay
       /\ \A t \in Tasks : Live(t) => Live(t)'
  BY <1>17, CalmFamily, ClockIs, FamilyFilters
<1>19. ASSUME NEW t \in Tasks, NEW w \in ListKinds
       PROVE  /\ \A j \in Jobs : j # n => (In(j, t, w)' <=> In(j, t, w))
              /\ In(n, t, w)' <=> t = p /\ w = "queue"
              /\ Distinct(Held(t, w))'
  <2>1. CASE t = current /\ w = "queue"
    <3>1. Held(t, w)' = z /\ Held(t, w) = q
      BY <1>4, <1>16, <2>1, HeldIs
    <3>2. \A j : (In(j, t, w)' <=> InList(j, z)) /\ (In(j, t, w) <=> InList(j, q))
      BY <3>1 DEF In, InList
    <3>3. Distinct(Held(t, w))'
      BY <1>10, <3>1 DEF Distinct
    <3> QED
      BY <1>3, <1>10, <2>1, <3>2, <3>3
  <2>2. CASE t = p /\ w = "queue"
    <3>1. Held(t, w)' = r1 /\ Held(t, w) = r
      BY <1>7, <1>16, <2>2, HeldIs
    <3>2. \A j : (In(j, t, w)' <=> InList(j, r1)) /\ (In(j, t, w) <=> InList(j, r))
      BY <3>1 DEF In, InList
    <3>3. Distinct(Held(t, w))'
      BY <1>15, <3>1 DEF Distinct
    <3> QED
      BY <1>15, <2>2, <3>2, <3>3
  <2>3. CASE ~(t \in {current, p} /\ w = "queue")
    <3>1. Held(t, w)' = Held(t, w)
      BY <1>16, <1>18, <2>3, HeldIs DEF Held, ListKinds, ActiveKept
    <3>2. \A j : In(j, t, w)' <=> In(j, t, w)
      BY <3>1 DEF In, InList
    <3>3. Distinct(Held(t, w))'
      BY <3>1 DEF IInv, OnePlace, Distinct
    <3> QED
      BY <1>12, <2>3, <3>2, <3>3
  <2> QED
    BY <2>1, <2>2, <2>3
<1>20. OthersStay(n)
  BY <1>19 DEF OthersStay
<1>21. job[n] # NoJob /\ job[n].flags = {} /\ job[n].arg \in 0 .. calls - 1
  BY <1>1, <1>5, <1>11 DEF IInv, Pooled, ListKinds
<1>22. OnePlace' /\ Pooled'
  <2>1. PICK w \in ListKinds : w = "queue"
    BY DEF ListKinds
  <2>2. \A t \in Tasks, v \in ListKinds : In(n, t, v)' => t = p /\ v = w
    BY <1>19, <2>1
  <2>3. /\ Live(p)' /\ job'[n] # NoJob
        /\ w = "done" <=> "done" \in job'[n].flags
        /\ w = "active" => job'[n].kind # "msg"
        /\ p = Root /\ w # "done" => "exit" \notin job'[n].flags
    BY <1>3, <1>18, <1>21, <2>1
  <2>4. In(n, p, w)'
    BY <1>3, <1>19, <2>1
  <2>5. job'[n].flags = {} /\ job'[n].arg \in 0 .. calls' - 1
    <3>1. calls \in Nat /\ calls' \in Nat /\ calls <= calls'
      BY <1>18, Numbers DEF Rest, IInv, Types
    <3>2. job[n].arg \in 0 .. calls' - 1
      BY <1>21, <3>1
    <3> QED
      BY <1>21, <3>2
  <2> QED
    BY <1>3, <1>5, <1>18, <1>20, <2>2, <2>3, <2>4, <2>5, OneJobMoves DEF IInv
<1>23. Reserved'
  <2>1. Unreserved(n)
    BY <1>1, <1>5, <1>11, UnreservedIs DEF IInv, ListKinds
  <2> QED
    BY <1>5, <1>18, <1>20, <2>1, ReservedOthers DEF IInv
<1>24. InOrder'
  <2>1. \A t \in Tasks : Sorted(job', queue'[t])
    BY <1>10, <1>15, <1>16 DEF IInv, InOrder
  <2>2. ASSUME NEW t \in Tasks, NEW i \in Jobs, NEW j \in Jobs,
               Live(t)', fiber'[t].kind = "filter",
               In(i, fiber[t].parent, "queue")', In(j, t, "queue")'
        PROVE  Older(job', i, j)
    <3>1. /\ Live(t) /\ fiber[t].kind = "filter" /\ fiber'[t].parent = fiber[t].parent
      BY <1>18, <2>2 DEF FiltersStay
    <3>2. PICK pp \in Tasks : /\ pp = fiber[t].parent /\ pp # t /\ fiber[pp].kind # "filter"
                              /\ fiber[pp].filter = t
      BY <3>1, ServerIsTask DEF IInv
    <3>3. In(i, pp, "queue")'
      BY <2>2, <3>1, <3>2 DEF In, Held
    <3>4. CASE t = current
      <4>1. pp = p
        BY <1>1, <3>2, <3>4
      <4>2. InList(i, r1) /\ InList(j, z)
        <5>1. Held(pp, "queue")' = r1 /\ Held(t, "queue")' = z
          BY <1>16, <3>4, <4>1, HeldIs
        <5>2. (In(i, pp, "queue")' <=> InList(i, r1)) /\ (In(j, t, "queue")' <=> InList(j, z))
          BY <5>1 DEF In, InList
        <5> QED
          BY <2>2, <3>3, <5>2
      <4>3. InList(j, q) /\ (i = n \/ InList(i, r))
        BY <1>10, <1>15, <4>2
      <4>4. Older(job, i, j)
        BY <1>10, <1>14, <4>2, <4>3
      <4> QED
        BY <4>4 DEF Older
    <3>5. CASE t # current
      <4>1. t # p /\ pp # p /\ pp # current
        BY <1>1, <1>3, <3>1, <3>2, <3>5
      <4>2. i # n /\ j # n
        BY <1>19, <2>2, <3>3, <4>1 DEF ListKinds
      <4>3. In(i, pp, "queue") /\ In(j, t, "queue")
        BY <1>19, <2>2, <3>3, <4>2 DEF ListKinds
      <4>4. Older(job, i, j)
        BY <3>1, <3>2, <4>3 DEF IInv, InOrder
      <4> QED
        BY <4>4 DEF Older
    <3> QED
      BY <3>4, <3>5
  <2> QED
    BY <2>1, <2>2 DEF InOrder
<1>25. Harmless
  BY <1>18, HarmlessIs
<1>26. done' \in [Tasks -> Seq(Jobs)] /\ DOMAIN job' = Jobs
  BY <1>2
<1> QED
  BY <1>2, <1>16, <1>18, <1>22, <1>23, <1>24, <1>25, <1>26, FineIs

LEMMA FilterLoopsFine ==
    ASSUME IInv, FilterLoops
    PROVE  Fine
<1>1. /\ Running /\ Clock /\ Top.op = "filter"
  BY ClockIs DEF FilterLoops
<1>2. /\ current \in Tasks /\ Live(current) /\ queue \in [Tasks -> Seq(Jobs)]
      /\ Me = fiber[current] /\ Stacked(current, Me.stack, Me.active)
  BY <1>1, MeIs DEF IInv, Types
<1>3. current # Root /\ Me.kind = "filter"
  <2>1. PICK s \in Seq(Frames) : s = Me.stack /\ s # <<>>
    BY <1>1, MeIs
  <2>2. Head(s).op = "filter" /\ "filter" \in Bottom /\ "filter" # "entry"
    BY <1>1, <2>1 DEF Top, Bottom
  <2>3. Len(s) = 1 /\ Head(s) = s[1] /\ current # Root
    BY <1>2, <2>1, <2>2, StackTop, HeadAndTail
  <2> QED
    BY <1>2, <2>1, <2>2, <2>3 DEF Stacked
<1>4. PICK q \in Seq(Jobs) : q = queue[current]
  BY <1>2
<1>5. PICK n : n = Head(q)
  OBVIOUS
<1>6. PICK p : p = Me.parent
  OBVIOUS
<1>7. \/ /\ SetMe(Ended(Me)) /\ UNCHANGED <<jobVars, current, serial, fail>>
      \/ /\ q # <<>> /\ job[n].kind = "msg"
         /\ queue' = [queue EXCEPT ![current] = Tail(@), ![p] = Append(@, n)]
         /\ fiber' = [fiber EXCEPT ![p] = Woken(@)]
         /\ UNCHANGED <<done, job, current, serial, fail>>
      \/ /\ q # <<>> /\ job[n].kind = "text"
         /\ queue' = [queue EXCEPT ![current] = Tail(@)]
         /\ SetMe([Pushed(FrameOn("body", n, FALSE, 0)) EXCEPT
                            !.active = <<n>> \o @, !.idle = FALSE])
         /\ UNCHANGED <<done, job, current, serial, fail>>
      \/ /\ SetMe(Pushed(FrameOn("jobs", None, FALSE, 0)))
         /\ UNCHANGED <<jobVars, current, serial, fail>>
  BY <1>4, <1>5, <1>6, Zenon DEF FilterLoops
<1>8. CASE SetMe(Ended(Me)) /\ UNCHANGED <<jobVars, current, serial, fail>>
  <2>1. Quiet(Ended(Me))
    BY <1>1, <1>8 DEF Quiet, Apart
  <2> QED
    BY <1>1, <1>3, <2>1, MeIs, EndStep
<1>9. CASE /\ q # <<>> /\ job[n].kind = "msg"
           /\ queue' = [queue EXCEPT ![current] = Tail(@), ![p] = Append(@, n)]
           /\ fiber' = [fiber EXCEPT ![p] = Woken(@)]
           /\ UNCHANGED <<done, job, current, serial, fail>>
  <2>1. Apart /\ done' = done /\ job' = job
    BY <1>1, <1>9 DEF Apart
  <2> QED
    BY <1>1, <1>3, <1>4, <1>5, <1>6, <1>9, <2>1, PassStep
<1>10. CASE /\ q # <<>> /\ job[n].kind = "text"
            /\ queue' = [queue EXCEPT ![current] = Tail(@)]
            /\ SetMe([Pushed(FrameOn("body", n, FALSE, 0)) EXCEPT
                            !.active = <<n>> \o @, !.idle = FALSE])
            /\ UNCHANGED <<done, job, current, serial, fail>>
  <2>1. Distinct(q) /\ Sorted(job, q)
    <3>1. Distinct(Held(current, "queue"))
      BY <1>2 DEF IInv, OnePlace, ListKinds
    <3> QED
      BY <1>2, <1>4, <3>1, HeldIs DEF IInv, InOrder
  <2>2. PICK z \in Seq(Jobs) : z = Tail(q)
    BY <1>4, <1>10, ListTail
  <2>3. /\ n \in Jobs /\ InList(n, q) /\ Distinct(z) /\ Sorted(job, z)
        /\ \A i : InList(i, z) <=> InList(i, q) /\ i # n
    BY <1>5, <1>10, <2>1, <2>2, ListTail
  <2>4. In(n, current, "queue")
    BY <1>4, <2>3, HeldIs DEF In
  <2>5. queue' = [queue EXCEPT ![current] = z]
    BY <1>4, <1>10, <2>2
  <2>6. Apart /\ done' = done /\ job' = job /\ job[n].kind # "msg"
    BY <1>1, <1>10 DEF Apart
  <2> QED
    BY <1>1, <1>4, <1>10, <2>3, <2>4, <2>5, <2>6, BodyStep
<1>11. CASE /\ SetMe(Pushed(FrameOn("jobs", None, FALSE, 0)))
            /\ UNCHANGED <<jobVars, current, serial, fail>>
  <2>1. PICK fr \in Frames : /\ fr = FrameOn("jobs", None, FALSE, 0)
                             /\ fr.op \notin Bottom \cup {"body", "text"}
    <3>1. PICK op \in HostOps, x \in Tasks \cup Jobs \cup {None}, b \in BOOLEAN, k \in Nat :
              op = "jobs" /\ x = None /\ b = FALSE /\ k = 0
      BY DEF HostOps, FrameOps, Bottom
    <3>2. FrameOn(op, x, b, k) \in Frames /\ FrameOn(op, x, b, k).op \notin Bottom \cup {"body", "text"}
      BY HostFrame
    <3> QED
      BY <3>1, <3>2
  <2>2. PICK g : g = Pushed(fr)
    OBVIOUS
  <2>3. Like(g) /\ g.stack = <<fr>> \o Me.stack
    BY <1>1, <2>2, MeIs DEF Pushed, Like, Fields
  <2>4. Quiet(g)
    BY <1>1, <1>11, <2>1, <2>2 DEF Quiet, Apart
  <2> QED
    BY <1>1, <2>1, <2>3, <2>4, PushStep
<1> QED
  BY <1>7, <1>8, <1>9, <1>10, <1>11, Zenon

-----------------------------------------------------------------------------
(* Text jobs *)

\* TaskText reserves a job: the newest reserved job of its task, in no list.
LEMMA ReserveStep ==
    ASSUME IInv, Running, Apart, FreeJobs # {},
           NEW n \in Jobs, n = NewJob, NEW rec, JobType(rec), rec.kind = "text",
           rec.flags = {}, rec.by = current,
           NEW fr \in Frames, fr.op = "text", fr.num = n,
           NEW g, Like(g), NEW s \in Seq(Frames), g.stack = s,
           Stacked(current, s, Me.active),
           Having(s, "text") = <<fr>> \o Having(Me.stack, "text"),
           SetMe(g), job' = [job EXCEPT ![n] = rec], queue' = queue, done' = done
    PROVE  Fine
<1>1. DOMAIN fiber = Tasks /\ current \in Tasks /\ Live(current) /\ Me = fiber[current]
  BY MeIs DEF IInv, Types
<1>2. /\ DOMAIN job = Jobs /\ queue \in [Tasks -> Seq(Jobs)] /\ done \in [Tasks -> Seq(Jobs)]
      /\ \A j \in Jobs : job[j] = NoJob \/ JobType(job[j])
  BY DEF IInv, Types
<1>3. /\ job[n] = NoJob /\ \A t \in Tasks, w \in ListKinds : ~In(n, t, w)
      /\ Unreserved(n)
  BY NewJobIsFree
<1>4. Keeps(current, g)
  BY LikeKeeps
<1>5. /\ DOMAIN fiber' = Tasks /\ fiber'[current] = g
      /\ \A t \in Tasks : t # current => fiber'[t] = fiber[t]
  BY <1>1 DEF SetMe
<1>6. Family /\ Rest
  BY <1>1, <1>4, <1>5, ClockIs DEF Family
<1>7. FiltersStay /\ \A t \in Tasks : Live(t) => Live(t)'
  BY <1>6, FamilyFilters
<1>8. /\ DOMAIN job' = Jobs /\ job'[n] = rec
      /\ \A j \in Jobs : j # n => job'[j] = job[j]
  BY <1>2
<1>9. \A t \in Tasks, w \in ListKinds : Held(t, w)' = Held(t, w)
  <2>1. \A t \in Tasks : fiber'[t].active = fiber[t].active
    BY <1>1, <1>5 DEF Like
  <2> QED
    BY <2>1 DEF Held
<1>10. \A j, t, w : t \in Tasks /\ w \in ListKinds => (In(j, t, w)' <=> In(j, t, w))
  BY <1>9 DEF In, InList
<1>11. OthersStay(n)
  <2>1. \A t \in Tasks, w \in ListKinds : Distinct(Held(t, w))'
    BY <1>9 DEF IInv, OnePlace, Distinct
  <2> QED
    BY <1>8, <1>10, <2>1 DEF OthersStay
<1>12. OnePlace' /\ Pooled'
  <2>1. Root \in Tasks /\ "queue" \in ListKinds
    BY Numbers DEF ListKinds
  <2>2. job'[n].kind = "text" /\ job'[n].kind # "msg" /\ \A t \in Tasks, w \in ListKinds : ~In(n, t, w)'
    BY <1>3, <1>8, <1>10
  <2> QED
    BY <1>6, <1>7, <1>11, <2>1, <2>2, OneJobMoves DEF IInv
<1>13. Reserved'
  <2> SUFFICES ASSUME NEW t \in Tasks
               PROVE  /\ OneEach(Having(fiber'[t].stack, "text"))
                      /\ \A j \in Jobs : Names(Having(fiber'[t].stack, "text"), j) =>
                           /\ job'[j].kind = "text" /\ job'[j].by = t /\ job'[j].flags = {}
                           /\ \A u \in Tasks, w \in ListKinds : ~In(j, u, w)'
    BY DEF Reserved
  <2>1. ASSUME NEW j \in Jobs, Names(Having(fiber[t].stack, "text"), j)
        PROVE  /\ job'[j].kind = "text" /\ job'[j].by = t /\ job'[j].flags = {} /\ j # n
               /\ \A u \in Tasks, w \in ListKinds : ~In(j, u, w)'
    <3>1. j # n
      BY <1>3, <2>1 DEF Unreserved
    <3>2. /\ job[j].kind = "text" /\ job[j].by = t /\ job[j].flags = {}
          /\ \A u \in Tasks, w \in ListKinds : ~In(j, u, w)
      BY <2>1 DEF IInv, Reserved
    <3> QED
      BY <1>8, <1>10, <3>1, <3>2
  <2>2. CASE t # current
    <3>1. fiber'[t] = fiber[t] /\ OneEach(Having(fiber[t].stack, "text"))
      BY <1>5, <2>2 DEF IInv, Reserved
    <3> QED
      BY <2>1, <3>1
  <2>3. CASE t = current
    <3>1. PICK x \in Seq(Frames) : x = Having(fiber[t].stack, "text")
      BY <1>1, <2>3, MeIs, HavingCons
    <3>2. PICK y \in Seq(Frames) : y = <<fr>> \o x
      BY ConsAt
    <3>3. Having(fiber'[t].stack, "text") = y
      BY <1>1, <1>5, <2>3, <3>1, <3>2
    <3>4. /\ DOMAIN y = 1 .. Len(x) + 1 /\ y[1] = fr /\ Len(x) \in Nat /\ DOMAIN x = 1 .. Len(x)
          /\ \A k \in 2 .. Len(x) + 1 : y[k] = x[k - 1] /\ k - 1 \in DOMAIN x
      BY <3>2, ConsAt
    <3>5. OneEach(x) /\ \A k \in DOMAIN x : x[k].num # n
      BY <1>3, <3>1 DEF IInv, Reserved, Unreserved, Names
    <3>6. OneEach(y)
      <4>1. ASSUME NEW k \in DOMAIN y, NEW l \in DOMAIN y, y[k].num = y[l].num PROVE k = l
        <5>1. CASE k = 1 /\ l = 1
          BY <5>1
        <5>2. CASE k = 1 /\ l # 1
          <6>1. l \in 2 .. Len(x) + 1
            BY <3>4, <5>2
          <6> QED
            BY <3>4, <3>5, <4>1, <5>2, <6>1
        <5>3. CASE k # 1 /\ l = 1
          <6>1. k \in 2 .. Len(x) + 1
            BY <3>4, <5>3
          <6> QED
            BY <3>4, <3>5, <4>1, <5>3, <6>1
        <5>4. CASE k # 1 /\ l # 1
          <6>1. k \in 2 .. Len(x) + 1 /\ l \in 2 .. Len(x) + 1
            BY <3>4, <5>4
          <6>2. PICK a \in DOMAIN x, b \in DOMAIN x :
                    a = k - 1 /\ b = l - 1 /\ y[k] = x[a] /\ y[l] = x[b]
            BY <3>4, <6>1
          <6>3. a = b
            BY <3>5, <4>1, <6>2 DEF OneEach
          <6> QED
            BY <6>1, <6>2, <6>3
        <5> QED
          BY <5>1, <5>2, <5>3, <5>4
      <4> QED
        BY <4>1 DEF OneEach
    <3>7. ASSUME NEW j \in Jobs, Names(y, j)
          PROVE  /\ job'[j].kind = "text" /\ job'[j].by = t /\ job'[j].flags = {}
                 /\ \A u \in Tasks, w \in ListKinds : ~In(j, u, w)'
      <4>1. PICK k \in DOMAIN y : y[k].num = j
        BY <3>7 DEF Names
      <4>2. CASE k = 1
        <5>1. j = n
          BY <3>4, <4>1, <4>2
        <5> QED
          BY <1>3, <1>8, <1>10, <2>3, <5>1
      <4>3. CASE k # 1
        <5>1. k \in 2 .. Len(x) + 1
          BY <3>4, <4>3
        <5>2. Names(x, j)
          BY <3>4, <4>1, <5>1 DEF Names
        <5> QED
          BY <2>1, <3>1, <5>2
      <4> QED
        BY <4>2, <4>3
    <3> QED
      BY <3>3, <3>6, <3>7
  <2> QED
    BY <2>2, <2>3
<1>14. InOrder'
  <2>1. ASSUME NEW t \in Tasks PROVE Sorted(job', queue'[t])
    <3>1. PICK z \in Seq(Jobs) : z = queue[t]
      BY <1>2
    <3>2. Sorted(job, z) /\ ~InList(n, z)
      <4>1. ~In(n, t, "queue")
        BY <1>3 DEF ListKinds
      <4> QED
        BY <3>1, <4>1, HeldIs DEF IInv, InOrder, In
    <3>3. PICK pool : pool = job'
      OBVIOUS
    <3>4. \A i \in Jobs : InList(i, z) => pool[i] = job[i]
      BY <1>8, <3>2, <3>3
    <3>5. Sorted(pool, z)
      BY <3>2, <3>4, SortedSame
    <3> QED
      BY <3>1, <3>3, <3>5
  <2>2. \A t \in Tasks, j \in Jobs : In(j, t, "queue")' =>
           In(j, t, "queue") /\ job'[j] = job[j]
    BY <1>3, <1>8, <1>10 DEF ListKinds
  <2> QED
    BY <1>7, <2>1, <2>2, QueuesShrink DEF IInv
<1>15. Harmless
  <2>1. \A j \in Jobs : job[j] # NoJob => job'[j] # NoJob
    BY <1>3, <1>8
  <2> QED
    BY <1>6, <2>1, HarmlessIs
<1>16. \A j \in Jobs : job'[j] = NoJob \/ JobType(job'[j])
  BY <1>2, <1>8
<1>17. queue' \in [Tasks -> Seq(Jobs)] /\ done' \in [Tasks -> Seq(Jobs)]
  BY <1>2
<1> QED
  BY <1>6, <1>8, <1>12, <1>13, <1>14, <1>15, <1>16, <1>17, FineIs

LEMMA TaskTextFine ==
    ASSUME IInv, TaskText
    PROVE  Fine
<1>1. Running /\ Clock
  BY ClockIs DEF TaskText
<1>2. PICK t \in Tasks, high \in BOOLEAN :
         IF FreeJobs = {} THEN Fails("guest job queue full")
         ELSE LET me == Pushed(FrameOn("text", t, high, NewJob)) IN
              /\ job' = [job EXCEPT ![NewJob] = Job("text", "", None, {}, None)]
              /\ SetMe(IF high /\ fiber[t].filter # t
                       THEN Waiting(me, "idle", t, 0) ELSE me)
              /\ UNCHANGED <<queue, done, current, serial, fail>>
  BY Zenon DEF TaskText
<1>3. CASE FreeJobs = {}
  BY <1>1, <1>2, <1>3, PoolFull
<1>4. CASE FreeJobs # {}
  <2>1. PICK n \in Jobs : n = NewJob
    BY <1>4, NewJobIsFree
  <2>2. PICK fr \in Frames : fr = FrameOn("text", t, high, n) /\ fr.op = "text" /\ fr.num = n
    <3>1. PICK op \in FrameOps, x \in Tasks \cup Jobs \cup {None}, k \in Nat :
              op = "text" /\ x = t /\ k = n
      BY Numbers DEF FrameOps
    <3>2. op # "exit" /\ op # "body" /\ k \in Jobs
      BY <3>1
    <3>3. /\ FrameOn(op, x, high, k) \in Frames /\ FrameOn(op, x, high, k).op = op
          /\ FrameOn(op, x, high, k).num = k
      BY <3>2, FrameTyped
    <3> QED
      BY <3>1, <3>3
  <2>3. PICK wf \in Frames : /\ wf = FrameOn("wait", t, FALSE, 0)
                             /\ wf.op \notin Bottom \cup {"body", "text"}
    <3>1. PICK op \in HostOps, x \in Tasks \cup Jobs \cup {None}, b \in BOOLEAN, k \in Nat :
              op = "wait" /\ x = t /\ b = FALSE /\ k = 0
      BY DEF HostOps, FrameOps, Bottom
    <3>2. FrameOn(op, x, b, k) \in Frames /\ FrameOn(op, x, b, k).op \notin Bottom \cup {"body", "text"}
      BY HostFrame
    <3> QED
      BY <3>1, <3>2
  <2>4. PICK s0 \in Seq(Frames) : s0 = Me.stack /\ Stacked(current, s0, Me.active)
    BY <1>1, MeIs
  <2>5. PICK s1 \in Seq(Frames) : s1 = <<fr>> \o s0
    BY ConsAt
  <2>6. PICK s2 \in Seq(Frames) : s2 = <<wf>> \o s1
    BY ConsAt
  <2>7. fr.op \notin Bottom \cup {"body"}
    BY <2>2 DEF Bottom
  <2>8. Stacked(current, s1, Me.active) /\ Having(s1, "text") = <<fr>> \o Having(s0, "text")
    <3>1. Stacked(current, s1, Me.active)
      BY <2>4, <2>5, <2>7, StackPush
    <3>2. Having(<<fr>> \o s0, "text") = <<fr>> \o Having(s0, "text")
      BY <2>2, HavingCons
    <3> QED
      BY <2>5, <3>1, <3>2
  <2>9. Stacked(current, s2, Me.active) /\ Having(s2, "text") = <<fr>> \o Having(s0, "text")
    <3>1. wf.op # "text"
      BY <2>3
    <3>2. Having(s2, "text") = Having(s1, "text")
      BY <2>6, <3>1, HavingCons
    <3>3. Stacked(current, s2, Me.active)
      BY <2>3, <2>6, <2>8, StackPush
    <3> QED
      BY <2>8, <3>2, <3>3
  <2>10. PICK me : me = Pushed(fr)
    OBVIOUS
  <2>11. Like(me) /\ me.stack = s1
    BY <1>1, <2>4, <2>5, <2>10, MeIs DEF Pushed, Like, Fields
  <2>12. PICK me2 : me2 = Waiting(me, "idle", t, 0)
    OBVIOUS
  <2>13. Like(me2) /\ me2.stack = s2
    <3>1. wf = FrameOn("wait", t, "idle" = "death", 0)
      BY <2>3
    <3>2. me2 = [me EXCEPT !.wait = "idle", !.target = t, !.wnum = 0, !.stack = <<wf>> \o @]
      BY <2>12, <3>1 DEF Waiting
    <3> QED
      BY <2>6, <2>11, <3>2 DEF Like, Fields
  <2>14. PICK g : g = (IF high /\ fiber[t].filter # t THEN me2 ELSE me)
    OBVIOUS
  <2>15. PICK rec : rec = Job("text", "", None, {}, None)
    OBVIOUS
  <2>16. JobType(rec) /\ rec.kind = "text" /\ rec.flags = {} /\ rec.by = current
    <3>1. PICK kind \in {"exe", "call", "spawn", "msg", "text"} : kind = "text"
      OBVIOUS
    <3>2. PICK m \in Tasks \cup {None} : m = None
      OBVIOUS
    <3>3. PICK arg \in Int : arg = None
      BY Numbers
    <3>4. PICK code, flags : code = "" /\ flags = {}
      OBVIOUS
    <3>5. rec = Job(kind, code, m, flags, arg)
      BY <2>15, <3>1, <3>2, <3>3, <3>4, Zenon
    <3>6. JobType(rec) /\ rec.kind = kind /\ rec.flags = flags /\ rec.by = current
      BY <3>5, JobRecord
    <3> QED
      BY <3>1, <3>4, <3>6
  <2>17. SetMe(g) /\ job' = [job EXCEPT ![n] = rec] /\ queue' = queue /\ done' = done
    <3>1. /\ job' = [job EXCEPT ![n] = rec]
          /\ SetMe(IF high /\ fiber[t].filter # t
                       THEN Waiting(me, "idle", t, 0) ELSE me)
          /\ UNCHANGED <<queue, done, current, serial, fail>>
      BY <1>2, <1>4, <2>1, <2>2, <2>10, <2>15
    <3> QED
      BY <2>12, <2>14, <3>1
  <2>18. Apart
    BY <1>1, <1>2, <1>4 DEF Apart
  <2>19. PICK s \in Seq(Frames) : /\ g.stack = s /\ Stacked(current, s, Me.active)
                                  /\ Having(s, "text") = <<fr>> \o Having(Me.stack, "text")
    BY <2>4, <2>8, <2>9, <2>11, <2>13, <2>14
  <2>20. Like(g)
    BY <2>11, <2>13, <2>14
  <2> QED
    BY <1>1, <1>4, <2>1, <2>2, <2>16, <2>17, <2>18, <2>19, <2>20, ReserveStep
<1> QED
  BY <1>3, <1>4

LEMMA FineParts ==
    ASSUME IInv, Rest, DOMAIN fiber' = Tasks, \A t \in Tasks : FiberType(fiber'[t]),
           Stacks', Tree', Filters',
           queue' \in [Tasks -> Seq(Jobs)], done' \in [Tasks -> Seq(Jobs)],
           DOMAIN job' = Jobs, \A j \in Jobs : job'[j] = NoJob \/ JobType(job'[j]),
           OnePlace', Pooled', Reserved', InOrder', Harmless
    PROVE  Fine
<1>1. Types'
  <2>1. calls' \in 0 .. guest'.calls /\ guest' \in Guests
    BY Numbers DEF IInv, Types, Rest
  <2> QED
    BY <2>1 DEF Types, Rest, FiberType, JobType, NoJob
<1>2. fail' \notin TreeFailures
  BY DEF Rest
<1>3. (fail \notin TreeFailures)'
  BY <1>2 DEF TreeFailures
<1> QED
  BY <1>1, <1>3 DEF Fine, IInv

\* The rest of host_task_text gives its reserved job up or away.
Unreserves ==
    /\ \A u \in Tasks \ {current} :
         Having(fiber'[u].stack, "text") \in {Having(fiber[u].stack, "text"), <<>>}
    /\ Having(fiber'[current].stack, "text") = Having(Tail(Me.stack), "text")

LEMMA TextTop ==
    ASSUME IInv, Running, Top.op = "text", NEW n, n = Top.num
    PROVE  /\ n \in Jobs /\ job[n].kind = "text" /\ job[n].flags = {} /\ job[n].by = current
           /\ \A u \in Tasks, w \in ListKinds : ~In(n, u, w)
           /\ Stacked(current, Tail(Me.stack), Me.active)
           /\ \A u \in Tasks \ {current} : ~Names(Having(fiber[u].stack, "text"), n)
           /\ OneEach(Having(Tail(Me.stack), "text"))
           /\ \A j : Names(Having(Tail(Me.stack), "text"), j) =>
                Names(Having(Me.stack, "text"), j) /\ j # n
<1>1. /\ current \in Tasks /\ Me = fiber[current] /\ Top \in Frames
      /\ Stacked(current, Me.stack, Me.active)
  BY MeIs
<1>2. n \in Jobs
  BY <1>1 DEF Frames
<1>3. PICK s \in Seq(Frames) : s = Me.stack /\ s # <<>>
  BY MeIs
<1>4. PICK h \in Frames : h = Top /\ h = Head(s) /\ h.op = "text" /\ h.num = n
  BY <1>1, <1>3 DEF Top
<1>5. PICK z \in Seq(Frames) : z = Tail(s) /\ s = <<h>> \o z
  <2>1. Tail(s) \in Seq(Frames) /\ s = <<Head(s)>> \o Tail(s)
    BY <1>3, HeadAndTail
  <2> QED
    BY <1>4, <2>1
<1>6. PICK x \in Seq(Frames) : x = Having(z, "text")
  BY HavingCons
<1>7. PICK y \in Seq(Frames) : y = <<h>> \o x
  BY ConsAt
<1>8. Having(s, "text") = y
  <2>1. Having(<<h>> \o z, "text") = <<h>> \o Having(z, "text")
    BY <1>4, HavingCons
  <2> QED
    BY <1>5, <1>6, <1>7, <2>1
<1>9. /\ DOMAIN y = 1 .. Len(x) + 1 /\ y[1] = h /\ Len(x) \in Nat /\ DOMAIN x = 1 .. Len(x)
      /\ \A k \in 1 .. Len(x) : y[k + 1] = x[k]
  BY <1>7, ConsAt
<1>10. OneEach(y)
  BY <1>1, <1>3, <1>8 DEF IInv, Reserved
<1>11. Names(y, n)
  <2>1. 1 \in DOMAIN y
    BY <1>9
  <2> QED
    BY <1>4, <1>9, <2>1 DEF Names
<1>12. /\ job[n].kind = "text" /\ job[n].flags = {} /\ job[n].by = current
       /\ \A u \in Tasks, w \in ListKinds : ~In(n, u, w)
  BY <1>1, <1>2, <1>3, <1>8, <1>11 DEF IInv, Reserved
<1>13. Stacked(current, z, Me.active)
  <2>1. Head(s).op \notin Bottom \cup {"body"}
    BY <1>4 DEF Bottom
  <2> QED
    BY <1>1, <1>3, <1>5, <2>1, StackPop
<1>14. \A u \in Tasks \ {current} : ~Names(Having(fiber[u].stack, "text"), n)
  <2>1. ASSUME NEW u \in Tasks, Names(Having(fiber[u].stack, "text"), n) PROVE u = current
    BY <1>2, <1>12, <2>1 DEF IInv, Reserved
  <2> QED
    BY <2>1
<1>15. OneEach(x)
  <2>1. ASSUME NEW k \in DOMAIN x, NEW l \in DOMAIN x, x[k].num = x[l].num PROVE k = l
    <3>1. PICK a \in DOMAIN y, b \in DOMAIN y :
              a = k + 1 /\ b = l + 1 /\ y[a] = x[k] /\ y[b] = x[l]
      BY <1>9
    <3>2. a = b
      BY <1>10, <2>1, <3>1 DEF OneEach
    <3> QED
      BY <1>9, <3>1, <3>2
  <2> QED
    BY <2>1 DEF OneEach
<1>16. ASSUME NEW j, Names(x, j) PROVE Names(y, j) /\ j # n
  <2>1. PICK k \in DOMAIN x : x[k].num = j
    BY <1>16 DEF Names
  <2>2. PICK a \in DOMAIN y : a = k + 1 /\ y[a] = x[k] /\ a # 1
    BY <1>9
  <2>3. 1 \in DOMAIN y /\ y[1].num = n
    BY <1>4, <1>9
  <2>4. j # n
    BY <1>10, <2>1, <2>2, <2>3 DEF OneEach
  <2> QED
    BY <2>1, <2>2, <2>4 DEF Names
<1> QED
  BY <1>2, <1>3, <1>5, <1>6, <1>8, <1>12, <1>13, <1>14, <1>15, <1>16

LEMMA TextReturns ==
    ASSUME IInv, Running, Top.op = "text", NEW n, n = Top.num, Unreserves,
           \A j \in Jobs : j # n => job'[j] = job[j],
           \A j \in Jobs, u \in Tasks, w \in ListKinds : j # n /\ In(j, u, w)' => In(j, u, w)
    PROVE  Reserved'
<1>1. current \in Tasks /\ Me = fiber[current]
  BY MeIs
<1> SUFFICES ASSUME NEW t \in Tasks
             PROVE  /\ OneEach(Having(fiber'[t].stack, "text"))
                    /\ \A j \in Jobs : Names(Having(fiber'[t].stack, "text"), j) =>
                         /\ job'[j].kind = "text" /\ job'[j].by = t /\ job'[j].flags = {}
                         /\ \A u \in Tasks, w \in ListKinds : ~In(j, u, w)'
  BY DEF Reserved
<1>2. ASSUME NEW j \in Jobs, Names(Having(fiber[t].stack, "text"), j), j # n
      PROVE  /\ job'[j].kind = "text" /\ job'[j].by = t /\ job'[j].flags = {}
             /\ \A u \in Tasks, w \in ListKinds : ~In(j, u, w)'
  <2>1. /\ job[j].kind = "text" /\ job[j].by = t /\ job[j].flags = {}
        /\ \A u \in Tasks, w \in ListKinds : ~In(j, u, w)
    BY <1>2 DEF IInv, Reserved
  <2> QED
    BY <1>2, <2>1
<1>3. CASE t = current
  <2>1. PICK x : x = Having(Tail(Me.stack), "text") /\ x = Having(fiber'[t].stack, "text")
    BY <1>3 DEF Unreserves
  <2>2. OneEach(x) /\ \A j : Names(x, j) => Names(Having(fiber[t].stack, "text"), j) /\ j # n
    BY <1>1, <1>3, <2>1, TextTop
  <2> QED
    BY <1>2, <2>1, <2>2
<1>4. CASE t # current
  <2>1. Having(fiber'[t].stack, "text") \in {Having(fiber[t].stack, "text"), <<>>}
    BY <1>4 DEF Unreserves
  <2>2. CASE Having(fiber'[t].stack, "text") = <<>>
    <3>1. DOMAIN <<>> = {}
      OBVIOUS
    <3> QED
      BY <2>2, <3>1 DEF OneEach, Names
  <2>3. CASE Having(fiber'[t].stack, "text") = Having(fiber[t].stack, "text")
    <3>1. OneEach(Having(fiber[t].stack, "text")) /\ ~Names(Having(fiber[t].stack, "text"), n)
      BY <1>4, TextTop DEF IInv, Reserved
    <3> QED
      BY <1>2, <2>3, <3>1
  <2> QED
    BY <2>1, <2>2, <2>3
<1> QED
  BY <1>3, <1>4

LEMMA TextDropped ==
    ASSUME IInv, Running, Apart, Top.op = "text", NEW n, n = Top.num,
           job' = [job EXCEPT ![n] = NoJob], SetMe(Popped), queue' = queue, done' = done
    PROVE  Fine
<1>1. DOMAIN fiber = Tasks /\ current \in Tasks /\ Live(current) /\ Me = fiber[current]
  BY MeIs DEF IInv, Types
<1>2. /\ DOMAIN job = Jobs /\ queue \in [Tasks -> Seq(Jobs)] /\ done \in [Tasks -> Seq(Jobs)]
      /\ \A j \in Jobs : job[j] = NoJob \/ JobType(job[j])
  BY DEF IInv, Types
<1>3. /\ n \in Jobs /\ \A t \in Tasks, w \in ListKinds : ~In(n, t, w)
      /\ Stacked(current, Tail(Me.stack), Me.active)
  BY TextTop
<1>4. PICK g : g = Popped /\ Like(g) /\ g.stack = Tail(Me.stack)
  BY PoppedIs
<1>5. Keeps(current, g)
  BY <1>3, <1>4, LikeKeeps
<1>6. /\ DOMAIN fiber' = Tasks /\ fiber'[current] = g
      /\ \A t \in Tasks : t # current => fiber'[t] = fiber[t]
  BY <1>1, <1>4 DEF SetMe
<1>7. Family /\ Rest
  BY <1>1, <1>5, <1>6, ClockIs DEF Family
<1>8. /\ DOMAIN job' = Jobs /\ job'[n] = NoJob
      /\ \A j \in Jobs : j # n => job'[j] = job[j]
  BY <1>2, <1>3
<1>9. \A t \in Tasks, w \in ListKinds : Held(t, w)' = Held(t, w)
  <2>1. \A t \in Tasks : fiber'[t].active = fiber[t].active
    BY <1>1, <1>4, <1>6 DEF Like
  <2> QED
    BY <2>1 DEF Held
<1>10. \A j, t, w : t \in Tasks /\ w \in ListKinds => (In(j, t, w)' <=> In(j, t, w))
  BY <1>9 DEF In, InList
<1>11. OthersStay(n)
  <2>1. \A t \in Tasks, w \in ListKinds : Distinct(Held(t, w))'
    BY <1>9 DEF IInv, OnePlace, Distinct
  <2> QED
    BY <1>8, <1>10, <2>1 DEF OthersStay
<1>12. Unreserves
  BY <1>4, <1>6 DEF Unreserves
<1>13. Reserved'
  BY <1>8, <1>10, <1>12, TextReturns
<1>14. Harmless
  <2>1. \A t \in Tasks : ~In(n, t, "active") /\ ~In(n, t, "queue")
    BY <1>3 DEF ListKinds
  <2>2. \A j \in Jobs : job[j] # NoJob /\ job'[j] = NoJob => j = n
    BY <1>8
  <2> QED
    BY <1>7, <2>1, <2>2, HarmlessIs
<1>15. \A t \in Tasks, w \in ListKinds : ~In(n, t, w)'
  BY <1>3, <1>10
<1>16. \A t \in Tasks : Sorted(job, queue'[t])
  BY DEF IInv, InOrder
<1>17. queue' \in [Tasks -> Seq(Jobs)] /\ done' \in [Tasks -> Seq(Jobs)]
  BY <1>2
<1> QED
  BY <1>3, <1>7, <1>8, <1>11, <1>13, <1>14, <1>15, <1>16, <1>17, RemoveStep

\* A new input filter between a server t and what is sent to it.
FilterMade(t, i) ==
    /\ DOMAIN fiber' = Tasks
    /\ \E k \in Nat : fiber'[i] = [NewFiber(i, t, "filter", k) EXCEPT !.filter = t]
    /\ \A u \in Tasks \ {i} :
         \/ fiber'[u] = fiber[u] /\ u # t
         \/ /\ Live(u) /\ FiberType(fiber'[u]) /\ fiber'[u].state = "run"
            /\ fiber'[u].kind = fiber[u].kind /\ fiber'[u].parent = fiber[u].parent
            /\ fiber'[u].filter = IF u = t THEN i ELSE fiber[u].filter
            /\ u = Root => fiber'[u].kill = FALSE
            /\ Stacked(u, fiber'[u].stack, fiber'[u].active)

LEMMA FilterBorn ==
    ASSUME IInv, NEW t \in Tasks, Live(t), fiber[t].kind # "filter", fiber[t].filter = t,
           NEW i \in 1 .. AppTasks - 1, ~Live(i), FilterMade(t, i)
    PROVE  /\ \A u \in Tasks : FiberType(fiber'[u])
           /\ Stacks' /\ Tree' /\ Filters'
           /\ \A u \in Tasks : Live(u) => Live(u)'
           /\ \A u \in Tasks : Live(u)' /\ fiber'[u].kind = "filter" =>
                \/ u = i /\ ~Live(u)
                \/ /\ Live(u) /\ fiber[u].kind = "filter"
                   /\ fiber'[u].parent = fiber[u].parent
           /\ fiber'[i].active = <<>> /\ Having(fiber'[i].stack, "text") = <<>>
<1>1. i \in Tasks /\ i # Root /\ i # t
  BY Numbers DEF Live
<1>0. PICK k \in Nat : fiber'[i] = [NewFiber(i, t, "filter", k) EXCEPT !.filter = t]
  BY DEF FilterMade
<1>2. PICK g : g = fiber'[i] /\ g = [NewFiber(i, t, "filter", k) EXCEPT !.filter = t]
  BY <1>0
<1>3. PICK fr \in Frames : fr = Frame("start") /\ fr.op = "start"
  <2>1. "start" \in FrameOps /\ None \in Tasks \cup Jobs \cup {None}
    BY DEF FrameOps
  <2>2. Frame("start") \in Frames /\ Frame("start").op = "start"
    BY <2>1, FrameTyped
  <2> QED
    BY <2>2
<1>4. /\ g.state = "run" /\ g.kind = "filter" /\ g.filter = t /\ g.parent = t
      /\ g.active = <<>> /\ g.stack = <<fr>> /\ g.num = k /\ g.target = None
      /\ g.cb = FALSE /\ g.idle = FALSE /\ DOMAIN g = Fields
  <2>1. PICK b : b = NewFiber(i, t, "filter", k)
    OBVIOUS
  <2>2. /\ b.state = "run" /\ b.kind = "filter" /\ b.parent = t
        /\ b.active = <<>> /\ b.stack = <<fr>> /\ b.num = k /\ b.target = None
        /\ b.cb = FALSE /\ b.idle = FALSE /\ DOMAIN b = Fields
    BY <1>3, <2>1 DEF NewFiber, Unused, Fields
  <2>3. g = [b EXCEPT !.filter = t]
    BY <1>2, <2>1
  <2> QED
    BY <2>2, <2>3 DEF Fields
<1>5. fr.op \in Bottom /\ fr.op # "filter" /\ <<fr>>[Len(<<fr>>)] = fr
  BY <1>3 DEF Bottom
<1>6. Stacked(i, <<fr>>, <<>>) /\ Having(<<fr>>, "text") = <<>>
  BY <1>1, <1>5, StackFresh
<1>7. <<fr>> \in Seq(Frames) /\ <<>> \in Seq(Jobs)
  OBVIOUS
<1>8. FiberType(g)
  BY <1>1, <1>4, <1>7 DEF FiberType
<1>9. /\ Live(i)' /\ FiberType(fiber'[i]) /\ fiber'[i].kind = "filter"
      /\ fiber'[i].filter = t /\ fiber'[i].parent = t
      /\ fiber'[i].active = <<>> /\ Having(fiber'[i].stack, "text") = <<>>
      /\ Stacked(i, fiber'[i].stack, fiber'[i].active)
      /\ fiber'[i].stack[Len(fiber'[i].stack)].op # "filter"
  <2>1. Live(i)'
    BY <1>1, <1>2, <1>4 DEF Live
  <2>2. Stacked(i, g.stack, g.active) /\ Having(g.stack, "text") = <<>>
    BY <1>4, <1>6
  <2>3. g.stack[Len(g.stack)].op # "filter"
    BY <1>4, <1>5
  <2> QED
    BY <1>2, <1>4, <1>8, <2>1, <2>2, <2>3
<1>10. ASSUME NEW u \in Tasks, Live(u)
       PROVE  /\ u # i /\ Live(u)' /\ FiberType(fiber'[u])
              /\ fiber'[u].kind = fiber[u].kind /\ fiber'[u].parent = fiber[u].parent
              /\ fiber'[u].filter = IF u = t THEN i ELSE fiber[u].filter
              /\ Stacked(u, fiber'[u].stack, fiber'[u].active)
              /\ u = Root => fiber'[u].kill = FALSE
  <2>1. u # i
    BY <1>10
  <2>2. CASE fiber'[u] = fiber[u] /\ u # t
    BY <1>10, <2>1, <2>2 DEF IInv, Types, Stacks, Live
  <2>3. CASE ~(fiber'[u] = fiber[u] /\ u # t)
    BY <1>10, <2>1, <2>3 DEF FilterMade, Live
  <2> QED
    BY <2>2, <2>3
<1>11. ASSUME NEW u \in Tasks, ~Live(u), u # i
       PROVE  fiber'[u] = fiber[u] /\ ~Live(u)'
  BY <1>11 DEF FilterMade, Live
<1>12. \A u \in Tasks : FiberType(fiber'[u])
  BY <1>9, <1>10, <1>11 DEF IInv, Types
<1>13. Stacks'
  <2>1. ASSUME NEW u \in Tasks
        PROVE  IF Live(u)'
               THEN /\ Stacked(u, fiber'[u].stack, fiber'[u].active)
                    /\ \/ fiber'[u].kind = fiber[u].kind
                       \/ fiber'[u].stack[Len(fiber'[u].stack)].op # "filter"
               ELSE fiber'[u].stack = <<>> /\ fiber'[u].active = <<>>
    BY <1>9, <1>10, <1>11 DEF IInv, Stacks
  <2>2. fiber'[Root].kill = FALSE
    BY <1>10, Numbers DEF IInv, Tree
  <2>3. \A u : /\ Stacked(u, fiber'[u].stack, fiber'[u].active)
               /\ \/ fiber'[u].kind = fiber[u].kind
                  \/ fiber'[u].stack[Len(fiber'[u].stack)].op # "filter"
               => Stacked(u, fiber[u].stack, fiber[u].active)'
    BY DEF Stacked, Having, Frames
  <2> QED
    BY <2>1, <2>2, <2>3 DEF Stacks
<1>14. Tree'
  <2>1. Live(Root)'
    BY <1>10, Numbers DEF IInv, Tree
  <2>2. ASSUME NEW u \in Tasks \ {Root}, Live(u)'
        PROVE  Live(fiber[u].parent)' /\ fiber'[u].parent # u
    <3>1. CASE u = i
      <4>1. Live(t)' /\ fiber'[u].parent = t
        BY <1>9, <1>10, <3>1
      <4> QED
        BY <1>1, <3>1, <4>1 DEF Live
    <3>2. CASE u # i
      <4>1. Live(u)
        BY <1>11, <2>2, <3>2
      <4>2. /\ fiber'[u].parent = fiber[u].parent
            /\ Live(fiber[u].parent) /\ fiber[u].parent # u
        BY <1>10, <4>1 DEF IInv, Tree
      <4>3. PICK p \in Tasks : p = fiber[u].parent
        BY <4>2 DEF Live
      <4>4. Live(p)'
        BY <1>10, <4>2, <4>3
      <4> QED
        BY <4>2, <4>3, <4>4 DEF Live
    <3> QED
      BY <3>1, <3>2
  <2> QED
    BY <2>1, <2>2 DEF Tree
<1>15. Filters'
  <2> SUFFICES ASSUME NEW u \in Tasks, Live(u)'
               PROVE  IF fiber'[u].kind = "filter"
                      THEN /\ u \in 1 .. AppTasks - 1
                           /\ fiber'[u].filter = fiber'[u].parent
                           /\ fiber'[fiber'[u].parent].filter = u
                           /\ fiber'[fiber'[u].parent].kind # "filter"
                      ELSE fiber'[u].filter # u =>
                           /\ Live(fiber[u].filter)'
                           /\ fiber'[fiber'[u].filter].kind = "filter"
                           /\ fiber'[fiber'[u].filter].parent = u
    BY DEF Filters
  <2>1. CASE u = i
    BY <1>9, <1>10, <2>1
  <2>2. CASE u # i
    <3>1. Live(u)
      BY <1>11, <2>2
    <3>2. CASE fiber[u].kind = "filter"
      <4>1. PICK p \in Tasks : /\ p = fiber[u].parent /\ Live(p) /\ fiber[p].filter = u
                               /\ fiber[p].kind # "filter"
        BY <3>1, <3>2, ServerIsTask DEF IInv
      <4>2. p # t
        BY <3>1, <3>2, <4>1
      <4>3. fiber'[p].filter = u /\ fiber'[p].kind # "filter" /\ fiber'[u].parent = p
        BY <1>10, <3>1, <4>1, <4>2
      <4>4. u \in 1 .. AppTasks - 1 /\ fiber'[u].filter = fiber'[u].parent
        BY <1>10, <3>1, <3>2 DEF IInv, Filters
      <4> QED
        BY <1>10, <3>1, <3>2, <4>3, <4>4
    <3>3. CASE fiber[u].kind # "filter" /\ u = t
      <4>1. fiber'[u].kind # "filter" /\ fiber'[u].filter = i
        BY <1>10, <3>1, <3>3
      <4>2. Live(fiber[u].filter)'
        BY <1>9, <4>1 DEF Live
      <4> QED
        BY <1>9, <3>3, <4>1, <4>2
    <3>4. CASE fiber[u].kind # "filter" /\ u # t /\ fiber[u].filter = u
      BY <1>10, <3>1, <3>4
    <3>5. CASE fiber[u].kind # "filter" /\ u # t /\ fiber[u].filter # u
      <4>1. PICK v \in Tasks : /\ v = fiber[u].filter /\ Live(v)
                               /\ fiber[v].kind = "filter" /\ fiber[v].parent = u
        BY <3>1, <3>5 DEF IInv, Filters, Live
      <4>2. Live(v)' /\ fiber'[v].kind = "filter" /\ fiber'[v].parent = u
        BY <1>10, <4>1
      <4>3. fiber'[u].kind # "filter" /\ fiber'[u].filter = v
        BY <1>10, <3>1, <3>5, <4>1
      <4> QED
        BY <4>2, <4>3 DEF Live
    <3> QED
      BY <3>2, <3>3, <3>4, <3>5
  <2> QED
    BY <2>1, <2>2
<1>16. ASSUME NEW u \in Tasks, Live(u)', fiber'[u].kind = "filter"
       PROVE  \/ u = i /\ ~Live(u)
              \/ /\ Live(u) /\ fiber[u].kind = "filter"
                 /\ fiber'[u].parent = fiber[u].parent
  BY <1>10, <1>11, <1>16
<1> QED
  BY <1>9, <1>10, <1>12, <1>13, <1>14, <1>15, <1>16

\* The text goes to the queue of the filter i.
LEMMA TextGiven ==
    ASSUME IInv, Running, Rest, Top.op = "text", NEW n, n = Top.num, Unreserves,
           NEW i \in Tasks \ {Root}, Live(i)', DOMAIN fiber' = Tasks,
           \A t \in Tasks : FiberType(fiber'[t]), Stacks', Tree', Filters',
           \A t \in Tasks : Live(t) => Live(t)', ActiveKept,
           \A t \in Tasks : Live(t)' /\ fiber'[t].kind = "filter" =>
                \/ t = i /\ ~Live(t)
                \/ /\ Live(t) /\ fiber[t].kind = "filter"
                   /\ fiber'[t].parent = fiber[t].parent,
           queue' = [queue EXCEPT ![i] = Append(@, n)], done' = done, job' = job
    PROVE  Fine
<1>2. /\ DOMAIN job = Jobs /\ queue \in [Tasks -> Seq(Jobs)] /\ done \in [Tasks -> Seq(Jobs)]
      /\ \A j \in Jobs : job[j] = NoJob \/ JobType(job[j])
  BY DEF IInv, Types
<1>3. /\ n \in Jobs /\ job[n].kind = "text" /\ job[n].flags = {}
      /\ \A t \in Tasks, w \in ListKinds : ~In(n, t, w)
  BY TextTop
<1>4. PICK q \in Seq(Jobs) : q = queue[i]
  BY <1>2
<1>5. PICK q1 \in Seq(Jobs) : q1 = Append(q, n)
  BY <1>3, ListAppend
<1>6. /\ queue' \in [Tasks -> Seq(Jobs)] /\ queue'[i] = q1
      /\ \A t \in Tasks : t # i => queue'[t] = queue[t]
  BY <1>2, <1>4, <1>5
<1>7. Distinct(q) /\ Sorted(job, q) /\ ~InList(n, q)
  <2>1. Distinct(Held(i, "queue")) /\ ~In(n, i, "queue")
    BY <1>3 DEF IInv, OnePlace, ListKinds
  <2> QED
    BY <1>4, <2>1, HeldIs DEF IInv, InOrder, In
<1>8. /\ Distinct(q1) /\ Sorted(job, q1) /\ \A j : InList(j, q1) <=> InList(j, q) \/ j = n
  <2>1. \A j : InList(j, q) => Older(job, j, n)
    BY <1>3 DEF Older
  <2> QED
    BY <1>3, <1>5, <1>7, <2>1, ListAppend
<1>9. ASSUME NEW t \in Tasks, NEW w \in ListKinds
      PROVE  /\ \A j \in Jobs : j # n => (In(j, t, w)' <=> In(j, t, w))
             /\ In(n, t, w)' <=> t = i /\ w = "queue"
             /\ Distinct(Held(t, w))'
  <2>1. CASE t = i /\ w = "queue"
    <3>1. Held(t, w)' = q1 /\ Held(t, w) = q
      BY <1>4, <1>6, <2>1, HeldIs
    <3>2. \A j : (In(j, t, w)' <=> InList(j, q1)) /\ (In(j, t, w) <=> InList(j, q))
      BY <3>1 DEF In, InList
    <3>3. Distinct(Held(t, w))'
      BY <1>8, <3>1 DEF Distinct
    <3> QED
      BY <1>8, <2>1, <3>2, <3>3
  <2>2. CASE ~(t = i /\ w = "queue")
    <3>1. Held(t, w)' = Held(t, w)
      BY <1>6, <2>2, HeldIs DEF Held, ListKinds, ActiveKept
    <3>2. \A j : In(j, t, w)' <=> In(j, t, w)
      BY <3>1 DEF In, InList
    <3>3. Distinct(Held(t, w))'
      BY <3>1 DEF IInv, OnePlace, Distinct
    <3> QED
      BY <1>3, <2>2, <3>2, <3>3
  <2> QED
    BY <2>1, <2>2
<1>10. OthersStay(n)
  BY <1>9 DEF OthersStay
<1>11. OnePlace' /\ Pooled'
  <2>1. PICK w \in ListKinds : w = "queue"
    BY DEF ListKinds
  <2>2. \A t \in Tasks, v \in ListKinds : In(n, t, v)' => t = i /\ v = w
    BY <1>9, <2>1
  <2>3. /\ Live(i)' /\ job'[n] # NoJob
        /\ w = "done" <=> "done" \in job'[n].flags
        /\ w = "active" => job'[n].kind # "msg"
        /\ i = Root /\ w # "done" => "exit" \notin job'[n].flags
    <3>1. job[n] # NoJob
      BY <1>3 DEF NoJob
    <3> QED
      BY <1>3, <2>1, <3>1
  <2>4. job'[n].kind # "msg" /\ job'[n].kind = "text"
    BY <1>3
  <2> QED
    BY <1>3, <1>10, <2>2, <2>3, <2>4, OneJobMoves DEF IInv
<1>12. Reserved'
  <2>1. \A j \in Jobs, u \in Tasks, w \in ListKinds : j # n /\ In(j, u, w)' => In(j, u, w)
    BY <1>9
  <2> QED
    BY <2>1, TextReturns
<1>13. InOrder'
  <2>1. \A t \in Tasks : Sorted(job', queue'[t])
    BY <1>6, <1>8 DEF IInv, InOrder
  <2>2. ASSUME NEW t \in Tasks, NEW x \in Jobs, NEW y \in Jobs,
               Live(t)', fiber'[t].kind = "filter",
               In(x, fiber[t].parent, "queue")', In(y, t, "queue")'
        PROVE  Older(job', x, y)
    <3>1. CASE x = n \/ y = n
      BY <1>3, <3>1 DEF Older
    <3>2. CASE x # n /\ y # n
      <4>1. In(y, t, "queue")
        BY <1>9, <2>2, <3>2 DEF ListKinds
      <4>2. Live(t)
        BY <4>1 DEF IInv, Pooled, ListKinds
      <4>3. fiber[t].kind = "filter" /\ fiber'[t].parent = fiber[t].parent
        BY <2>2, <4>2
      <4>4. PICK p \in Tasks : p = fiber[t].parent
        BY <4>2, <4>3, ServerIsTask DEF IInv
      <4>5. In(x, p, "queue")'
        BY <2>2, <4>3, <4>4 DEF In, Held
      <4>6. In(x, p, "queue")
        BY <1>9, <3>2, <4>5 DEF ListKinds
      <4>7. Older(job, x, y)
        BY <4>1, <4>2, <4>3, <4>4, <4>6 DEF IInv, InOrder
      <4> QED
        BY <4>7 DEF Older
    <3> QED
      BY <3>1, <3>2
  <2> QED
    BY <2>1, <2>2 DEF InOrder
<1>14. Harmless
  <2>1. \A t \in Tasks : Live(t) => fiber'[t].state # "done"
    BY DEF Live
  <2>2. \A j \in Jobs, t \in Tasks, w \in ListKinds : In(j, t, w) => job'[j] # NoJob
    BY DEF IInv, Pooled
  <2> QED
    BY <2>1, <2>2 DEF Harmless, ListKinds
<1>15. done' \in [Tasks -> Seq(Jobs)] /\ DOMAIN job' = Jobs
  BY <1>2
<1> QED
  BY <1>2, <1>6, <1>11, <1>12, <1>13, <1>14, <1>15, FineParts

LEMMA TextQueuedFine ==
    ASSUME IInv, TextQueued
    PROVE  Fine
<1>1. Running /\ Clock /\ Top.op = "text"
  BY ClockIs DEF TextQueued
<1>2. DOMAIN fiber = Tasks /\ current \in Tasks /\ Live(current) /\ Me = fiber[current]
  BY <1>1, MeIs DEF IInv, Types
<1>3. PICK t, n, f : t = Top.on /\ n = Top.num /\ f = fiber[t].filter
  OBVIOUS
<1>4. \/ /\ job' = [job EXCEPT ![n] = NoJob] /\ SetMe(Popped)
         /\ UNCHANGED <<queue, done, current, serial, fail>>
      \/ /\ Live(t) /\ f = t /\ FreeSlots # {}
         /\ fiber' = [[fiber EXCEPT ![current] = Popped] EXCEPT ![t].filter = FirstSlot,
                        ![FirstSlot] = [NewFiber(FirstSlot, t, "filter", serial + 1)
                                          EXCEPT !.filter = t]]
         /\ serial' = serial + 1 /\ queue' = [queue EXCEPT ![FirstSlot] = Append(@, n)]
         /\ UNCHANGED <<done, job, current, fail>>
      \/ /\ Live(t) /\ f # t /\ Live(f)
         /\ fiber[f].kind = "filter" /\ fiber[f].parent = t
         /\ fiber' = [[fiber EXCEPT ![current] = Popped] EXCEPT ![f] = Woken(@)]
         /\ serial' = serial /\ queue' = [queue EXCEPT ![f] = Append(@, n)]
         /\ UNCHANGED <<done, job, current, fail>>
  <2>1. CASE ~Live(t)
    BY <1>3, <2>1, Zenon DEF TextQueued
  <2>2. CASE Live(t) /\ f = t
    <3>1. fiber[t].filter = t
      BY <1>3, <2>2
    <3> QED
      BY <1>3, <2>2, <3>1 DEF TextQueued
  <2>3. CASE Live(t) /\ f # t
    BY <1>3, <2>3 DEF TextQueued
  <2> QED
    BY <2>1, <2>2, <2>3
<1>5. /\ Stacked(current, Tail(Me.stack), Me.active)
  BY <1>1, TextTop
<1>6. PICK me : me = Popped /\ Like(me) /\ me.stack = Tail(Me.stack)
  BY <1>1, PoppedIs
<1>7. Keeps(current, me)
  BY <1>1, <1>5, <1>6, LikeKeeps
<1>8. FiberType(me) /\ me.state = "run" /\ me.active = Me.active
  BY <1>6, <1>7 DEF Keeps, Like
<1>9. CASE /\ job' = [job EXCEPT ![n] = NoJob] /\ SetMe(Popped)
           /\ UNCHANGED <<queue, done, current, serial, fail>>
  <2>1. Apart /\ queue' = queue /\ done' = done
    BY <1>1, <1>9 DEF Apart
  <2> QED
    BY <1>1, <1>3, <1>9, <2>1, TextDropped
<1>10. CASE /\ Live(t) /\ f = t /\ FreeSlots # {}
            /\ fiber' = [[fiber EXCEPT ![current] = Popped] EXCEPT ![t].filter = FirstSlot,
                           ![FirstSlot] = [NewFiber(FirstSlot, t, "filter", serial + 1)
                                             EXCEPT !.filter = t]]
            /\ serial' = serial + 1 /\ queue' = [queue EXCEPT ![FirstSlot] = Append(@, n)]
            /\ UNCHANGED <<done, job, current, fail>>
  <2>1. PICK i : /\ i = FirstSlot /\ i \in Tasks \ {Root} /\ ~Live(i)
                 /\ i \in 1 .. AppTasks - 1
    BY <1>10, SlotIsFree
  <2>2. t \in Tasks /\ Live(t) /\ fiber[t].filter = t /\ i # t /\ i # current
    BY <1>2, <1>3, <1>10, <2>1 DEF Live
  <2>3. fiber[t].kind # "filter"
    BY <2>2, ServerIsTask DEF IInv, Filters
  <2>4. PICK k \in Nat : k = serial + 1
    BY DEF IInv, Types
  <2>5. PICK made : made = [NewFiber(i, t, "filter", k) EXCEPT !.filter = t]
    OBVIOUS
  <2>6. fiber' = [[fiber EXCEPT ![current] = me] EXCEPT ![t].filter = i, ![i] = made]
    BY <1>6, <1>10, <2>1, <2>4, <2>5
  <2>7. /\ DOMAIN fiber' = Tasks /\ fiber'[i] = made
        /\ \A u \in Tasks : u # i /\ u # t /\ u # current => fiber'[u] = fiber[u]
        /\ t # current => fiber'[current] = me /\ fiber'[t] = [fiber[t] EXCEPT !.filter = i]
        /\ t = current => fiber'[t] = [me EXCEPT !.filter = i]
    BY <1>2, <2>1, <2>2, <2>6
  <2>8. /\ FiberType(fiber[t]) /\ fiber[t].state = "run"
        /\ (t = Root => fiber[t].kill = FALSE)
        /\ Stacked(t, fiber[t].stack, fiber[t].active)
    BY <2>2 DEF IInv, Types, Stacks, Live
  <2>9. ASSUME NEW u \in Tasks \ {i}, ~(fiber'[u] = fiber[u] /\ u # t)
        PROVE  /\ Live(u) /\ FiberType(fiber'[u]) /\ fiber'[u].state = "run"
               /\ fiber'[u].kind = fiber[u].kind /\ fiber'[u].parent = fiber[u].parent
               /\ fiber'[u].filter = IF u = t THEN i ELSE fiber[u].filter
               /\ u = Root => fiber'[u].kill = FALSE
               /\ Stacked(u, fiber'[u].stack, fiber'[u].active)
               /\ fiber'[u].active = fiber[u].active
               /\ fiber'[u].stack = IF u = current THEN me.stack ELSE fiber[u].stack
    <3>1. CASE u = t /\ t # current
      <4>1. PICK g : g = [fiber[t] EXCEPT !.filter = i] /\ g = fiber'[u]
        BY <2>7, <3>1
      <4>2. /\ FiberType(g) /\ g.state = "run" /\ g.kind = fiber[t].kind
            /\ g.parent = fiber[t].parent /\ g.filter = i /\ (t = Root => g.kill = FALSE)
            /\ g.stack = fiber[t].stack /\ g.active = fiber[t].active
        BY <2>1, <2>8, <4>1 DEF FiberType, Fields
      <4> QED
        BY <2>2, <2>8, <3>1, <4>1, <4>2
    <3>2. CASE u = t /\ t = current
      <4>1. PICK g : g = [me EXCEPT !.filter = i] /\ g = fiber'[u]
        BY <2>7, <3>2
      <4>2. /\ FiberType(g) /\ g.state = "run" /\ g.kind = me.kind
            /\ g.parent = me.parent /\ g.filter = i /\ (t = Root => g.kill = FALSE)
            /\ g.stack = me.stack /\ g.active = me.active
        BY <1>7, <1>8, <2>1, <3>2, <4>1 DEF FiberType, Fields, Keeps
      <4> QED
        BY <1>2, <1>5, <1>6, <1>7, <2>2, <3>2, <4>1, <4>2 DEF Keeps, Like
    <3>3. CASE u # t /\ u = current
      <4>1. fiber'[u] = me
        BY <2>7, <3>3
      <4> QED
        BY <1>2, <1>5, <1>6, <1>7, <1>8, <3>3, <4>1 DEF Keeps, Like
    <3> QED
      BY <2>7, <2>9, <3>1, <3>2, <3>3
  <2>10. FilterMade(t, i)
    BY <2>5, <2>7, <2>9 DEF FilterMade
  <2>11. /\ \A u \in Tasks : FiberType(fiber'[u])
         /\ Stacks' /\ Tree' /\ Filters'
         /\ \A u \in Tasks : Live(u) => Live(u)'
         /\ \A u \in Tasks : Live(u)' /\ fiber'[u].kind = "filter" =>
                \/ u = i /\ ~Live(u)
                \/ /\ Live(u) /\ fiber[u].kind = "filter"
                   /\ fiber'[u].parent = fiber[u].parent
         /\ fiber'[i].active = <<>> /\ Having(fiber'[i].stack, "text") = <<>>
    BY <2>1, <2>2, <2>3, <2>10, FilterBorn
  <2>12. ActiveKept
    <3>1. fiber[i].active = <<>>
      BY <2>1 DEF IInv, Stacks
    <3> QED
      BY <2>9, <2>11, <3>1 DEF ActiveKept
  <2>13. Unreserves
    <3>1. fiber'[current].stack = Tail(Me.stack)
      <4>1. CASE fiber'[current] = fiber[current] /\ current # t
        BY <1>6, <2>7, <4>1
      <4>2. CASE ~(fiber'[current] = fiber[current] /\ current # t)
        BY <1>2, <1>6, <2>2, <2>9, <4>2
      <4> QED
        BY <4>1, <4>2
    <3>2. ASSUME NEW u \in Tasks \ {current}
          PROVE  Having(fiber'[u].stack, "text") \in {Having(fiber[u].stack, "text"), <<>>}
      BY <2>9, <2>11
    <3> QED
      BY <3>1, <3>2 DEF Unreserves
  <2>14. Rest
    BY <1>1, <1>10 DEF Rest, Clock, IInv, Types
  <2>15. Live(i)'
    BY <2>1, <2>5, <2>7 DEF Live, NewFiber, Unused
  <2>16. queue' = [queue EXCEPT ![i] = Append(@, n)] /\ done' = done /\ job' = job
    BY <1>10, <2>1
  <2> QED
    BY <1>1, <1>3, <2>1, <2>7, <2>11, <2>12, <2>13, <2>14, <2>15, <2>16, TextGiven
<1>11. CASE /\ Live(t) /\ f # t /\ Live(f)
            /\ fiber[f].kind = "filter" /\ fiber[f].parent = t
            /\ fiber' = [[fiber EXCEPT ![current] = Popped] EXCEPT ![f] = Woken(@)]
            /\ serial' = serial /\ queue' = [queue EXCEPT ![f] = Append(@, n)]
            /\ UNCHANGED <<done, job, current, fail>>
  <2>1. f \in Tasks /\ t \in Tasks /\ Live(f) /\ Live(t) /\ f # Root /\ fiber[t].filter = f
    BY <1>3, <1>11, ServerIsTask DEF IInv, Live
  <2>2. fiber' = [[fiber EXCEPT ![current] = me] EXCEPT ![f] = Woken(@)]
    BY <1>6, <1>11
  <2>3. /\ DOMAIN fiber' = Tasks
        /\ \A u \in Tasks : u # f /\ u # current => fiber'[u] = fiber[u]
        /\ f # current => fiber'[f] = Woken(fiber[f]) /\ fiber'[current] = me
        /\ f = current => fiber'[f] = Woken(me)
    BY <1>2, <1>11, <2>1, <2>2
  <2>5. ASSUME NEW u \in Tasks, u \in {f, current}
        PROVE  /\ Live(u) /\ Keeps(u, fiber'[u])
               /\ fiber'[u].active = fiber[u].active
               /\ fiber'[u].stack = IF u = current THEN me.stack ELSE fiber[u].stack
    <3>1. CASE u = f /\ f # current
      <4>1. PICK g : g = Woken(fiber[f]) /\ g = fiber'[u]
        BY <2>3, <3>1
      <4>2. Nudged(f, g) /\ Calm(f, g)
        BY <2>1, <4>1, WokenNudged
      <4> QED
        BY <2>1, <3>1, <4>1, <4>2 DEF Nudged, Calm
    <3>2. CASE u = f /\ f = current
      <4>1. PICK g : g = Woken(me) /\ g = fiber'[u]
        BY <2>3, <3>2
      <4>2. Like(g) /\ g.stack = me.stack
        BY <1>6, <4>1 DEF Like, Fields, Woken
      <4>3. Keeps(current, g)
        BY <1>1, <1>5, <1>6, <4>2, LikeKeeps
      <4> QED
        BY <1>2, <3>2, <4>1, <4>2, <4>3 DEF Like
    <3>3. CASE u = current /\ f # current
      <4>1. fiber'[u] = me
        BY <2>3, <3>3
      <4> QED
        BY <1>2, <1>6, <1>7, <3>3, <4>1 DEF Like
    <3> QED
      BY <2>5, <3>1, <3>2, <3>3
  <2>6. Family
    BY <2>3, <2>5 DEF Family
  <2>7. /\ \A u \in Tasks : FiberType(fiber'[u]) /\ (Live(u) => Live(u)')
        /\ Stacks' /\ Tree' /\ Filters' /\ FiltersStay
    BY <2>6, FamilyLives, FamilyFilters DEF IInv
  <2>8. ActiveKept
    BY <2>3, <2>5 DEF ActiveKept
  <2>9. Unreserves
    <3>1. fiber'[current].stack = Tail(Me.stack)
      BY <1>2, <1>6, <2>5
    <3>2. ASSUME NEW u \in Tasks \ {current}
          PROVE  Having(fiber'[u].stack, "text") \in {Having(fiber[u].stack, "text"), <<>>}
      BY <2>3, <2>5
    <3> QED
      BY <3>1, <3>2 DEF Unreserves
  <2>10. Rest
    BY <1>1, <1>11 DEF Rest, Clock, IInv, Types
  <2>11. Live(f)' /\ done' = done /\ job' = job
    <3>1. Live(f)'
      BY <2>1, <2>7
    <3> QED
      BY <1>11, <3>1
  <2>12. \A u \in Tasks : Live(u)' /\ fiber'[u].kind = "filter" =>
                \/ u = f /\ ~Live(u)
                \/ /\ Live(u) /\ fiber[u].kind = "filter"
                   /\ fiber'[u].parent = fiber[u].parent
    BY <2>7 DEF FiltersStay
  <2> QED
    BY <1>1, <1>3, <1>11, <2>1, <2>3, <2>7, <2>8, <2>9, <2>10, <2>11, <2>12, TextGiven
<1> QED
  BY <1>4, <1>9, <1>10, <1>11, Zenon

-----------------------------------------------------------------------------
(* A job body returns *)

\* The task whose job body returns: the innermost dispatch is over.
BodyOver(g) ==
    /\ Keeps(current, g) /\ g.active = Tail(Me.active)
    /\ Having(g.stack, "text") \in {Having(Me.stack, "text"), <<>>}

LEMMA BodyTop ==
    ASSUME IInv, Running, Top.op = "body", NEW n, n = Top.on
    PROVE  /\ n \in Jobs /\ Me.active # <<>> /\ Head(Me.active) = n
           /\ Me.active \in Seq(Jobs)
           /\ In(n, current, "active")
           /\ Stacked(current, Tail(Me.stack), Tail(Me.active))
           /\ Having(Tail(Me.stack), "text") = Having(Me.stack, "text")
<1>1. /\ current \in Tasks /\ Me = fiber[current] /\ FiberType(Me)
      /\ Stacked(current, Me.stack, Me.active)
  BY MeIs
<1>2. PICK act \in Seq(Jobs) : act = Me.active
  BY <1>1 DEF FiberType
<1>3. PICK s : s = Me.stack /\ Stacked(current, s, act) /\ Head(s).op = "body" /\ Head(s).on = n
  BY <1>1, <1>2 DEF Top
<1>4. /\ act # <<>> /\ Head(act) = n /\ n \in Jobs
      /\ Stacked(current, Tail(s), Tail(act))
      /\ Having(Tail(s), "text") = Having(s, "text")
  BY <1>3, StackPopBody
<1>5. InList(n, act)
  BY <1>4, ListTail
<1>6. In(n, current, "active")
  BY <1>1, <1>2, <1>5, HeldIs DEF In
<1> QED
  BY <1>2, <1>3, <1>4, <1>6

LEMMA BodyOverIs ==
    ASSUME IInv, Running, Top.op = "body", NEW me, me = [Popped EXCEPT !.active = Tail(@)]
    PROVE  BodyOver(me) /\ (current # Root => BodyOver(Ended(me)))
<1>1. /\ current \in Tasks /\ Me = fiber[current] /\ FiberType(Me) /\ Me.state = "run"
      /\ current = Root => Me.kill = FALSE
  BY MeIs
<1>2. PICK n : n = Top.on
  OBVIOUS
<1>3. /\ Me.active # <<>> /\ Me.active \in Seq(Jobs)
      /\ Stacked(current, Tail(Me.stack), Tail(Me.active))
      /\ Having(Tail(Me.stack), "text") = Having(Me.stack, "text")
  BY <1>2, BodyTop
<1>4. PICK a \in Seq(Jobs) : a = Tail(Me.active)
  BY <1>3, ListTail
<1>5. PICK z \in Seq(Frames) : z = Tail(Me.stack)
  BY <1>3 DEF Stacked
<1>6. /\ DOMAIN me = Fields /\ me.state = "run" /\ me.kind = Me.kind /\ me.parent = Me.parent
      /\ me.filter = Me.filter /\ me.num = Me.num /\ me.target = Me.target
      /\ me.cb = Me.cb /\ me.idle = Me.idle /\ (current = Root => me.kill = FALSE)
      /\ me.active = a /\ me.stack = z
  BY <1>1, <1>4, <1>5 DEF Popped, FiberType, Fields
<1>7. FiberType(me)
  BY <1>1, <1>6 DEF FiberType
<1>8. BodyOver(me)
  <2>1. Keeps(current, me)
    BY <1>1, <1>3, <1>4, <1>5, <1>6, <1>7 DEF Keeps
  <2> QED
    BY <1>3, <1>4, <1>5, <1>6, <2>1 DEF BodyOver
<1>9. ASSUME current # Root PROVE BodyOver(Ended(me))
  <2>1. PICK fr \in Frames : fr = Frame("teardown") /\ fr.op \in Bottom /\ fr.op # "filter"
    <3>1. "teardown" \in FrameOps /\ None \in Tasks \cup Jobs \cup {None}
      BY DEF FrameOps
    <3>2. Frame("teardown") \in Frames /\ Frame("teardown").op = "teardown"
      BY <3>1, FrameTyped
    <3> QED
      BY <3>2 DEF Bottom
  <2>2. PICK g : g = Ended(me)
    OBVIOUS
  <2>3. /\ DOMAIN g = Fields /\ g.state = "run" /\ g.kind = me.kind /\ g.parent = me.parent
        /\ g.filter = me.filter /\ g.num = me.num /\ g.target = me.target
        /\ g.cb = me.cb /\ g.idle = me.idle /\ g.active = me.active /\ g.stack = <<fr>>
    BY <1>6, <2>1, <2>2 DEF Ended, Fields
  <2>4. Stacked(current, <<fr>>, a) /\ Having(<<fr>>, "text") = <<>>
    BY <1>9, <2>1, StackFresh
  <2>5. <<fr>> \in Seq(Frames)
    OBVIOUS
  <2>6. FiberType(g)
    BY <1>7, <2>3, <2>5 DEF FiberType
  <2>7. Keeps(current, g)
    BY <1>1, <1>6, <1>9, <2>3, <2>4, <2>6 DEF Keeps
  <2> QED
    BY <1>4, <1>6, <2>2, <2>3, <2>4, <2>7 DEF BodyOver
<1> QED
  BY <1>8, <1>9

LEMMA JobCompletesFine ==
    ASSUME IInv, JobCompletes
    PROVE  Fine
<1>1. Running /\ Clock /\ Top.op = "body"
  BY ClockIs DEF JobCompletes
<1>2. DOMAIN fiber = Tasks /\ current \in Tasks /\ Live(current) /\ Me = fiber[current]
  BY <1>1, MeIs DEF IInv, Types
<1>3. /\ DOMAIN job = Jobs /\ queue \in [Tasks -> Seq(Jobs)] /\ done \in [Tasks -> Seq(Jobs)]
      /\ \A j \in Jobs : job[j] = NoJob \/ JobType(job[j])
  BY DEF IInv, Types
<1> DEFINE on     == Top.on
           r      == job[on]
           m      == r.master
           me     == [Popped EXCEPT !.active = Tail(@)]
           spawns == r.kind = "spawn" /\ Live(r.arg) /\ FreeSlots # {}
           drop   == r.kind = "text" \/ "free" \in r.flags \/ (m # None /\ ~Live(m))
           woken  == IF Live(m) /\ "wake" \in r.flags
                     THEN [fiber EXCEPT ![m].susp = FALSE] ELSE fiber
<1>4. PICK n : n = Top.on
  OBVIOUS
<1>5. r = job[n] /\ m = r.master
  BY <1>4
<1>6. me = [Popped EXCEPT !.active = Tail(@)]
  OBVIOUS
<1>7. spawns <=> r.kind = "spawn" /\ Live(r.arg) /\ FreeSlots # {}
  OBVIOUS
<1>8. drop <=> r.kind = "text" \/ "free" \in r.flags \/ (m # None /\ ~Live(m))
  OBVIOUS
<1>9. woken = IF Live(m) /\ "wake" \in r.flags
              THEN [fiber EXCEPT ![m].susp = FALSE] ELSE fiber
  OBVIOUS
<1>0.  /\ fiber' = [t \in Tasks |->
               IF t = current
               THEN IF "exit" \in r.flags THEN Ended(me) ELSE me
               ELSE IF spawns /\ t = FirstSlot
               THEN NewFiber(t, r.arg, "entry", serial + 1)
               ELSE woken[t]]
       /\ serial' = IF spawns THEN serial + 1 ELSE serial
       /\ job' = [job EXCEPT ![on] =
               IF drop THEN NoJob
               ELSE [r EXCEPT !.flags = @ \cup {"done"}]]
       /\ done' = IF drop THEN done
                  ELSE [done EXCEPT ![IF Live(m) THEN m ELSE current] = Append(@, on)]
       /\ UNCHANGED <<queue, current, fail>>
  BY DEF JobCompletes
<1> HIDE DEF on, r, m, me, spawns, drop, woken
<1>10. /\ fiber' = [t \in Tasks |->
               IF t = current
               THEN IF "exit" \in r.flags THEN Ended(me) ELSE me
               ELSE IF spawns /\ t = FirstSlot
               THEN NewFiber(t, r.arg, "entry", serial + 1)
               ELSE woken[t]]
       /\ serial' = IF spawns THEN serial + 1 ELSE serial
       /\ job' = [job EXCEPT ![n] =
               IF drop THEN NoJob
               ELSE [r EXCEPT !.flags = @ \cup {"done"}]]
       /\ done' = IF drop THEN done
                  ELSE [done EXCEPT ![IF Live(m) THEN m ELSE current] = Append(@, n)]
       /\ UNCHANGED <<queue, current, fail>>
  BY <1>0, <1>4 DEF on
<1>11. n \in Jobs /\ In(n, current, "active") /\ Me.active \in Seq(Jobs) /\ Me.active # <<>>
       /\ Head(Me.active) = n
  BY <1>1, <1>4, BodyTop
<1>12. /\ r # NoJob /\ JobType(r) /\ "done" \notin r.flags /\ r.kind # "msg"
       /\ current = Root => "exit" \notin r.flags
  BY <1>2, <1>3, <1>5, <1>11 DEF IInv, Pooled, ListKinds
<1>13. PICK mine : mine = IF "exit" \in r.flags THEN Ended(me) ELSE me
  OBVIOUS
<1>14. BodyOver(mine)
  BY <1>1, <1>6, <1>12, <1>13, BodyOverIs
<1>15. /\ DOMAIN fiber' = Tasks /\ fiber'[current] = mine
       /\ \A t \in Tasks : t # current =>
             fiber'[t] = IF spawns /\ t = FirstSlot THEN NewFiber(t, r.arg, "entry", serial + 1)
                         ELSE woken[t]
  BY <1>2, <1>10, <1>13
<1>16. ASSUME NEW t \in Tasks, t # current
       PROVE  \/ fiber'[t] = fiber[t]
              \/ Live(t) /\ Calm(t, fiber'[t])
              \/ ~Live(t) /\ Born(t, fiber'[t])
  <2>1. CASE spawns /\ t = FirstSlot
    <3>1. ~Live(t) /\ Live(r.arg)
      BY <1>7, <2>1, SlotIsFree
    <3>2. PICK p \in Tasks, k \in Nat, kind \in {"entry", "exec", "system"} :
              p = r.arg /\ k = serial + 1 /\ kind = "entry" /\ Live(p)
      BY <3>1 DEF Live, IInv, Types
    <3>3. PICK g : g = NewFiber(t, p, kind, k)
      OBVIOUS
    <3>4. Born(t, g)
      BY <3>2, <3>3 DEF Born
    <3>5. fiber'[t] = g
      BY <1>15, <1>16, <2>1, <3>2, <3>3
    <3> QED
      BY <3>1, <3>4, <3>5
  <2>2. CASE ~(spawns /\ t = FirstSlot)
    <3>1. fiber'[t] = woken[t]
      BY <1>15, <1>16, <2>2
    <3>2. CASE Live(m) /\ "wake" \in r.flags /\ t = m
      <4>1. PICK g : g = [fiber[t] EXCEPT !.susp = FALSE]
        OBVIOUS
      <4>2. fiber'[t] = g /\ Live(t)
        BY <1>2, <1>9, <3>1, <3>2, <4>1
      <4>3. FiberType(fiber[t]) /\ (t = Root => fiber[t].kill = FALSE) /\ fiber[t].state = "run"
        BY <4>2 DEF IInv, Types, Stacks, Live
      <4>4. Nudged(t, g)
        BY <4>1, <4>3 DEF Nudged, FiberType, Fields
      <4>5. Calm(t, g)
        BY <4>2, <4>4, CalmNudge
      <4> QED
        BY <4>2, <4>5
    <3>3. CASE ~(Live(m) /\ "wake" \in r.flags /\ t = m)
      <4>1. woken[t] = fiber[t]
        BY <1>2, <1>9, <3>3
      <4> QED
        BY <3>1, <4>1
    <3> QED
      BY <3>2, <3>3
  <2> QED
    BY <2>1, <2>2
<1>17. Family
  BY <1>2, <1>14, <1>15, <1>16 DEF Family, Calm, BodyOver
<1>18. ASSUME NEW t \in Tasks, t # current
       PROVE  /\ fiber'[t].active = fiber[t].active
              /\ Having(fiber'[t].stack, "text") \in {Having(fiber[t].stack, "text"), <<>>}
  <2>1. CASE ~Live(t) /\ Born(t, fiber'[t])
    <3>1. t # Root /\ fiber[t].active = <<>>
      BY <2>1 DEF IInv, Tree, Stacks
    <3>2. PICK g : g = fiber'[t] /\ Born(t, g)
      BY <2>1
    <3>3. g.active = <<>> /\ Having(g.stack, "text") = <<>>
      BY <3>1, <3>2, BornIs
    <3> QED
      BY <3>1, <3>2, <3>3
  <2>2. CASE ~(~Live(t) /\ Born(t, fiber'[t]))
    BY <1>16, <1>18, <2>2 DEF Calm
  <2> QED
    BY <2>1, <2>2
<1>19. TextsKept
  BY <1>2, <1>14, <1>15, <1>18 DEF TextsKept, BodyOver
<1>20. Rest
  BY <1>1, <1>10 DEF Rest, Clock, IInv, Types
<1>21. FiltersStay /\ \A t \in Tasks : Live(t) => Live(t)'
  BY <1>17, FamilyFilters
<1>22. PICK act \in Seq(Jobs) : act = Me.active /\ act # <<>> /\ Head(act) = n
  BY <1>11
<1>23. PICK z \in Seq(Jobs) : z = Tail(act)
  BY <1>22, ListTail
<1>24. fiber'[current].active = z
  BY <1>14, <1>15, <1>22, <1>23 DEF BodyOver
<1>25. \A t \in Tasks, w \in ListKinds : In(n, t, w) => t = current /\ w = "active"
  BY <1>2, <1>11 DEF IInv, OnePlace, ListKinds
<1>26. Distinct(z) /\ \A i : InList(i, z) <=> InList(i, act) /\ i # n
  <2>1. Distinct(Held(current, "active"))
    BY <1>2 DEF IInv, OnePlace, ListKinds
  <2>2. Distinct(act)
    BY <1>2, <1>22, <2>1, HeldIs
  <2> QED
    BY <1>22, <1>23, <2>2, ListTail
<1>27. PICK x \in Jobs : x = n
  BY <1>11
<1>28. Unreserved(n)
  BY <1>2, <1>11, UnreservedIs DEF IInv, ListKinds
<1>29. queue' = queue /\ queue' \in [Tasks -> Seq(Jobs)]
  BY <1>3, <1>10
<1>30. DOMAIN job' = Jobs /\ \A j \in Jobs : j # n => job'[j] = job[j]
  BY <1>3, <1>10
<1>31. ASSUME NEW t \in Tasks, NEW w \in ListKinds, w # "done"
       PROVE  /\ \A j \in Jobs : In(j, t, w)' <=> In(j, t, w) /\ j # n
              /\ Distinct(Held(t, w))'
  <2>1. CASE t = current /\ w = "active"
    <3>1. Held(t, w)' = z /\ Held(t, w) = act
      BY <1>2, <1>22, <1>24, <2>1, HeldIs
    <3>2. \A j : (In(j, t, w)' <=> InList(j, z)) /\ (In(j, t, w) <=> InList(j, act))
      BY <3>1 DEF In, InList
    <3>3. Distinct(Held(t, w))'
      BY <1>26, <3>1 DEF Distinct
    <3> QED
      BY <1>26, <3>2, <3>3
  <2>2. CASE ~(t = current /\ w = "active")
    <3>1. Held(t, w)' = Held(t, w)
      BY <1>18, <1>29, <1>31, <2>2, HeldIs DEF Held, ListKinds
    <3>2. \A j : In(j, t, w)' <=> In(j, t, w)
      BY <3>1 DEF In, InList
    <3>3. Distinct(Held(t, w))'
      BY <3>1 DEF IInv, OnePlace, Distinct
    <3> QED
      BY <1>25, <2>2, <3>2, <3>3
  <2> QED
    BY <2>1, <2>2
<1>32. CASE drop
  <2>1. done' = done /\ job'[n] = NoJob /\ done' \in [Tasks -> Seq(Jobs)]
    BY <1>3, <1>10, <1>11, <1>32
  <2>2. ASSUME NEW t \in Tasks, NEW w \in ListKinds
        PROVE  /\ \A j \in Jobs : In(j, t, w)' <=> In(j, t, w) /\ j # n
               /\ Distinct(Held(t, w))'
    <3>1. CASE w = "done"
      <4>1. Held(t, w)' = Held(t, w)
        BY <2>1, <3>1, HeldIs
      <4>2. \A j : In(j, t, w)' <=> In(j, t, w)
        BY <4>1 DEF In, InList
      <4>3. Distinct(Held(t, w))'
        BY <4>1 DEF IInv, OnePlace, Distinct
      <4> QED
        BY <1>25, <3>1, <4>2, <4>3
    <3> QED
      BY <1>31, <3>1
  <2>3. OthersStay(n)
    BY <1>30, <2>2 DEF OthersStay
  <2>4. Reserved'
    BY <1>11, <1>19, <1>28, <2>3, ReservedOthers DEF IInv
  <2>5. Harmless
    <3>1. \A t \in Tasks : Live(t) => fiber'[t].state # "done"
      BY <1>21 DEF Live
    <3>2. ASSUME NEW t \in Tasks, NEW j \in Jobs, Live(t),
                 \E s \in Tasks : In(j, s, "active"),
                 job[j].kind = "exe", "free" \notin job[j].flags, job[j].master \in {None, t}
          PROVE  job'[j] # NoJob
      <4>1. job[j] # NoJob
        BY <3>2 DEF IInv, Pooled, ListKinds
      <4>2. j # n
        BY <1>5, <1>8, <1>32, <3>2
      <4> QED
        BY <1>30, <4>1, <4>2
    <3>3. ASSUME NEW t \in Tasks, NEW j \in Jobs, In(j, t, "queue") PROVE job'[j] # NoJob
      <4>1. job[j] # NoJob /\ j # n
        BY <1>25, <3>3 DEF IInv, Pooled, ListKinds
      <4> QED
        BY <1>30, <4>1
    <3> QED
      BY <3>1, <3>2, <3>3 DEF Harmless
  <2>6. \A t \in Tasks, w \in ListKinds : ~In(n, t, w)'
    BY <1>11, <2>2
  <2>7. \A t \in Tasks : Sorted(job, queue'[t])
    BY <1>29 DEF IInv, InOrder
  <2> QED
    BY <1>11, <1>17, <1>20, <1>29, <1>30, <2>1, <2>3, <2>4, <2>5, <2>6, <2>7, RemoveStep
<1>33. CASE ~drop
  <2>1. PICK d \in Tasks : d = (IF Live(m) THEN m ELSE current) /\ Live(d)
    BY <1>2 DEF Live
  <2>2. PICK q \in Seq(Jobs) : q = done[d]
    BY <1>3
  <2>3. PICK q1 \in Seq(Jobs) : q1 = Append(q, n)
    BY <1>11, ListAppend
  <2>4. /\ done' \in [Tasks -> Seq(Jobs)] /\ done'[d] = q1
        /\ \A t \in Tasks : t # d => done'[t] = done[t]
    BY <1>3, <1>10, <1>33, <2>1, <2>2, <2>3
  <2>5. PICK r1 : r1 = [r EXCEPT !.flags = @ \cup {"done"}]
    OBVIOUS
  <2>6. job'[n] = r1
    BY <1>3, <1>10, <1>11, <1>33, <2>5
  <2>7. /\ JobType(r1) /\ r1 # NoJob /\ "done" \in r1.flags /\ r1.kind # "msg"
    BY <1>12, <2>5 DEF JobType, JobFields, NoJob
  <2>8. Distinct(q) /\ ~InList(n, q)
    <3>1. Distinct(Held(d, "done")) /\ ~In(n, d, "done")
      BY <1>11, <1>25 DEF IInv, OnePlace, ListKinds
    <3> QED
      BY <2>2, <3>1, HeldIs DEF In
  <2>9. Distinct(q1) /\ \A i : InList(i, q1) <=> InList(i, q) \/ i = n
    BY <1>11, <2>3, <2>8, ListAppend
  <2>10. ASSUME NEW t \in Tasks, NEW w \in ListKinds
         PROVE  /\ \A j \in Jobs : j # n => (In(j, t, w)' <=> In(j, t, w))
                /\ In(n, t, w)' <=> t = d /\ w = "done"
                /\ Distinct(Held(t, w))'
    <3>1. CASE t = d /\ w = "done"
      <4>1. Held(t, w)' = q1 /\ Held(t, w) = q
        BY <2>2, <2>4, <3>1, HeldIs
      <4>2. \A j : (In(j, t, w)' <=> InList(j, q1)) /\ (In(j, t, w) <=> InList(j, q))
        BY <4>1 DEF In, InList
      <4>3. Distinct(Held(t, w))'
        BY <2>9, <4>1 DEF Distinct
      <4> QED
        BY <2>9, <3>1, <4>2, <4>3
    <3>2. CASE t # d /\ w = "done"
      <4>1. Held(t, w)' = Held(t, w)
        BY <2>4, <3>2, HeldIs
      <4>2. \A j : In(j, t, w)' <=> In(j, t, w)
        BY <4>1 DEF In, InList
      <4>3. Distinct(Held(t, w))'
        BY <4>1 DEF IInv, OnePlace, Distinct
      <4> QED
        BY <1>25, <3>2, <4>2, <4>3
    <3>3. CASE w # "done"
      BY <1>11, <1>31, <3>3
    <3> QED
      BY <3>1, <3>2, <3>3
  <2>11. OthersStay(n)
    BY <1>30, <2>10 DEF OthersStay
  <2>12. OnePlace' /\ Pooled'
    <3>1. PICK w \in ListKinds : w = "done"
      BY DEF ListKinds
    <3>2. \A t \in Tasks, v \in ListKinds : In(n, t, v)' => t = d /\ v = w
      BY <2>10, <3>1
    <3>3. In(n, d, w)' /\ Live(d)'
      BY <1>21, <2>1, <2>10, <3>1
    <3>4. /\ Live(d)' /\ job'[n] # NoJob
          /\ w = "done" <=> "done" \in job'[n].flags
          /\ w = "active" => job'[n].kind # "msg"
          /\ d = Root /\ w # "done" => "exit" \notin job'[n].flags
      BY <2>6, <2>7, <3>1, <3>3
    <3>5. job'[n].kind # "msg"
      BY <2>6, <2>7
    <3> QED
      BY <1>11, <1>20, <1>21, <2>11, <3>2, <3>3, <3>4, <3>5, OneJobMoves DEF IInv
  <2>13. Reserved'
    BY <1>11, <1>19, <1>28, <2>11, ReservedOthers DEF IInv
  <2>14. InOrder'
    <3>1. \A t \in Tasks, j \in Jobs : In(j, t, "queue")' =>
             In(j, t, "queue") /\ job'[j] = job[j]
      BY <1>30, <1>31 DEF ListKinds
    <3>2. ASSUME NEW t \in Tasks PROVE Sorted(job', queue'[t])
      <4>1. PICK s \in Seq(Jobs) : s = queue[t] /\ s = queue'[t]
        BY <1>3, <1>29
      <4>2. PICK pool : pool = job'
        OBVIOUS
      <4>3. \A i : InList(i, s) => In(i, t, "queue")'
        BY <4>1, HeldIs DEF In, InList
      <4>4. \A i \in Jobs : InList(i, s) => pool[i] = job[i]
        BY <3>1, <4>2, <4>3
      <4>5. Sorted(job, s)
        BY <4>1 DEF IInv, InOrder
      <4>6. Sorted(pool, s)
        BY <4>4, <4>5, SortedSame
      <4> QED
        BY <4>1, <4>2, <4>6
    <3> QED
      BY <1>21, <3>1, <3>2, QueuesShrink DEF IInv
  <2>15. Harmless
    <3>1. \A j \in Jobs : job[j] # NoJob => job'[j] # NoJob
      BY <1>30, <2>6, <2>7
    <3> QED
      BY <1>17, <3>1, HarmlessIs
  <2>16. \A j \in Jobs : job'[j] = NoJob \/ JobType(job'[j])
    BY <1>3, <1>30, <2>6, <2>7
  <2> QED
    BY <1>17, <1>20, <1>29, <1>30, <2>4, <2>12, <2>13, <2>14, <2>15, <2>16, FineIs
<1> QED
  BY <1>32, <1>33

-----------------------------------------------------------------------------
(* A task ends *)

\* A job that cancel_active_job keeps goes to another live task, and it is
\* kept whenever a task that stays waits for it.
LEMMA RecipientIs ==
    ASSUME IInv, NEW i \in Tasks, NEW j \in Jobs, job[j] # NoJob
    PROVE  /\ Recipient(i, j) # None =>
                /\ Recipient(i, j) \in Tasks \ {i} /\ Live(Recipient(i, j))
                /\ job[j].kind = "exe"
           /\ \A t \in Tasks \ {i} :
                /\ Live(t) /\ fiber[t].wait = "job" /\ fiber[t].target = j
                /\ job[j].kind = "exe" /\ "free" \notin job[j].flags
                => Recipient(i, j) # None
<1>1. JobType(job[j]) /\ None \notin Tasks /\ Tasks \subseteq Nat
  BY Numbers DEF IInv, Types
<1>2. PICK m : m = job[j].master
  OBVIOUS
<1> DEFINE W == {t \in Tasks \ {i} : Live(t) /\ fiber[t].wait = "job"
                                             /\ fiber[t].target = j}
           x == CHOOSE t \in W : \A u \in W : t <= u
<1>5. JobWaiter(i, j) = IF m # i /\ Live(m) THEN m ELSE IF W = {} THEN None ELSE x
  BY <1>2 DEF JobWaiter
<1>3. W = {t \in Tasks \ {i} : Live(t) /\ fiber[t].wait = "job"
                                          /\ fiber[t].target = j}
  OBVIOUS
<1>4. x = CHOOSE t \in W : \A u \in W : t <= u
  OBVIOUS
<1> HIDE DEF W, x
<1>6. W # {} => x \in W
  <2>1. W \subseteq Nat
    BY <1>1, <1>3
  <2>2. ASSUME W # {} PROVE \E t \in W : \A u \in W : t <= u
    BY <2>1, <2>2, LeastNumber
  <2> QED
    BY <1>4, <2>2
<1>7. /\ JobWaiter(i, j) # None => JobWaiter(i, j) \in Tasks \ {i} /\ Live(JobWaiter(i, j))
      /\ W # {} => JobWaiter(i, j) # None
  <2>1. Live(m) => m \in Tasks
    BY DEF Live
  <2>2. \A t \in W : t \in Tasks \ {i} /\ Live(t)
    BY <1>3
  <2> QED
    BY <1>1, <1>5, <1>6, <2>1, <2>2
<1>8. Recipient(i, j) = IF job[j].kind = "exe" /\ "free" \notin job[j].flags
                        THEN JobWaiter(i, j) ELSE None
  BY DEF Recipient
<1>9. ASSUME NEW t \in Tasks \ {i}, Live(t), fiber[t].wait = "job", fiber[t].target = j
      PROVE  W # {}
  BY <1>3, <1>9
<1> QED
  BY <1>7, <1>8, <1>9

\* What the end of task i does to another task t: a server loses its filter.
Stays(i, t, g) ==
    /\ FiberType(g)
    /\ g.state = "run"
    /\ g.kind = fiber[t].kind
    /\ g.parent = fiber[t].parent
    /\ g.filter = IF fiber[i].kind = "filter" /\ t = fiber[i].parent
                  THEN t ELSE fiber[t].filter
    /\ t = Root => g.kill = FALSE
    /\ Stacked(t, g.stack, g.active)
    /\ g.active = fiber[t].active
    /\ Having(g.stack, "text") \in {Having(fiber[t].stack, "text"), <<>>}

Leaves(i) ==
    /\ DOMAIN fiber' = Tasks
    /\ FiberType(fiber'[i]) /\ fiber'[i].state = "done"
    /\ fiber'[i].stack = <<>> /\ fiber'[i].active = <<>>
    /\ \A t \in Tasks \ {i} : IF Live(t) THEN Stays(i, t, fiber'[t])
                              ELSE fiber'[t] = fiber[t]

\* The tasks before finish_guest, but for what the running one does itself.
Before(base) ==
    /\ DOMAIN base = Tasks
    /\ \A t \in Tasks : base[t] = fiber[t] \/ (Live(t) /\ Calm(t, base[t]))

LEMMA LeavesIs ==
    ASSUME IInv, NEW i \in Tasks \ {Root}, Live(i), NEW base, Before(base),
           NEW moved, Finish(i, base), moved = Handed(i)
    PROVE  Leaves(i)
<1>1. PICK p \in Tasks : p = fiber[i].parent /\ Live(p) /\ p # i
  BY DEF IInv, Tree, Live
<1> DEFINE P  == fiber[i].parent
           G  == [base[i] EXCEPT !.state = "done", !.active = <<>>,
                                 !.stack = <<>>, !.wait = "none"]
           H  == IF fiber[i].kind = "filter"
                 THEN Unfiltered(base[P], P, Handed(i)) ELSE base[P]
<1>0. fiber' = [base EXCEPT ![i] = G, ![P] = H]
  BY DEF Finish
<1>2. PICK gi : gi = [base[i] EXCEPT !.state = "done", !.active = <<>>,
                                     !.stack = <<>>, !.wait = "none"]
  OBVIOUS
<1>3. PICK gp : gp = IF fiber[i].kind = "filter"
                     THEN Unfiltered(base[p], p, moved) ELSE base[p]
  OBVIOUS
<1>4. fiber' = [base EXCEPT ![i] = gi, ![p] = gp]
  <2>1. G = gi /\ H = gp /\ P = p
    BY <1>1, <1>2, <1>3
  <2> HIDE DEF G, H, P
  <2> QED
    BY <1>0, <2>1
<1> HIDE DEF G, H, P
<1>5. /\ DOMAIN fiber' = Tasks /\ fiber'[i] = gi /\ fiber'[p] = gp
      /\ \A t \in Tasks \ {i, p} : fiber'[t] = base[t]
  BY <1>1, <1>4 DEF Before
<1>6. ASSUME NEW t \in Tasks, Live(t)
      PROVE  /\ Keeps(t, base[t]) /\ base[t].active = fiber[t].active
             /\ Having(base[t].stack, "text") \in {Having(fiber[t].stack, "text"), <<>>}
  <2>1. CASE base[t] = fiber[t]
    BY <1>6, <2>1 DEF Keeps, IInv, Types, Stacks, Live
  <2> QED
    BY <2>1 DEF Before, Calm
<1>7. /\ FiberType(gi) /\ gi.state = "done" /\ gi.stack = <<>> /\ gi.active = <<>>
  <2>1. PICK b : b = base[i] /\ FiberType(b)
    BY <1>6 DEF Keeps
  <2>2. <<>> \in Seq(Frames) /\ <<>> \in Seq(Jobs)
    OBVIOUS
  <2> QED
    BY <1>2, <2>1, <2>2 DEF FiberType, Fields
<1>8. ASSUME NEW t \in Tasks \ {i}, Live(t), ~(fiber[i].kind = "filter" /\ t = p)
      PROVE  Stays(i, t, fiber'[t])
  <2>1. fiber'[t] = base[t]
    BY <1>3, <1>5, <1>8
  <2> QED
    BY <1>1, <1>6, <1>8, <2>1 DEF Stays, Keeps
<1>9. ASSUME fiber[i].kind = "filter" PROVE Stays(i, p, fiber'[p])
  <2>1. PICK b : b = base[p] /\ FiberType(b)
    BY <1>1, <1>6 DEF Keeps
  <2>2. PICK e \in BOOLEAN : e = (moved = <<>>)
    OBVIOUS
  <2>3. gp = [b EXCEPT !.filter = p, !.idle = b.idle /\ e, !.await = b.await /\ e]
    BY <1>3, <1>9, <2>1, <2>2 DEF Unfiltered
  <2>4. (b.idle /\ e) \in BOOLEAN
    BY <2>1, <2>2 DEF FiberType
  <2>5. /\ DOMAIN gp = Fields /\ gp.filter = p /\ gp.idle = (b.idle /\ e)
        /\ gp.state = b.state /\ gp.kind = b.kind /\ gp.parent = b.parent
        /\ gp.num = b.num /\ gp.target = b.target /\ gp.cb = b.cb /\ gp.kill = b.kill
        /\ gp.stack = b.stack /\ gp.active = b.active
    BY <2>1, <2>3 DEF FiberType, Fields
  <2>6. FiberType(gp)
    BY <2>1, <2>4, <2>5 DEF FiberType
  <2>7. Keeps(p, b) /\ b.active = fiber[p].active
        /\ Having(b.stack, "text") \in {Having(fiber[p].stack, "text"), <<>>}
    BY <1>1, <1>6, <2>1
  <2> QED
    BY <1>1, <1>5, <1>9, <2>5, <2>6, <2>7 DEF Stays, Keeps
<1>10. ASSUME NEW t \in Tasks \ {i}, ~Live(t) PROVE fiber'[t] = fiber[t]
  BY <1>1, <1>5, <1>10 DEF Before
<1> QED
  BY <1>1, <1>5, <1>7, <1>8, <1>9, <1>10 DEF Leaves

\* The task tree without a task that has no children.
LEMMA LeavesTree ==
    ASSUME IInv, NEW i \in Tasks \ {Root}, Live(i), Children(i) = {}, Leaves(i)
    PROVE  /\ \A t \in Tasks : FiberType(fiber'[t])
           /\ Stacks' /\ Tree' /\ Filters' /\ FiltersStay
           /\ \A t \in Tasks : Live(t)' <=> Live(t) /\ t # i
<1>1. PICK p \in Tasks : p = fiber[i].parent /\ Live(p) /\ p # i
  BY DEF IInv, Tree, Live
<1>2. \A t \in Tasks \ {Root} : Live(t) => fiber[t].parent # i
  BY DEF Children
<1>3. ASSUME NEW t \in Tasks, Live(t), t # i PROVE Stays(i, t, fiber'[t]) /\ Live(t)'
  BY <1>3 DEF Leaves, Stays, Live
<1>4. ASSUME NEW t \in Tasks, ~Live(t) \/ t = i
      PROVE  /\ ~Live(t)' /\ FiberType(fiber'[t])
             /\ fiber'[t].stack = <<>> /\ fiber'[t].active = <<>>
  <2>1. CASE t = i
    BY <2>1 DEF Leaves, Live
  <2>2. CASE t # i
    BY <1>4, <2>2 DEF Leaves, Live, IInv, Types, Stacks
  <2> QED
    BY <2>1, <2>2
<1>5. \A t \in Tasks : FiberType(fiber'[t])
  BY <1>3, <1>4 DEF Stays
<1>6. \A t \in Tasks : Live(t)' <=> Live(t) /\ t # i
  BY <1>3, <1>4
<1>7. Stacks'
  <2>1. ASSUME NEW t \in Tasks
        PROVE  IF Live(t)'
               THEN Stacked(t, fiber'[t].stack, fiber'[t].active) /\ fiber'[t].kind = fiber[t].kind
               ELSE fiber'[t].stack = <<>> /\ fiber'[t].active = <<>>
    BY <1>3, <1>4 DEF Stays
  <2>2. fiber'[Root].kill = FALSE
    BY <1>3 DEF Stays, IInv, Tree, Live
  <2>3. \A t : /\ Stacked(t, fiber'[t].stack, fiber'[t].active)
                /\ fiber'[t].kind = fiber[t].kind
                => Stacked(t, fiber[t].stack, fiber[t].active)'
    BY DEF Stacked, Having, Frames
  <2> QED
    BY <2>1, <2>2, <2>3 DEF Stacks
<1>8. Tree'
  <2>1. Live(Root)'
    BY <1>6 DEF IInv, Tree, Live
  <2>2. ASSUME NEW t \in Tasks \ {Root}, Live(t)'
        PROVE  Live(fiber[t].parent)' /\ fiber'[t].parent # t
    <3>1. Live(t) /\ t # i
      BY <1>6, <2>2
    <3>2. PICK q \in Tasks : q = fiber[t].parent /\ Live(q) /\ q # t /\ q # i
      BY <1>2, <3>1 DEF IInv, Tree, Live
    <3>3. fiber'[t].parent = q
      BY <1>3, <3>1, <3>2 DEF Stays
    <3>4. Live(q)'
      BY <1>6, <3>2
    <3> QED
      BY <3>2, <3>3, <3>4 DEF Live
  <2> QED
    BY <2>1, <2>2 DEF Tree
<1>9. Filters'
  <2> SUFFICES ASSUME NEW t \in Tasks, Live(t)'
               PROVE  IF fiber'[t].kind = "filter"
                      THEN /\ t \in 1 .. AppTasks - 1
                           /\ fiber'[t].filter = fiber'[t].parent
                           /\ fiber'[fiber'[t].parent].filter = t
                           /\ fiber'[fiber'[t].parent].kind # "filter"
                      ELSE fiber'[t].filter # t =>
                           /\ Live(fiber[t].filter)'
                           /\ fiber'[fiber'[t].filter].kind = "filter"
                           /\ fiber'[fiber'[t].filter].parent = t
    BY DEF Filters
  <2>1. Live(t) /\ t # i /\ Stays(i, t, fiber'[t])
    BY <1>3, <1>6
  <2>2. CASE fiber[t].kind = "filter"
    <3>1. /\ t \in 1 .. AppTasks - 1 /\ t # Root
          /\ fiber[t].filter = fiber[t].parent
          /\ fiber[fiber[t].parent].filter = t
          /\ fiber[fiber[t].parent].kind # "filter"
      BY <2>1, <2>2, Numbers DEF IInv, Filters
    <3>2. PICK q \in Tasks : q = fiber[t].parent /\ Live(q) /\ q # i
      BY <1>2, <2>1, <3>1 DEF IInv, Tree, Live
    <3>3. ~(fiber[i].kind = "filter" /\ q = p)
      <4>1. fiber[i].kind = "filter" => fiber[p].filter = i
        BY <1>1 DEF IInv, Filters
      <4> QED
        BY <2>1, <3>1, <3>2, <4>1
    <3>4. fiber'[q].filter = t /\ fiber'[q].kind # "filter"
      BY <1>1, <1>3, <3>1, <3>2, <3>3 DEF Stays
    <3>5. ~(fiber[i].kind = "filter" /\ t = p)
      <4>1. fiber[i].kind = "filter" => fiber[p].kind # "filter"
        BY <1>1 DEF IInv, Filters
      <4> QED
        BY <2>2, <4>1
    <3>6. fiber'[t].filter = q /\ fiber'[t].parent = q /\ fiber'[t].kind = "filter"
      BY <1>1, <2>1, <2>2, <3>1, <3>2, <3>5 DEF Stays
    <3> QED
      BY <3>1, <3>4, <3>6
  <2>3. CASE fiber[t].kind # "filter"
    <3>1. fiber'[t].kind # "filter"
      BY <2>1, <2>3 DEF Stays
    <3> SUFFICES ASSUME fiber'[t].filter # t
                 PROVE  /\ Live(fiber[t].filter)'
                        /\ fiber'[fiber'[t].filter].kind = "filter"
                        /\ fiber'[fiber'[t].filter].parent = t
      BY <3>1
    <3>2. fiber'[t].filter = fiber[t].filter /\ ~(fiber[i].kind = "filter" /\ t = p)
      BY <1>1, <2>1 DEF Stays
    <3>3. PICK u \in Tasks : /\ u = fiber[t].filter /\ Live(u)
                             /\ fiber[u].kind = "filter" /\ fiber[u].parent = t
      BY <2>1, <2>3, <3>2 DEF IInv, Filters, Live
    <3>4. u # i
      BY <1>1, <3>2, <3>3
    <3>5. Live(u)' /\ fiber'[u].kind = "filter" /\ fiber'[u].parent = t
      BY <1>3, <3>3, <3>4 DEF Stays
    <3> QED
      BY <3>2, <3>3, <3>5 DEF Live
  <2> QED
    BY <2>2, <2>3
<1>10. FiltersStay
  BY <1>3, <1>6 DEF FiltersStay, Stays
<1> QED
  BY <1>5, <1>6, <1>7, <1>8, <1>9, <1>10

\* Of the jobs of a task that ends, an input filter's messages go to its
\* server, jobs that are waited for to who waits, and the others are deleted.
Passed(i, j) == fiber[i].kind = "filter" /\ In(j, i, "queue") /\ job[j].kind = "msg"
Kept(i, j)   == In(j, i, "active") /\ Recipient(i, j) # None
Gone(i, j)   == \/ In(j, i, "queue") /\ ~Passed(i, j)
                \/ In(j, i, "done")
                \/ In(j, i, "active") /\ ~Kept(i, j)

HandsOver(i) ==
    /\ queue' \in [Tasks -> Seq(Jobs)] /\ done' \in [Tasks -> Seq(Jobs)]
    /\ DOMAIN job' = Jobs
    /\ \A t \in Tasks, j \in Jobs :
         /\ In(j, t, "queue")' <=>
              t # i /\ (In(j, t, "queue") \/ (t = fiber[i].parent /\ Passed(i, j)))
         /\ In(j, t, "done")' <=>
              t # i /\ (In(j, t, "done") \/ (Kept(i, j) /\ Recipient(i, j) = t))
    /\ \A t \in Tasks : /\ Distinct(queue'[t]) /\ Distinct(done'[t])
                        /\ Sorted(job, queue'[t])
    /\ \A j \in Jobs :
         IF job[j] = NoJob \/ Gone(i, j) THEN job'[j] = NoJob
         ELSE /\ job'[j] # NoJob /\ JobType(job'[j])
              /\ job'[j].kind = job[j].kind /\ job'[j].arg = job[j].arg
              /\ job'[j].by = (IF job[j].by = i THEN None ELSE job[j].by)
              /\ job'[j].flags = (IF Kept(i, j) THEN job[j].flags \cup {"done"}
                                  ELSE job[j].flags)

LEMMA HandedIs ==
    ASSUME IInv, NEW i \in Tasks, NEW moved, moved = Handed(i)
    PROVE  /\ moved \in Seq(Jobs) /\ Distinct(moved) /\ Sorted(job, moved)
           /\ \A j : InList(j, moved) <=> Passed(i, j)
<1>1. PICK q \in Seq(Jobs) : q = queue[i]
  BY DEF IInv, Types
<1>2. Distinct(q) /\ Sorted(job, q) /\ \A j : InList(j, q) <=> In(j, i, "queue")
  <2>1. Distinct(Held(i, "queue"))
    BY DEF IInv, OnePlace, ListKinds
  <2>2. Sorted(job, q)
    BY <1>1 DEF IInv, InOrder
  <2> QED
    BY <1>1, <2>1, <2>2, HeldIs DEF In
<1>3. CASE fiber[i].kind = "filter"
  <2>1. PICK S : S = {j \in ToSet(q) : job[j].kind = "msg"}
    OBVIOUS
  <2>2. moved = Only(q, S)
    BY <1>1, <1>3, <2>1 DEF Handed, Messages
  <2>3. \A j : InList(j, q) /\ j \in S <=> InList(j, q) /\ job[j].kind = "msg"
    BY <2>1, InSet
  <2>4. /\ Only(q, S) \in Seq(Jobs)
        /\ \A j : InList(j, Only(q, S)) <=> InList(j, q) /\ j \in S
        /\ Distinct(Only(q, S)) /\ Sorted(job, Only(q, S))
    BY <1>2, ListOnly
  <2> QED
    BY <1>2, <1>3, <2>2, <2>3, <2>4 DEF Passed
<1>4. CASE fiber[i].kind # "filter"
  <2>1. moved = <<>> /\ DOMAIN <<>> = {} /\ <<>> \in Seq(Jobs)
    BY <1>4 DEF Handed
  <2> QED
    BY <1>4, <2>1 DEF Distinct, Sorted, InList, Passed
<1> QED
  BY <1>3, <1>4

LEMMA HandsOverIs ==
    ASSUME IInv, NEW i \in Tasks \ {Root}, Live(i), NEW base, Finish(i, base)
    PROVE  HandsOver(i)
<1> DEFINE f    == fiber[i]
           M    == Handed(i)
           kept == {j \in ToSet(f.active) : Recipient(i, j) # None}
           gone == (ToSet(queue[i]) \ ToSet(M)) \cup ToSet(done[i])
                   \cup (ToSet(f.active) \ kept)
           For(t) == {j \in kept : Recipient(i, j) = t}
<1>1. /\ queue' = [t \in Tasks |-> IF t = i THEN <<>>
                                   ELSE IF t = f.parent THEN queue[t] \o M ELSE queue[t]]
      /\ done' = [t \in Tasks |-> IF t = i THEN <<>> ELSE done[t] \o Only(f.active, For(t))]
      /\ job' = [j \in Jobs |->
             IF j \in gone THEN NoJob
             ELSE IF job[j] = NoJob THEN NoJob
             ELSE [job[j] EXCEPT !.by = IF @ = i THEN None ELSE @,
                                 !.flags = IF j \in kept THEN @ \cup {"done"} ELSE @]]
  BY DEF Finish
<1>2. PICK p \in Tasks : p = fiber[i].parent /\ Live(p) /\ p # i
  BY DEF IInv, Tree, Live
<1>3. PICK moved \in Seq(Jobs) : moved = M
  BY HandedIs
<1>4. /\ Distinct(moved) /\ Sorted(job, moved)
      /\ \A j : InList(j, moved) <=> Passed(i, j)
  BY <1>3, HandedIs
<1>5. PICK act \in Seq(Jobs) : act = f.active
  BY DEF IInv, Types, FiberType
<1>6. /\ queue \in [Tasks -> Seq(Jobs)] /\ done \in [Tasks -> Seq(Jobs)]
      /\ DOMAIN job = Jobs /\ \A j \in Jobs : job[j] = NoJob \/ JobType(job[j])
  BY DEF IInv, Types
<1>7. \A j : /\ j \in ToSet(act) <=> In(j, i, "active")
             /\ j \in ToSet(queue[i]) <=> In(j, i, "queue")
             /\ j \in ToSet(done[i]) <=> In(j, i, "done")
             /\ j \in ToSet(moved) <=> Passed(i, j)
  BY <1>4, <1>5, <1>6, InSet, HeldIs DEF In
<1>8. \A j : j \in kept <=> Kept(i, j)
  BY <1>5, <1>7 DEF Kept
<1>9. \A j : j \in gone <=> Gone(i, j)
  <2>1. \A j : j \in gone <=> \/ j \in ToSet(queue[i]) /\ j \notin ToSet(moved)
                              \/ j \in ToSet(done[i])
                              \/ j \in ToSet(act) /\ j \notin kept
    BY <1>3, <1>5
  <2> HIDE DEF gone, kept
  <2> QED
    BY <1>7, <1>8, <2>1 DEF Gone
<1>10. \A t, j : j \in For(t) <=> Kept(i, j) /\ Recipient(i, j) = t
  BY <1>8
<1> HIDE DEF gone, kept, M, For
<1>11. \A j : ~InList(j, <<>>)
  <2>1. DOMAIN <<>> = {}
    OBVIOUS
  <2> QED
    BY <2>1 DEF InList
<1>12. /\ <<>> \in Seq(Jobs) /\ Distinct(<<>>) /\ Sorted(job, <<>>)
  <2>1. DOMAIN <<>> = {} /\ <<>> \in Seq(Jobs)
    OBVIOUS
  <2> QED
    BY <2>1 DEF Distinct, Sorted
<1>13. ASSUME NEW t \in Tasks
       PROVE  /\ queue'[t] \in Seq(Jobs) /\ Distinct(queue'[t]) /\ Sorted(job, queue'[t])
              /\ \A j : InList(j, queue'[t]) <=>
                    t # i /\ (In(j, t, "queue") \/ (t = p /\ Passed(i, j)))
  <2>1. PICK q \in Seq(Jobs) : q = queue[t]
    BY <1>6
  <2>2. Distinct(q) /\ Sorted(job, q) /\ \A j : InList(j, q) <=> In(j, t, "queue")
    <3>1. Distinct(Held(t, "queue"))
      BY DEF IInv, OnePlace, ListKinds
    <3>2. Sorted(job, q)
      BY <2>1 DEF IInv, InOrder
    <3> QED
      BY <2>1, <3>1, <3>2, HeldIs DEF In
  <2>3. CASE t = i
    <3>1. queue'[t] = <<>>
      BY <1>1, <2>3
    <3> QED
      BY <1>11, <1>12, <2>3, <3>1
  <2>4. CASE t # i /\ t # p
    <3>1. queue'[t] = q
      BY <1>1, <1>2, <2>1, <2>4
    <3> QED
      BY <2>2, <2>4, <3>1
  <2>5. CASE t = p
    <3>1. queue'[t] = q \o moved
      BY <1>1, <1>2, <1>3, <2>1, <2>5
    <3>2. ASSUME NEW j, InList(j, q), InList(j, moved) PROVE FALSE
      <4>1. j \in Jobs
        BY <3>2, ListedJob
      <4>2. In(j, t, "queue") /\ In(j, i, "queue")
        BY <1>4, <2>2, <3>2 DEF Passed
      <4> QED
        BY <1>2, <2>5, <4>1, <4>2 DEF IInv, OnePlace, ListKinds
    <3>3. ASSUME NEW a, NEW b, InList(a, q), InList(b, moved) PROVE Older(job, a, b)
      <4>1. a \in Jobs /\ b \in Jobs
        BY <3>3, ListedJob
      <4>2. In(a, p, "queue") /\ In(b, i, "queue") /\ fiber[i].kind = "filter"
        BY <1>4, <2>2, <2>5, <3>3 DEF Passed
      <4> QED
        BY <1>2, <4>1, <4>2 DEF IInv, InOrder
    <3>4. /\ q \o moved \in Seq(Jobs)
          /\ \A j : InList(j, q \o moved) <=> InList(j, q) \/ InList(j, moved)
          /\ Distinct(q \o moved) /\ Sorted(job, q \o moved)
      BY <1>4, <2>2, <3>2, <3>3, ListConcat
    <3> QED
      BY <1>2, <1>4, <2>2, <2>5, <3>1, <3>4
  <2> QED
    BY <2>3, <2>4, <2>5
<1>14. ASSUME NEW t \in Tasks
       PROVE  /\ done'[t] \in Seq(Jobs) /\ Distinct(done'[t])
              /\ \A j : InList(j, done'[t]) <=>
                    t # i /\ (In(j, t, "done") \/ (Kept(i, j) /\ Recipient(i, j) = t))
  <2>1. PICK q \in Seq(Jobs) : q = done[t]
    BY <1>6
  <2>2. Distinct(q) /\ \A j : InList(j, q) <=> In(j, t, "done")
    <3>1. Distinct(Held(t, "done"))
      BY DEF IInv, OnePlace, ListKinds
    <3> QED
      BY <2>1, <3>1, HeldIs DEF In
  <2>3. CASE t = i
    <3>1. done'[t] = <<>>
      BY <1>1, <2>3
    <3> QED
      BY <1>11, <1>12, <2>3, <3>1
  <2>4. CASE t # i
    <3>1. PICK S : S = For(t)
      OBVIOUS
    <3>2. Distinct(act)
      <4>1. Distinct(Held(i, "active"))
        BY DEF IInv, OnePlace, ListKinds
      <4> QED
        BY <1>5, <4>1, HeldIs
    <3>3. PICK z \in Seq(Jobs) : z = Only(act, S)
      BY ListOnly
    <3>4. Distinct(z) /\ \A j : InList(j, z) <=> InList(j, act) /\ j \in S
      BY <3>2, <3>3, ListOnly
    <3>5. \A j : InList(j, z) <=> Kept(i, j) /\ Recipient(i, j) = t
      <4>1. \A j : InList(j, act) <=> In(j, i, "active")
        BY <1>5, HeldIs DEF In
      <4> QED
        BY <1>10, <3>1, <3>4, <4>1 DEF Kept
    <3>6. done'[t] = q \o z
      BY <1>1, <1>5, <2>1, <2>4, <3>1, <3>3
    <3>7. ASSUME NEW j, InList(j, q), InList(j, z) PROVE FALSE
      <4>1. j \in Jobs
        BY <3>7, ListedJob
      <4>2. In(j, t, "done") /\ In(j, i, "active")
        BY <2>2, <3>5, <3>7 DEF Kept
      <4> QED
        BY <2>4, <4>1, <4>2 DEF IInv, OnePlace, ListKinds
    <3>8. /\ q \o z \in Seq(Jobs) /\ Distinct(q \o z)
          /\ \A j : InList(j, q \o z) <=> InList(j, q) \/ InList(j, z)
      BY <2>2, <3>4, <3>7, ListConcat
    <3> QED
      BY <2>2, <2>4, <3>5, <3>6, <3>8
  <2> QED
    BY <2>3, <2>4
<1>15. ASSUME NEW j \in Jobs
       PROVE  IF job[j] = NoJob \/ Gone(i, j) THEN job'[j] = NoJob
              ELSE /\ job'[j] # NoJob /\ JobType(job'[j])
                   /\ job'[j].kind = job[j].kind /\ job'[j].arg = job[j].arg
                   /\ job'[j].by = (IF job[j].by = i THEN None ELSE job[j].by)
                   /\ job'[j].flags = (IF Kept(i, j) THEN job[j].flags \cup {"done"}
                                       ELSE job[j].flags)
  <2>1. CASE job[j] = NoJob \/ Gone(i, j)
    BY <1>1, <1>9, <2>1
  <2>2. CASE ~(job[j] = NoJob \/ Gone(i, j))
    <3>1. PICK r : r = job[j] /\ JobType(r)
      BY <1>6, <2>2
    <3>2. PICK by : by = IF r.by = i THEN None ELSE r.by
      OBVIOUS
    <3>3. PICK fl : fl = IF j \in kept THEN r.flags \cup {"done"} ELSE r.flags
      OBVIOUS
    <3>4. job'[j] = [r EXCEPT !.by = by, !.flags = fl]
      BY <1>1, <1>9, <2>2, <3>1, <3>2, <3>3
    <3>5. by \in Tasks \cup {None}
      BY <3>1, <3>2 DEF JobType
    <3>6. PICK g : g = [r EXCEPT !.by = by, !.flags = fl]
      OBVIOUS
    <3>7. /\ DOMAIN g = JobFields /\ g.kind = r.kind /\ g.arg = r.arg /\ g.by = by
          /\ g.flags = fl /\ g.master = r.master
      BY <3>1, <3>6 DEF JobType, JobFields
    <3>8. JobType(g)
      BY <3>1, <3>5, <3>7 DEF JobType
    <3>9. g # NoJob
      BY <3>8 DEF JobType, NoJob
    <3>10. fl = IF Kept(i, j) THEN r.flags \cup {"done"} ELSE r.flags
      BY <1>8, <3>3
    <3> QED
      BY <2>2, <3>1, <3>2, <3>4, <3>6, <3>7, <3>8, <3>9, <3>10
  <2> QED
    BY <2>1, <2>2
<1>16. /\ queue' \in [Tasks -> Seq(Jobs)] /\ done' \in [Tasks -> Seq(Jobs)]
       /\ DOMAIN job' = Jobs
  <2>1. DOMAIN queue' = Tasks /\ DOMAIN done' = Tasks /\ DOMAIN job' = Jobs
    BY <1>1
  <2>2. queue' = [t \in Tasks |-> queue'[t]] /\ done' = [t \in Tasks |-> done'[t]]
    BY <1>1
  <2> QED
    BY <1>13, <1>14, <2>1, <2>2
<1>17. \A t \in Tasks, j \in Jobs :
         /\ In(j, t, "queue")' <=>
              t # i /\ (In(j, t, "queue") \/ (t = fiber[i].parent /\ Passed(i, j)))
         /\ In(j, t, "done")' <=>
              t # i /\ (In(j, t, "done") \/ (Kept(i, j) /\ Recipient(i, j) = t))
  <2>1. ASSUME NEW t \in Tasks, NEW j \in Jobs
        PROVE  /\ In(j, t, "queue")' <=> InList(j, queue'[t])
               /\ In(j, t, "done")' <=> InList(j, done'[t])
    <3>1. Held(t, "queue")' = queue'[t] /\ Held(t, "done")' = done'[t]
      BY HeldIs
    <3> QED
      BY <3>1 DEF In, InList
  <2> QED
    BY <1>2, <1>13, <1>14, <2>1
<1> QED
  BY <1>13, <1>14, <1>15, <1>16, <1>17 DEF HandsOver

\* finish_guest of a task that has run its end callback and has no children.
LEMMA FinishFine ==
    ASSUME IInv, NEW i \in Tasks \ {Root}, Live(i), ~fiber[i].cb, Children(i) = {},
           NEW base, Before(base), Finish(i, base), Apart
    PROVE  Fine
<1>1. Leaves(i)
  BY LeavesIs
<1>2. /\ \A t \in Tasks : FiberType(fiber'[t])
      /\ Stacks' /\ Tree' /\ Filters' /\ FiltersStay
      /\ \A t \in Tasks : Live(t)' <=> Live(t) /\ t # i
  BY <1>1, LeavesTree
<1>3. HandsOver(i)
  BY HandsOverIs
<1>4. PICK p \in Tasks : p = fiber[i].parent /\ Live(p) /\ p # i
  BY DEF IInv, Tree, Live
<1>5. Rest
  BY ClockIs
<1>6. \A j \in Jobs, t, u \in Tasks, w, v \in ListKinds :
         In(j, t, w) /\ In(j, u, v) => t = u /\ w = v
  BY DEF IInv, OnePlace
<1>7. "queue" \in ListKinds /\ "done" \in ListKinds /\ "active" \in ListKinds
  BY DEF ListKinds
<1>8. \A j \in Jobs, t \in Tasks, w \in ListKinds : In(j, t, w) =>
         /\ Live(t) /\ job[j] # NoJob
         /\ w = "done" <=> "done" \in job[j].flags
         /\ w = "active" => job[j].kind # "msg"
         /\ t = Root /\ w # "done" => "exit" \notin job[j].flags
  BY DEF IInv, Pooled
<1>9. ASSUME NEW j \in Jobs, NEW t \in Tasks
      PROVE  /\ In(j, t, "active")' <=> t # i /\ In(j, t, "active")
             /\ Distinct(Held(t, "active"))'
  <2>1. CASE t = i
    <3>1. Held(t, "active")' = <<>> /\ DOMAIN <<>> = {}
      BY <1>1, <2>1, HeldIs DEF Leaves
    <3> QED
      BY <2>1, <3>1 DEF In, InList, Distinct
  <2>2. CASE t # i
    <3>1. fiber'[t].active = fiber[t].active
      BY <1>1, <2>2 DEF Leaves, Stays
    <3>2. Held(t, "active")' = Held(t, "active")
      BY <3>1, HeldIs
    <3>3. Distinct(Held(t, "active"))
      BY <1>7 DEF IInv, OnePlace
    <3> QED
      BY <2>2, <3>2, <3>3 DEF In, InList, Distinct
  <2> QED
    BY <2>1, <2>2
<1>10. \A t \in Tasks, j \in Jobs :
         /\ In(j, t, "queue")' <=>
              t # i /\ (In(j, t, "queue") \/ (t = p /\ Passed(i, j)))
         /\ In(j, t, "done")' <=>
              t # i /\ (In(j, t, "done") \/ (Kept(i, j) /\ Recipient(i, j) = t))
  BY <1>3, <1>4 DEF HandsOver
<1>11. ASSUME NEW j \in Jobs, Kept(i, j)
       PROVE  /\ In(j, i, "active") /\ job[j] # NoJob /\ job[j].kind = "exe"
              /\ Recipient(i, j) \in Tasks \ {i} /\ Live(Recipient(i, j))
  <2>1. In(j, i, "active") /\ job[j] # NoJob /\ Recipient(i, j) # None
    BY <1>7, <1>8, <1>11 DEF Kept
  <2> QED
    BY <2>1, RecipientIs
\* Where a job is afterwards, and where it came from.
<1>12. ASSUME NEW j \in Jobs, NEW t \in Tasks, NEW w \in ListKinds, In(j, t, w)'
       PROVE  /\ t # i
              /\ \/ In(j, t, w)
                 \/ w = "queue" /\ t = p /\ Passed(i, j)
                 \/ w = "done" /\ t = Recipient(i, j) /\ Kept(i, j)
  BY <1>9, <1>10, <1>12 DEF ListKinds
<1>13. ASSUME NEW j \in Jobs, NEW t \in Tasks, NEW w \in ListKinds, In(j, t, w), t # i
       PROVE  In(j, t, w)' /\ ~Gone(i, j) /\ ~Kept(i, j) /\ ~Passed(i, j)
  <2>1. In(j, t, w)'
    BY <1>9, <1>10, <1>13 DEF ListKinds
  <2>2. \A v \in ListKinds : ~In(j, i, v)
    BY <1>6, <1>13
  <2> QED
    BY <1>7, <2>1, <2>2 DEF Gone, Kept, Passed
<1>14. ASSUME NEW j \in Jobs, Passed(i, j)
       PROVE  /\ In(j, i, "queue") /\ ~Gone(i, j) /\ ~Kept(i, j)
              /\ job[j].kind = "msg" /\ job[j].flags = {}
  <2>1. In(j, i, "queue") /\ job[j].kind = "msg"
    BY <1>14 DEF Passed
  <2>2. ~In(j, i, "done") /\ ~In(j, i, "active")
    BY <1>6, <1>7, <2>1
  <2> QED
    BY <1>14, <2>1, <2>2 DEF Gone, Kept, IInv, Pooled
<1>15. ASSUME NEW j \in Jobs, Kept(i, j) PROVE ~Gone(i, j) /\ ~Passed(i, j)
  <2>1. In(j, i, "active") /\ ~In(j, i, "done") /\ ~In(j, i, "queue")
    BY <1>6, <1>7, <1>11, <1>15
  <2> QED
    BY <1>15, <2>1 DEF Gone, Passed
<1>16. \A j \in Jobs :
         IF job[j] = NoJob \/ Gone(i, j) THEN job'[j] = NoJob
         ELSE /\ job'[j] # NoJob /\ JobType(job'[j])
              /\ job'[j].kind = job[j].kind /\ job'[j].arg = job[j].arg
              /\ job'[j].by = (IF job[j].by = i THEN None ELSE job[j].by)
              /\ job'[j].flags = (IF Kept(i, j) THEN job[j].flags \cup {"done"}
                                  ELSE job[j].flags)
  BY <1>3 DEF HandsOver
<1>17. OnePlace'
  <2>1. ASSUME NEW t \in Tasks, NEW w \in ListKinds PROVE Distinct(Held(t, w))'
    <3>1. CASE w = "active"
      <4>1. 101 \in Jobs
        BY Numbers
      <4> QED
        BY <1>9, <3>1, <4>1
    <3>2. CASE w # "active"
      <4>1. Distinct(queue'[t]) /\ Distinct(done'[t])
        BY <1>3 DEF HandsOver
      <4>2. Held(t, w)' = queue'[t] \/ Held(t, w)' = done'[t]
        BY <3>2, HeldIs DEF ListKinds
      <4> QED
        BY <4>1, <4>2 DEF Distinct
    <3> QED
      BY <3>1, <3>2
  <2>2. ASSUME NEW j \in Jobs, NEW t \in Tasks, NEW u \in Tasks,
               NEW w \in ListKinds, NEW v \in ListKinds, In(j, t, w)', In(j, u, v)'
        PROVE  t = u /\ w = v
    <3>1. CASE In(j, t, w) \/ In(j, u, v)
      <4>1. t # i /\ u # i /\ ~Kept(i, j) /\ ~Passed(i, j)
        BY <1>12, <1>13, <2>2, <3>1
      <4>2. In(j, t, w) /\ In(j, u, v)
        BY <1>12, <2>2, <4>1
      <4> QED
        BY <1>6, <4>2
    <3>2. CASE ~In(j, t, w) /\ ~In(j, u, v)
      BY <1>12, <1>14, <1>15, <2>2, <3>2
    <3> QED
      BY <3>1, <3>2
  <2> QED
    BY <2>1, <2>2 DEF OnePlace
<1>18. Pooled'
  <2>1. ASSUME NEW j \in Jobs, NEW t \in Tasks, NEW w \in ListKinds, In(j, t, w)'
        PROVE  /\ Live(t)' /\ job'[j] # NoJob
               /\ w = "done" <=> "done" \in job'[j].flags
               /\ w = "active" => job'[j].kind # "msg"
               /\ t = Root /\ w # "done" => "exit" \notin job'[j].flags
    <3>1. CASE In(j, t, w)
      <4>1. t # i /\ ~Gone(i, j) /\ ~Kept(i, j)
        BY <1>12, <1>13, <2>1, <3>1
      <4>2. Live(t) /\ job[j] # NoJob
        BY <1>8, <3>1
      <4>3. job'[j] # NoJob /\ job'[j].kind = job[j].kind /\ job'[j].flags = job[j].flags
        BY <1>16, <4>1, <4>2
      <4>4. Live(t)'
        BY <1>2, <4>1, <4>2
      <4> QED
        BY <1>8, <3>1, <4>3, <4>4
    <3>2. CASE w = "queue" /\ t = p /\ Passed(i, j)
      <4>1. ~Gone(i, j) /\ ~Kept(i, j) /\ job[j].flags = {} /\ In(j, i, "queue")
        BY <1>14, <3>2
      <4>2. job[j] # NoJob
        BY <1>7, <1>8, <4>1
      <4>3. job'[j] # NoJob /\ job'[j].flags = {}
        BY <1>16, <4>1, <4>2
      <4>4. Live(t)'
        BY <1>2, <1>4, <3>2
      <4> QED
        BY <3>2, <4>3, <4>4
    <3>3. CASE w = "done" /\ t = Recipient(i, j) /\ Kept(i, j)
      <4>1. ~Gone(i, j) /\ job[j] # NoJob /\ Live(t) /\ t # i
        BY <1>11, <1>15, <3>3
      <4>2. job'[j] # NoJob /\ job'[j].flags = job[j].flags \cup {"done"}
        BY <1>16, <3>3, <4>1
      <4>3. Live(t)'
        BY <1>2, <4>1
      <4> QED
        BY <3>3, <4>2, <4>3
    <3> QED
      BY <1>12, <2>1, <3>1, <3>2, <3>3
  <2>2. ASSUME NEW j \in Jobs, job'[j] # NoJob, job'[j].kind # "text"
        PROVE  \E t \in Tasks, w \in ListKinds : In(j, t, w)'
    <3>1. job[j] # NoJob /\ ~Gone(i, j) /\ job[j].kind # "text"
      BY <1>16, <2>2
    <3>2. PICK t \in Tasks, w \in ListKinds : In(j, t, w)
      BY <3>1 DEF IInv, Pooled
    <3>3. CASE t # i
      BY <1>13, <3>2, <3>3
    <3>4. CASE t = i
      <4>1. Passed(i, j) \/ Kept(i, j)
        BY <3>1, <3>2, <3>4 DEF Gone, ListKinds
      <4>2. CASE Passed(i, j)
        <5>1. In(j, p, "queue")'
          BY <1>4, <1>10, <4>2
        <5> QED
          BY <1>7, <5>1
      <4>3. CASE Kept(i, j)
        <5>1. PICK u \in Tasks \ {i} : u = Recipient(i, j)
          BY <1>11, <4>3
        <5>2. In(j, u, "done")'
          BY <1>10, <4>3, <5>1
        <5> QED
          BY <1>7, <5>2
      <4> QED
        BY <4>1, <4>2, <4>3
    <3> QED
      BY <3>3, <3>4
  <2>3. ASSUME NEW j \in Jobs, job'[j].kind = "msg"
        PROVE  job'[j].flags = {} /\ job'[j].arg \in 0 .. calls' - 1
    <3>1. job'[j] # NoJob
      BY <2>3 DEF NoJob
    <3>2. /\ job[j] # NoJob /\ job[j].kind = "msg" /\ job'[j].arg = job[j].arg
          /\ ~Kept(i, j) => job'[j].flags = job[j].flags
      BY <1>16, <2>3, <3>1
    <3>3. ~Kept(i, j)
      BY <1>11, <3>2
    <3>4. job[j].flags = {} /\ job[j].arg \in 0 .. calls - 1
      BY <3>2 DEF IInv, Pooled
    <3>5. calls \in Nat /\ calls' \in Nat /\ calls <= calls'
      BY <1>5, Numbers DEF Rest, IInv, Types
    <3> QED
      BY <3>2, <3>3, <3>4, <3>5
  <2> QED
    BY <2>1, <2>2, <2>3 DEF Pooled
<1>19. Reserved'
  <2> SUFFICES ASSUME NEW t \in Tasks
               PROVE  /\ OneEach(Having(fiber'[t].stack, "text"))
                      /\ \A j \in Jobs : Names(Having(fiber'[t].stack, "text"), j) =>
                           /\ job'[j].kind = "text" /\ job'[j].by = t /\ job'[j].flags = {}
                           /\ \A u \in Tasks, w \in ListKinds : ~In(j, u, w)'
    BY DEF Reserved
  <2>1. PICK x : x = Having(fiber'[t].stack, "text")
    OBVIOUS
  <2>2. x = <<>> \/ (t # i /\ x = Having(fiber[t].stack, "text"))
    <3>1. CASE t = i \/ ~Live(t)
      <4>1. fiber'[t].stack = <<>>
        BY <1>1, <3>1 DEF Leaves, IInv, Stacks
      <4>2. <<>> \in Seq(Frames)
        OBVIOUS
      <4>3. Having(<<>>, "text") = <<>>
        <5>1. PICK S : S = {fr \in Frames : fr.op = "text"}
          OBVIOUS
        <5>2. Only(<<>>, S) = <<>>
          BY <4>2, OnlyNone
        <5> QED
          BY <5>1, <5>2 DEF Having
      <4> QED
        BY <2>1, <4>1, <4>3
    <3>2. CASE t # i /\ Live(t)
      BY <1>1, <2>1, <3>2 DEF Leaves, Stays
    <3> QED
      BY <3>1, <3>2
  <2>3. CASE x = <<>>
    <3>1. DOMAIN <<>> = {}
      OBVIOUS
    <3> QED
      BY <2>1, <2>3, <3>1 DEF OneEach, Names
  <2>4. CASE t # i /\ x = Having(fiber[t].stack, "text")
    <3>1. OneEach(x)
      BY <2>4 DEF IInv, Reserved
    <3>2. ASSUME NEW j \in Jobs, Names(x, j)
          PROVE  /\ job'[j].kind = "text" /\ job'[j].by = t /\ job'[j].flags = {}
                 /\ \A u \in Tasks, w \in ListKinds : ~In(j, u, w)'
      <4>1. /\ job[j].kind = "text" /\ job[j].by = t /\ job[j].flags = {}
            /\ \A u \in Tasks, w \in ListKinds : ~In(j, u, w)
        BY <2>4, <3>2 DEF IInv, Reserved
      <4>2. job[j] # NoJob /\ ~Gone(i, j) /\ ~Kept(i, j) /\ ~Passed(i, j)
        BY <1>7, <4>1 DEF NoJob, Gone, Kept, Passed
      <4>3. job'[j].kind = "text" /\ job'[j].by = t /\ job'[j].flags = {}
        BY <1>16, <2>4, <4>1, <4>2
      <4>4. \A u \in Tasks, w \in ListKinds : ~In(j, u, w)'
        BY <1>12, <4>1, <4>2
      <4> QED
        BY <4>3, <4>4
    <3> QED
      BY <2>1, <3>1, <3>2
  <2> QED
    BY <2>2, <2>3, <2>4
<1>20. InOrder'
  <2>1. ASSUME NEW j \in Jobs, NEW t \in Tasks, In(j, t, "queue")'
        PROVE  job'[j].kind = job[j].kind /\ job'[j].arg = job[j].arg
    <3>1. job'[j] # NoJob
      BY <1>7, <1>18, <2>1 DEF Pooled
    <3> QED
      BY <1>16, <3>1
  <2>2. ASSUME NEW t \in Tasks PROVE Sorted(job, queue[t])'
    <3>1. PICK q \in Seq(Jobs) : q = queue'[t] /\ Sorted(job, q)
      BY <1>3 DEF HandsOver
    <3>2. \A k \in DOMAIN q : q[k] \in Jobs /\ In(q[k], t, "queue")'
      <4>1. Held(t, "queue")' = q
        BY <3>1, HeldIs
      <4> QED
        BY <4>1 DEF In, InList
    <3>3. \A k \in DOMAIN q : job'[q[k]].kind = job[q[k]].kind /\ job'[q[k]].arg = job[q[k]].arg
      BY <2>1, <3>2
    <3> QED
      BY <3>1, <3>3 DEF Sorted, Older
  <2>3. ASSUME NEW t \in Tasks, NEW a \in Jobs, NEW b \in Jobs,
               Live(t)', fiber'[t].kind = "filter",
               In(a, fiber[t].parent, "queue")', In(b, t, "queue")'
        PROVE  Older(job, a, b)'
    <3>1. Live(t) /\ fiber[t].kind = "filter" /\ fiber'[t].parent = fiber[t].parent /\ t # i
      BY <1>2, <2>3 DEF FiltersStay
    <3>2. PICK q \in Tasks : q = fiber[t].parent /\ fiber[q].filter = t /\ fiber[q].kind # "filter"
      BY <3>1, ServerIsTask DEF IInv
    <3>3. In(a, q, "queue")'
      BY <2>3, <3>1, <3>2 DEF In, Held
    <3>4. \A j \in Jobs : Passed(i, j) => p # q /\ p # t
      <4>1. fiber[i].kind = "filter" => fiber[p].filter = i /\ fiber[p].kind # "filter"
        BY <1>4 DEF IInv, Filters
      <4> QED
        BY <3>1, <3>2, <4>1 DEF Passed
    <3>5. In(a, q, "queue") /\ In(b, t, "queue")
      BY <1>10, <2>3, <3>3, <3>4
    <3>6. Older(job, a, b)
      BY <3>1, <3>2, <3>5 DEF IInv, InOrder
    <3>7. /\ job'[a].kind = job[a].kind /\ job'[a].arg = job[a].arg
          /\ job'[b].kind = job[b].kind /\ job'[b].arg = job[b].arg
      BY <2>1, <2>3, <3>3
    <3> QED
      BY <3>6, <3>7 DEF Older
  <2> QED
    BY <2>2, <2>3 DEF InOrder
<1>21. Harmless
  <2>1. ASSUME NEW t \in Tasks, Live(t), fiber'[t].state = "done" PROVE ~fiber[t].cb
    <3>1. t = i
      BY <1>2, <2>1 DEF Live
    <3> QED
      BY <3>1
  <2>2. ASSUME NEW t \in Tasks, NEW j \in Jobs, Live(t), fiber'[t].state = "run",
               fiber[t].wait = "job", fiber[t].target = j,
               NEW s \in Tasks, In(j, s, "active"),
               job[j].kind = "exe", "free" \notin job[j].flags
        PROVE  job'[j] # NoJob
    <3>1. job[j] # NoJob
      BY <1>7, <1>8, <2>2
    <3>2. t # i
      BY <1>1, <2>2 DEF Leaves
    <3>3. ~Gone(i, j)
      <4>1. CASE s # i
        BY <1>7, <1>13, <2>2, <4>1
      <4>2. CASE s = i
        <5>1. Recipient(i, j) # None
          BY <2>2, <3>1, <3>2, RecipientIs
        <5> QED
          BY <1>15, <2>2, <4>2, <5>1 DEF Kept
      <4> QED
        BY <4>1, <4>2
    <3> QED
      BY <1>16, <3>1, <3>3
  <2>3. ASSUME NEW t \in Tasks, NEW j \in Jobs, fiber[t].kind = "filter",
               In(j, t, "queue"), job[j].kind = "msg"
        PROVE  job'[j] # NoJob
    <3>1. job[j] # NoJob
      BY <1>7, <1>8, <2>3
    <3>2. ~Gone(i, j)
      <4>1. CASE t # i
        BY <1>7, <1>13, <2>3, <4>1
      <4>2. CASE t = i
        BY <1>14, <2>3, <4>2 DEF Passed
      <4> QED
        BY <4>1, <4>2
    <3> QED
      BY <1>16, <3>1, <3>2
  <2> QED
    BY <2>1, <2>2, <2>3 DEF Harmless
<1>22. /\ queue' \in [Tasks -> Seq(Jobs)] /\ done' \in [Tasks -> Seq(Jobs)]
       /\ DOMAIN job' = Jobs /\ \A j \in Jobs : job'[j] = NoJob \/ JobType(job'[j])
       /\ DOMAIN fiber' = Tasks
  BY <1>1, <1>3, <1>16 DEF HandsOver, Leaves
<1> QED
  BY <1>2, <1>5, <1>17, <1>18, <1>19, <1>20, <1>21, <1>22, FineParts

\* The consistency checks of finish_guest do not fire.
LEMMA TryFinishFine ==
    ASSUME IInv, NEW i \in Tasks \ {Root}, Live(i), ~fiber[i].cb, Children(i) = {},
           NEW base, Before(base), TryFinish(i, base), Clock
    PROVE  Fine
<1>1. Live(fiber[i].parent)
  BY DEF IInv, Tree
<1>2. Finish(i, base) /\ UNCHANGED <<current, serial, fail>>
  BY <1>1, Zenon DEF TryFinish
<1> QED
  BY <1>2, FinishFine DEF Apart

\* A task that is asked to end is only marked.
LEMMA AskedIs ==
    ASSUME IInv, NEW t \in Tasks \ {Root}, Live(t)
    PROVE  Calm(t, [fiber[t] EXCEPT !.kill = TRUE])
<1>1. PICK g : g = [fiber[t] EXCEPT !.kill = TRUE]
  OBVIOUS
<1>2. FiberType(fiber[t]) /\ fiber[t].state = "run"
  BY DEF IInv, Types, Live
<1>3. Nudged(t, g)
  BY <1>1, <1>2 DEF Nudged, FiberType, Fields
<1> QED
  BY <1>1, <1>3, CalmNudge

LEMMA KillTaskFine ==
    ASSUME IInv, Running, Clock, NEW t \in Tasks \ {Root}, Live(t), NEW wait,
           NEW cont, Like(cont), OnStack(current, Me.stack, cont.stack, Me.active),
           KillTask(t, wait, cont)
    PROVE  Fine
<1>1. current \in Tasks /\ Live(current) /\ Me = fiber[current] /\ DOMAIN fiber = Tasks
  BY MeIs DEF IInv, Types
<1> DEFINE base  == [fiber EXCEPT ![current] = cont]
           asked == [base EXCEPT ![t].kill = TRUE]
           waits == [cont EXCEPT !.stack =
                       <<FrameOn("kill", t, fiber[t].cb, fiber[t].num)>> \o @]
           Still == UNCHANGED <<jobVars, current, serial, fail>>
<1>2. \/ Fails("kill current or ancestor during job dispatch")
      \/ fiber' = base /\ Still
      \/ ~fiber[t].cb /\ Children(t) = {} /\ TryFinish(t, base)
      \/ Fails("kill with task teardown during job dispatch")
      \/ /\ fiber' = IF t = current THEN [fiber EXCEPT ![t] = Ended(@)]
                     ELSE IF wait THEN [asked EXCEPT ![current] = waits] ELSE asked
         /\ Still
  BY Zenon DEF KillTask
<1>3. Calm(current, cont)
  BY CalmMe
<1>4. PICK b : b = base
  OBVIOUS
<1>5. DOMAIN b = Tasks /\ b[current] = cont /\ \A u \in Tasks : u # current => b[u] = fiber[u]
  BY <1>1, <1>4
<1>6. Still => Rest /\ Apart /\ UNCHANGED jobVars
  BY ClockIs DEF Apart
<1>7. CASE Fails("kill current or ancestor during job dispatch")
  <2>1. PICK why : why = "kill current or ancestor during job dispatch"
    OBVIOUS
  <2>2. why \notin TreeFailures
    BY <2>1, Zenon DEF TreeFailures
  <2> QED
    BY <1>7, <2>1, <2>2, FailStep
<1>8. CASE fiber' = base /\ Still
  <2>1. Calmly
    BY <1>1, <1>3, <1>4, <1>5, <1>8 DEF Calmly
  <2> QED
    BY <1>6, <1>8, <2>1, CalmStep
<1>9. CASE ~fiber[t].cb /\ Children(t) = {} /\ TryFinish(t, base)
  <2>1. Before(b)
    BY <1>1, <1>3, <1>5 DEF Before
  <2>2. TryFinish(t, b)
    BY <1>4, <1>9
  <2> QED
    BY <1>9, <2>1, <2>2, TryFinishFine
<1>10. CASE Fails("kill with task teardown during job dispatch")
  <2>1. PICK why : why = "kill with task teardown during job dispatch"
    OBVIOUS
  <2>2. why \notin TreeFailures
    BY <2>1, Zenon DEF TreeFailures
  <2> QED
    BY <1>10, <2>1, <2>2, FailStep
<1>11. CASE /\ fiber' = IF t = current THEN [fiber EXCEPT ![t] = Ended(@)]
                        ELSE IF wait THEN [asked EXCEPT ![current] = waits] ELSE asked
            /\ Still
  <2>1. CASE t = current
    <3>1. fiber' = [fiber EXCEPT ![current] = Ended(Me)]
      BY <1>1, <1>11, <2>1
    <3>2. Quiet(Ended(Me))
      BY <1>6, <1>11, <3>1 DEF Quiet, SetMe
    <3>3. Like(Me) /\ Me.stack \in Seq(Frames)
      BY MeIs
    <3>4. PICK f : f = Me
      OBVIOUS
    <3> QED
      BY <2>1, <3>2, <3>3, <3>4, EndStep
  <2>2. CASE t # current
    <3>1. PICK a : a = [fiber[t] EXCEPT !.kill = TRUE]
      OBVIOUS
    <3>2. Calm(t, a)
      BY <3>1, AskedIs
    <3>3. PICK g : g = IF wait THEN waits ELSE cont
      OBVIOUS
    <3>4. /\ DOMAIN fiber' = Tasks /\ fiber'[t] = a /\ fiber'[current] = g
          /\ \A u \in Tasks : u # t /\ u # current => fiber'[u] = fiber[u]
      <4>1. /\ DOMAIN asked = Tasks /\ asked[t] = a /\ asked[current] = cont
            /\ \A u \in Tasks : u # t /\ u # current => asked[u] = fiber[u]
        <5>1. asked = [b EXCEPT ![t] = [b[t] EXCEPT !.kill = TRUE]]
          BY <1>4
        <5>2. b[t] = fiber[t]
          BY <1>5, <2>2
        <5>3. asked = [b EXCEPT ![t] = a]
          BY <3>1, <5>1, <5>2
        <5> HIDE DEF asked
        <5> QED
          BY <1>1, <1>5, <2>2, <5>3
      <4>2. PICK k : k = asked
        OBVIOUS
      <4>3. fiber' = IF wait THEN [k EXCEPT ![current] = waits] ELSE k
        BY <1>11, <2>2, <4>2
      <4>4. PICK v : v = waits
        OBVIOUS
      <4> HIDE DEF asked, waits
      <4> QED
        BY <1>1, <2>2, <3>3, <4>1, <4>2, <4>3, <4>4
    <3>5. Calm(current, g)
      <4>1. CASE ~wait
        BY <1>3, <3>3, <4>1
      <4>2. CASE wait
        <5>1. fiber[t].cb \in BOOLEAN /\ fiber[t].num \in Nat /\ "kill" \in HostOps
          BY DEF IInv, Types, FiberType, HostOps, FrameOps, Bottom
        <5>2. t \in Tasks \cup Jobs \cup {None}
          OBVIOUS
        <5>3. PICK fr \in Frames : /\ fr = FrameOn("kill", t, fiber[t].cb, fiber[t].num)
                                   /\ fr.op \notin Bottom \cup {"body", "text"}
          BY <5>1, <5>2, HostFrame
        <5>4. g = [cont EXCEPT !.stack = <<fr>> \o @]
          BY <3>3, <4>2, <5>3
        <5>5. Like(g) /\ g.stack = <<fr>> \o cont.stack
          BY <5>4 DEF Like, Fields
        <5>6. OnStack(current, Me.stack, <<fr>> \o cont.stack, Me.active)
          BY <5>3, OnPush
        <5>7. OnStack(current, Me.stack, g.stack, Me.active)
          BY <5>5, <5>6
        <5> QED
          BY <5>5, <5>7, CalmMe
      <4> QED
        BY <4>1, <4>2
    <3>6. Calmly
      BY <1>1, <3>2, <3>4, <3>5 DEF Calmly
    <3> QED
      BY <1>6, <1>11, <3>6, CalmStep
  <2> QED
    BY <2>1, <2>2
<1> QED
  BY <1>2, <1>7, <1>8, <1>9, <1>10, <1>11

LEMMA KillFine ==
    ASSUME IInv, Kill
    PROVE  Fine
<1>1. Running /\ Clock
  BY ClockIs DEF Kill
<1>2. PICK t \in Tasks, wait \in BOOLEAN : Live(t) /\ App(t) /\ KillTask(t, wait, Me)
  BY Zenon DEF Kill
<1>3. t \in Tasks \ {Root}
  BY <1>2 DEF App
<1>4. Like(Me) /\ OnStack(current, Me.stack, Me.stack, Me.active)
  BY <1>1, MeIs, OnSame
<1>5. PICK cont : cont = Me
  OBVIOUS
<1>6. /\ Like(cont) /\ OnStack(current, Me.stack, cont.stack, Me.active)
      /\ KillTask(t, wait, cont)
  BY <1>2, <1>4, <1>5
<1> QED
  BY <1>1, <1>2, <1>3, <1>6, KillTaskFine

LEMMA ExitRequestedFine ==
    ASSUME IInv, ExitRequested
    PROVE  Fine
<1>1. Running /\ Clock /\ Top.op = "exit"
  BY ClockIs DEF ExitRequested
<1>2. Top \in Frames /\ Top.op \notin Bottom \cup {"body", "text"}
  BY <1>1, MeIs DEF Bottom
<1>3. PICK t \in Tasks \ {Root} : t = Top.on
  BY <1>1, <1>2 DEF Frames
<1>4. CASE Live(t)
  <2>1. KillTask(t, TRUE, Popped)
    BY <1>3, <1>4, Zenon DEF ExitRequested
  <2>2. PICK cont : cont = Popped
    OBVIOUS
  <2>3. Like(cont) /\ cont.stack = Tail(Me.stack)
    BY <1>1, <2>2, PoppedIs
  <2>4. OnStack(current, Me.stack, Tail(Me.stack), Me.active)
    <3>1. Stacked(current, Me.stack, Me.active)
      BY <1>1, MeIs
    <3> QED
      BY <1>2, <3>1, OnSame, OnPop DEF Top
  <2>5. OnStack(current, Me.stack, cont.stack, Me.active)
    BY <2>3, <2>4
  <2>6. KillTask(t, TRUE, cont)
    BY <2>1, <2>2
  <2> QED
    BY <1>1, <1>4, <2>3, <2>5, <2>6, KillTaskFine
<1>5. CASE ~Live(t)
  <2>1. Return
    BY <1>3, <1>5, Zenon DEF ExitRequested
  <2> QED
    BY <1>1, <1>2, <2>1, PopFine
<1> QED
  BY <1>4, <1>5

LEMMA TeardownFine ==
    ASSUME IInv, Teardown
    PROVE  Fine
<1>1. Running /\ Clock /\ Top.op = "teardown"
  BY ClockIs DEF Teardown
<1>2. current \in Tasks /\ Live(current) /\ Me = fiber[current] /\ DOMAIN fiber = Tasks
  BY <1>1, MeIs DEF IInv, Types
<1>3. current # Root
  <2>1. Stacked(current, Me.stack, Me.active) /\ Head(Me.stack).op = "teardown"
    BY <1>1, MeIs DEF Top
  <2>2. "teardown" \in Bottom
    BY DEF Bottom
  <2> QED
    BY <2>1, <2>2, StackTop
<1>4. CASE Me.cb
  <2>1. /\ SetMe([Pushed(Frame("callback")) EXCEPT !.cb = FALSE])
        /\ UNCHANGED <<jobVars, current, serial, fail>>
    BY <1>4, Zenon DEF Teardown
  <2>2. "callback" \in HostOps
    BY DEF HostOps, FrameOps, Bottom
  <2>3. PICK fr \in Frames : fr = Frame("callback") /\ fr.op \notin Bottom \cup {"body", "text"}
    BY <2>2, HostFrame
  <2>4. PICK g : g = [Pushed(fr) EXCEPT !.cb = FALSE]
    OBVIOUS
  <2>5. Like(g) /\ g.stack = <<fr>> \o Me.stack
    BY <1>1, <2>4, MeIs DEF Pushed, Like, Fields
  <2>6. Quiet(g)
    BY <1>1, <2>1, <2>3, <2>4 DEF Quiet, Apart
  <2> QED
    BY <1>1, <2>3, <2>5, <2>6, PushStep
<1>5. CASE ~Me.cb /\ Children(current) # {}
  <2>1. /\ fiber' = [t \in Tasks |->
                 IF t = current THEN Pushed(Frame("yield"))
                 ELSE IF t \in Children(current) /\ ~fiber[t].ending
                 THEN [fiber[t] EXCEPT !.kill = TRUE] ELSE fiber[t]]
        /\ UNCHANGED <<jobVars, current, serial, fail>>
    BY <1>5, Zenon DEF Teardown
  <2>2. "yield" \in HostOps
    BY DEF HostOps, FrameOps, Bottom
  <2>3. PICK fr \in Frames : fr = Frame("yield") /\ fr.op \notin Bottom \cup {"body", "text"}
    BY <2>2, HostFrame
  <2>4. PICK g : g = Pushed(fr)
    OBVIOUS
  <2>5. Like(g) /\ g.stack = <<fr>> \o Me.stack
    BY <1>1, <2>4, MeIs DEF Pushed, Like, Fields
  <2>6. OnStack(current, Me.stack, <<fr>> \o Me.stack, Me.active)
    <3>1. Stacked(current, Me.stack, Me.active)
      BY <1>1, MeIs
    <3> QED
      BY <2>3, <3>1, OnSame, OnPush
  <2>7. Calm(current, g)
    BY <1>1, <2>5, <2>6, CalmMe
  <2>8. DOMAIN fiber' = Tasks /\ fiber'[current] = g
    BY <1>2, <2>1, <2>3, <2>4
  <2>9. ASSUME NEW t \in Tasks, t # current
        PROVE  fiber'[t] = fiber[t] \/ (Live(t) /\ Calm(t, fiber'[t]))
    <3>1. CASE t \in Children(current) /\ ~fiber[t].ending
      <4>1. fiber'[t] = [fiber[t] EXCEPT !.kill = TRUE]
        BY <2>1, <2>9, <3>1
      <4>2. t \in Tasks \ {Root} /\ Live(t)
        BY <3>1 DEF Children
      <4> QED
        BY <4>1, <4>2, AskedIs
    <3>2. CASE ~(t \in Children(current) /\ ~fiber[t].ending)
      BY <2>1, <2>9, <3>2
    <3> QED
      BY <3>1, <3>2
  <2>10. Calmly
    BY <1>2, <2>7, <2>8, <2>9 DEF Calmly
  <2>11. Rest /\ UNCHANGED jobVars
    BY <1>1, <2>1, ClockIs DEF Apart
  <2> QED
    BY <2>10, <2>11, CalmStep
<1>6. CASE ~Me.cb /\ Children(current) = {}
  <2>1. TryFinish(current, fiber)
    BY <1>6, Zenon DEF Teardown
  <2>2. PICK i \in Tasks \ {Root} : i = current
    BY <1>2, <1>3
  <2>3. PICK base : base = fiber
    OBVIOUS
  <2>4. TryFinish(i, base) /\ Before(base)
    BY <1>2, <2>1, <2>2, <2>3 DEF Before
  <2>5. Live(i) /\ ~fiber[i].cb /\ Children(i) = {}
    BY <1>2, <1>6, <2>2
  <2> QED
    BY <1>1, <2>4, <2>5, TryFinishFine
<1> QED
  BY <1>4, <1>5, <1>6

-----------------------------------------------------------------------------
(* The specification keeps the invariant *)

LEMMA Starts ==
    ASSUME Init
    PROVE  IInv
<1>1. PICK fr \in Frames : fr = Frame("entry") /\ fr.op = "entry"
  <2>1. "entry" \in FrameOps /\ None \in Tasks \cup Jobs \cup {None}
    BY DEF FrameOps
  <2>2. Frame("entry") \in Frames /\ Frame("entry").op = "entry"
    BY <2>1, FrameTyped
  <2> QED
    BY <2>2
<1>2. Root \in Tasks /\ None \notin Tasks /\ DOMAIN fiber = Tasks
  BY Numbers DEF Init
<1>18. PICK zero \in Nat : zero = 0
  OBVIOUS
<1>3. PICK b : b = NewFiber(Root, None, "root", 0)
  OBVIOUS
<1>4. PICK r : r = [b EXCEPT !.stack = <<fr>>, !.started = TRUE]
  OBVIOUS
<1>5. fiber[Root] = r
  BY <1>1, <1>2, <1>3, <1>4 DEF Init
<1>6. /\ DOMAIN r = Fields /\ r.state = "run" /\ r.kind = "root" /\ r.parent = None
      /\ r.filter = Root /\ r.num = zero /\ r.stack = <<fr>> /\ r.active = <<>>
      /\ r.target = None /\ r.cb = FALSE /\ r.idle = FALSE /\ r.kill = FALSE
  <2>1. /\ DOMAIN b = Fields /\ b.state = "run" /\ b.kind = "root" /\ b.parent = None
        /\ b.filter = Root /\ b.num = zero /\ b.active = <<>>
        /\ b.target = None /\ b.cb = FALSE /\ b.idle = FALSE /\ b.kill = FALSE
    BY <1>3, <1>18 DEF NewFiber, Unused, Fields
  <2> QED
    BY <1>4, <2>1 DEF Fields
<1>7. <<fr>> \in Seq(Frames) /\ <<>> \in Seq(Jobs)
  OBVIOUS
<1>8. FiberType(r)
  BY <1>2, <1>6, <1>7 DEF FiberType
<1>9. ASSUME NEW t \in Tasks, t # Root
      PROVE  /\ FiberType(fiber[t]) /\ ~Live(t)
             /\ fiber[t].stack = <<>> /\ fiber[t].active = <<>>
  <2>1. PICK u : u = Unused
    OBVIOUS
  <2>2. fiber[t] = u
    BY <1>9, <2>1 DEF Init
  <2>3. /\ DOMAIN u = Fields /\ u.state = "unused" /\ u.parent = None
        /\ u.filter = None /\ u.num = zero /\ u.stack = <<>> /\ u.active = <<>>
        /\ u.target = None /\ u.cb = FALSE /\ u.idle = FALSE
    BY <1>18, <2>1 DEF Unused, Fields
  <2>4. u.stack \in Seq(Frames)
    BY <2>3
  <2>5. u.active \in Seq(Jobs)
    BY <2>3
  <2>6. FiberType(u)
    BY <2>3, <2>4, <2>5 DEF FiberType
  <2> QED
    BY <2>2, <2>3, <2>6 DEF Live
<1>10. Live(Root)
  BY <1>2, <1>5, <1>6 DEF Live
<1>11. \A t \in Tasks : Live(t) => t = Root
  BY <1>9
<1>12. Types
  <2>1. /\ queue \in [Tasks -> Seq(Jobs)] /\ done \in [Tasks -> Seq(Jobs)]
        /\ DOMAIN job = Jobs /\ \A j \in Jobs : job[j] = NoJob
    BY <1>7 DEF Init
  <2>2. /\ current \in Tasks /\ serial \in Nat /\ guest \in Guests
        /\ calls \in 0 .. guest.calls
    BY <1>2, Numbers DEF Init
  <2>3. \A t \in Tasks : FiberType(fiber[t])
    BY <1>5, <1>8, <1>9
  <2> QED
    BY <1>2, <2>1, <2>2, <2>3 DEF Types
<1>13. Stacks
  <2>1. fr.op \in Bottom /\ fr.op # "filter"
    BY <1>1 DEF Bottom
  <2>2. Stacked(Root, <<fr>>, <<>>)
    BY <1>1, <2>1, StackFresh
  <2>3. fiber[Root].kill = FALSE /\ Stacked(Root, fiber[Root].stack, fiber[Root].active)
    BY <1>5, <1>6, <2>2
  <2> QED
    BY <1>9, <1>10, <2>3 DEF Stacks
<1>14. Tree
  BY <1>10, <1>11 DEF Tree
<1>15. fail \notin TreeFailures
  BY Zenon DEF Init, TreeFailures
<1>16. Filters
  BY <1>5, <1>6, <1>11 DEF Filters
<1>17. ASSUME NEW t \in Tasks, NEW w \in ListKinds
       PROVE  Held(t, w) = <<>> /\ DOMAIN Held(t, w) = {}
  <2>1. queue[t] = <<>> /\ done[t] = <<>> /\ fiber[t].active = <<>>
    BY <1>5, <1>6, <1>9 DEF Init
  <2>2. Held(t, w) = <<>>
    BY <2>1 DEF Held
  <2>3. DOMAIN <<>> = {}
    OBVIOUS
  <2> QED
    BY <2>2, <2>3
<1>19. \A j \in Jobs : job[j] = NoJob /\ job[j].kind = "none"
  BY DEF Init, NoJob
<1>20. OnePlace
  <2>1. \A t \in Tasks, w \in ListKinds : Distinct(Held(t, w))
    BY <1>17 DEF Distinct
  <2>2. ASSUME NEW j \in Jobs, NEW t \in Tasks, NEW w \in ListKinds PROVE ~In(j, t, w)
    BY <1>17 DEF In, InList
  <2> QED
    BY <2>1, <2>2 DEF OnePlace
<1>21. Pooled
  <2>1. ASSUME NEW j \in Jobs, NEW t \in Tasks, NEW w \in ListKinds PROVE ~In(j, t, w)
    BY <1>17 DEF In, InList
  <2> QED
    BY <1>19, <2>1 DEF Pooled
<1>22. Reserved
  <2> SUFFICES ASSUME NEW t \in Tasks PROVE Having(fiber[t].stack, "text") = <<>>
    <3>1. DOMAIN <<>> = {}
      OBVIOUS
    <3> QED
      BY <3>1 DEF Reserved, OneEach, Names
  <2>1. CASE t = Root
    <3>1. fr.op \in Bottom /\ fr.op # "filter"
      BY <1>1 DEF Bottom
    <3>2. Having(<<fr>>, "text") = <<>>
      BY <1>1, <3>1, StackFresh
    <3> QED
      BY <1>5, <1>6, <2>1, <3>2
  <2>2. CASE t # Root
    <3>1. fiber[t].stack = <<>>
      BY <1>9, <2>2
    <3>2. PICK S : S = {g \in Frames : g.op = "text"}
      OBVIOUS
    <3>3. Only(<<>>, S) = <<>>
      BY OnlyNone
    <3> QED
      BY <3>1, <3>2, <3>3 DEF Having
  <2> QED
    BY <2>1, <2>2
<1>23. InOrder
  <2>1. ASSUME NEW t \in Tasks PROVE Sorted(job, queue[t])
    <3>1. queue[t] = <<>> /\ DOMAIN <<>> = {}
      BY DEF Init
    <3> QED
      BY <3>1 DEF Sorted
  <2>2. \A t \in Tasks : Live(t) => fiber[t].kind # "filter"
    BY <1>5, <1>6, <1>11
  <2> QED
    BY <2>1, <2>2 DEF InOrder
<1> QED
  BY <1>12, <1>13, <1>14, <1>15, <1>16, <1>20, <1>21, <1>22, <1>23 DEF IInv

LEMMA GuestCallFine ==
    ASSUME IInv, GuestCall
    PROVE  Fine
  BY SpawnFine, SetCallbackFine, SuspendFine, KillFine, ExitFine, YieldFine, SleepFine,
     BirthWaitFine, DeathWaitFine, TaskWaitFine, TaskExeFine, SysFine, JobQueueFine,
     SpawnQueueFine, JobResGetFine, JobsHandlerFine, MessagePostFine, MessageGetFine,
     TaskTextFine, TaskRunFine, SystemStartFine, Zenon DEF GuestCall

LEMMA HostFine ==
    ASSUME IInv, Host
    PROVE  Fine
  BY YieldBeginsFine, YieldSwitchesFine, ResumedFine, YieldReturnsFine, EnterNextFine,
     TrampolineFine, CodeReturnsFine, ShellIdlesFine, WaitLoopsFine, SleepLoopsFine,
     TimedWaitLoopsFine, KillLoopsFine, SliceLoopsFine, ExitRequestedFine,
     DeathBeginsFine, ResultLoopsFine, SpawnedReturnsFine, SysReturnsFine, GetScansFine,
     GetTakesFine, RunLoopsFine, TextQueuedFine, DispatchFine, JobCompletesFine,
     ServerLoopsFine, FilterLoopsFine, TeardownFine, Zenon DEF Host

LEMMA StutterFine ==
    ASSUME IInv, UNCHANGED vars
    PROVE  Fine
<1>1. /\ fiber' = fiber /\ UNCHANGED jobVars /\ current' = current /\ serial' = serial
      /\ fail' = fail /\ guest' = guest /\ calls' = calls
  BY DEF vars, jobVars
<1>2. Calmly
  BY <1>1 DEF Calmly, IInv, Types
<1>3. Rest
  BY <1>1, Numbers DEF Rest, IInv, Types
<1> QED
  BY <1>1, <1>2, <1>3, CalmStep

LEMMA StepFine ==
    ASSUME IInv, [Next]_vars
    PROVE  Fine
  BY GuestCallFine, HostFine, TickFine, StutterFine, Zenon DEF Next

\* The bridge keeps the inductive invariant.
THEOREM BridgeKeeps == Spec => []IInv
<1>1. Init => IInv
  BY Starts
<1>2. IInv /\ [Next]_vars => IInv'
  BY StepFine DEF Fine
<1> QED
  BY <1>1, <1>2, PTL DEF Spec

-----------------------------------------------------------------------------
(* What the invariant says of the properties *)

LEMMA TreeHolds ==
    ASSUME IInv
    PROVE  TreeIntact
<1>1. ASSUME NEW t \in Tasks
      PROVE  /\ fiber[t].state \in {"unused", "run", "done"}
             /\ fiber[t].parent \in Tasks \cup {None}
             /\ fiber[t].filter \in Tasks \cup {None}
             /\ fiber[t].target \in Tasks \cup Jobs \cup {None}
             /\ \A k \in DOMAIN fiber[t].stack : fiber[t].stack[k].op \in FrameOps
             /\ Live(t) => fiber[t].stack # <<>>
             /\ queue[t] \in Seq(Jobs) /\ done[t] \in Seq(Jobs)
             /\ fiber[t].active \in Seq(Jobs)
  <2>1. FiberType(fiber[t])
    BY DEF IInv, Types
  <2>2. PICK s \in Seq(Frames) : s = fiber[t].stack
    BY <2>1 DEF FiberType
  <2>3. \A k \in DOMAIN s : s[k] \in Frames
    OBVIOUS
  <2>4. \A fr \in Frames : fr.op \in FrameOps
    BY DEF Frames
  <2>5. Live(t) => fiber[t].stack # <<>>
    BY DEF IInv, Stacks, Stacked
  <2>6. queue[t] \in Seq(Jobs) /\ done[t] \in Seq(Jobs)
    BY DEF IInv, Types
  <2>7. \A k \in DOMAIN fiber[t].stack : fiber[t].stack[k].op \in FrameOps
    BY <2>2, <2>3, <2>4
  <2> QED
    BY <2>1, <2>5, <2>6, <2>7 DEF FiberType
<1>2. \A j \in Jobs : job[j].kind \in {"none", "exe", "call", "spawn", "msg", "text"}
  BY DEF IInv, Types, JobType, NoJob
<1>3. current \in Tasks /\ calls \in 0 .. guest.calls
  BY DEF IInv, Types
<1>4. TypeOK
  BY <1>1, <1>2, <1>3, Zenon DEF TypeOK
<1> QED
  BY <1>4, Zenon DEF TreeIntact, IInv, TreeFailures

LEMMA InputHolds ==
    ASSUME IInv
    PROVE  InputOrdered
<1> SUFFICES ASSUME NEW t \in Tasks, Live(t), fiber[t].kind # "filter",
                    NEW k \in 1 .. Len(Input(t)) - 1
             PROVE  job[Input(t)[k]].arg < job[Input(t)[k + 1]].arg
  BY DEF InputOrdered
<1>1. PICK up : up = fiber[t].filter
  OBVIOUS
<1>2. PICK q : q = IF up \in Tasks \ {t} /\ Live(up) THEN queue[t] \o queue[up] ELSE queue[t]
  OBVIOUS
<1>3. q \in Seq(Jobs) /\ Sorted(job, q)
  <2>1. PICK a \in Seq(Jobs) : a = queue[t] /\ Sorted(job, a)
    BY DEF IInv, Types, InOrder
  <2>2. CASE up \in Tasks \ {t} /\ Live(up)
    <3>1. PICK b \in Seq(Jobs) : b = queue[up] /\ Sorted(job, b)
      BY <2>2 DEF IInv, Types, InOrder
    <3>2. fiber[up].kind = "filter" /\ fiber[up].parent = t
      BY <1>1, <2>2 DEF IInv, Filters
    <3>3. ASSUME NEW i, NEW j, InList(i, a), InList(j, b) PROVE Older(job, i, j)
      <4>1. i \in Jobs /\ j \in Jobs
        BY <3>3, ListedJob
      <4>2. In(i, t, "queue") /\ In(j, up, "queue")
        BY <2>1, <3>1, <3>3, HeldIs DEF In
      <4> QED
        BY <2>2, <3>2, <4>1, <4>2 DEF IInv, InOrder
    <3>4. a \o b \in Seq(Jobs) /\ Sorted(job, a \o b)
      BY <2>1, <3>1, <3>3, ListConcat
    <3> QED
      BY <1>2, <2>1, <2>2, <3>1, <3>4
  <2>3. CASE ~(up \in Tasks \ {t} /\ Live(up))
    BY <1>2, <2>1, <2>3
  <2> QED
    BY <2>2, <2>3
<1>4. PICK S : S = {j \in ToSet(q) : job[j].kind = "msg"}
  OBVIOUS
<1>5. Input(t) = Only(q, S)
  BY <1>1, <1>2, <1>4 DEF Input, Messages
<1>6. PICK in \in Seq(Jobs) : in = Input(t)
  BY <1>3, <1>5, ListOnly
<1>7. Sorted(job, in) /\ \A i : InList(i, in) => i \in S
  BY <1>3, <1>5, <1>6, ListOnly
<1>8. k \in DOMAIN in /\ k + 1 \in DOMAIN in /\ k < k + 1
  BY <1>6
<1>9. PICK l \in DOMAIN in : l = k + 1
  BY <1>8
<1>10. job[in[k]].kind = "msg" /\ job[in[l]].kind = "msg"
  BY <1>4, <1>7, <1>8, <1>9 DEF InList
<1>11. Older(job, in[k], in[l])
  BY <1>7, <1>8, <1>9 DEF Sorted
<1> QED
  BY <1>6, <1>9, <1>10, <1>11 DEF Older

\* A list without repetitions is no longer than the pool.
LEMMA ListFits ==
    ASSUME NEW s \in Seq(Jobs), Distinct(s)
    PROVE  Len(s) <= JobsMax
<1>1. Len(s) \in Nat /\ JobsMax \in Nat /\ DOMAIN s = 1 .. Len(s) /\ s \in [1 .. Len(s) -> Jobs]
  BY Numbers, LenProperties
<1>2. IsFiniteSet(Jobs) /\ Cardinality(Jobs) = JobsMax
  <2>1. PICK a \in Int, b \in Int : a = 101 /\ b = 100 + JobsMax
    BY <1>1
  <2>2. IsFiniteSet(a .. b) /\ Cardinality(a .. b) = IF a > b THEN 0 ELSE b - a + 1
    BY FS_Interval
  <2>3. Cardinality(a .. b) = JobsMax
    BY <1>1, <2>1, <2>2, Numbers
  <2> QED
    BY <2>1, <2>2, <2>3, Numbers
<1>3. IsFiniteSet(1 .. Len(s)) /\ Cardinality(1 .. Len(s)) = Len(s)
  <2>1. /\ IsFiniteSet(1 .. Len(s))
        /\ Cardinality(1 .. Len(s)) = IF 1 > Len(s) THEN 0 ELSE Len(s) - 1 + 1
    BY <1>1, FS_Interval
  <2> QED
    BY <1>1, <2>1
<1> SUFFICES ASSUME JobsMax < Len(s) PROVE FALSE
  BY <1>1
<1>4. \E k, l \in 1 .. Len(s) : k # l /\ s[k] = s[l]
  BY <1>1, <1>2, <1>3, FS_PigeonHole
<1> QED
  BY <1>1, <1>4 DEF Distinct

LEMMA PlacesAre ==
    ASSUME IInv, NEW j \in Jobs
    PROVE  /\ \A x \in Places(j) :
                /\ x \in Tasks \X ListKinds \X (1 .. JobsMax)
                /\ x[3] \in DOMAIN Held(x[1], x[2]) /\ Held(x[1], x[2])[x[3]] = j
           /\ \A t \in Tasks, w \in ListKinds : \A k \in DOMAIN Held(t, w) :
                Held(t, w)[k] = j => <<t, w, k>> \in Places(j)
<1>1. ASSUME NEW t \in Tasks, NEW w \in ListKinds
      PROVE  /\ [queue |-> queue[t], done |-> done[t], active |-> fiber[t].active][w] = Held(t, w)
             /\ Held(t, w) \in Seq(Jobs) /\ Len(Held(t, w)) <= JobsMax
             /\ Len(Held(t, w)) \in Nat /\ DOMAIN Held(t, w) = 1 .. Len(Held(t, w))
  <2>1. [queue |-> queue[t], done |-> done[t], active |-> fiber[t].active][w] = Held(t, w)
    BY DEF Held, ListKinds
  <2>2. Held(t, w) \in Seq(Jobs)
    BY DEF Held, IInv, Types, FiberType
  <2>3. Len(Held(t, w)) <= JobsMax
    BY <2>2, ListFits DEF IInv, OnePlace
  <2> QED
    BY <2>1, <2>2, <2>3, LenProperties
<1>2. ASSUME NEW x \in Places(j)
      PROVE  /\ x \in Tasks \X ListKinds \X (1 .. JobsMax)
             /\ x[3] \in DOMAIN Held(x[1], x[2]) /\ Held(x[1], x[2])[x[3]] = j
  <2>1. /\ x \in Tasks \X ListKinds \X (1 .. JobsMax)
        /\ x[3] <= Len([queue |-> queue[x[1]], done |-> done[x[1]],
                        active |-> fiber[x[1]].active][x[2]])
        /\ [queue |-> queue[x[1]], done |-> done[x[1]],
            active |-> fiber[x[1]].active][x[2]][x[3]] = j
    BY Zenon DEF Places, ListKinds
  <2>2. x[1] \in Tasks /\ x[2] \in ListKinds /\ x[3] \in 1 .. JobsMax
    BY <2>1
  <2>3. PICK t \in Tasks, w \in ListKinds, k \in 1 .. JobsMax : t = x[1] /\ w = x[2] /\ k = x[3]
    BY <2>2
  <2>4. k <= Len(Held(t, w)) /\ Held(t, w)[k] = j
    BY <1>1, <2>1, <2>3
  <2>5. k \in DOMAIN Held(t, w)
    BY <1>1, <2>4, Numbers
  <2> QED
    BY <2>1, <2>3, <2>4, <2>5
<1>3. ASSUME NEW t \in Tasks, NEW w \in ListKinds, NEW k \in DOMAIN Held(t, w), Held(t, w)[k] = j
      PROVE  <<t, w, k>> \in Places(j)
  <2>1. PICK x : x = <<t, w, k>>
    OBVIOUS
  <2>6. PICK n \in Nat : n = Len(Held(t, w)) /\ n <= JobsMax /\ k \in 1 .. n
    BY <1>1, <1>3
  <2>2. k \in 1 .. JobsMax /\ k <= Len(Held(t, w))
    BY <2>6, Numbers
  <2>3. x \in Tasks \X ListKinds \X (1 .. JobsMax) /\ x[1] = t /\ x[2] = w /\ x[3] = k
    BY <2>1, <2>2
  <2>4. /\ x[3] <= Len([queue |-> queue[x[1]], done |-> done[x[1]],
                        active |-> fiber[x[1]].active][x[2]])
        /\ [queue |-> queue[x[1]], done |-> done[x[1]],
            active |-> fiber[x[1]].active][x[2]][x[3]] = j
    BY <1>1, <1>3, <2>2, <2>3
  <2>5. x \in Places(j)
    BY <2>3, <2>4, Zenon DEF Places, ListKinds
  <2> QED
    BY <2>1, <2>5
<1> QED
  BY <1>2, <1>3

LEMMA JobsHold ==
    ASSUME IInv
    PROVE  JobsAccounted
<1> SUFFICES ASSUME NEW j \in Jobs
             PROVE  IF job[j].kind = "none" THEN Places(j) = {}
                    ELSE /\ \/ Cardinality(Places(j)) = 1
                            \/ Places(j) = {} /\ job[j].kind = "text"
                         /\ \A x \in Places(j) :
                              Live(x[1]) /\ (x[2] = "done" <=> "done" \in job[j].flags)
  BY DEF JobsAccounted
<1>1. ASSUME NEW x \in Places(j)
      PROVE  /\ x[1] \in Tasks /\ x[2] \in ListKinds /\ In(j, x[1], x[2])
             /\ x = <<x[1], x[2], x[3]>>
             /\ x[3] \in DOMAIN Held(x[1], x[2]) /\ Held(x[1], x[2])[x[3]] = j
  <2>1. /\ x \in Tasks \X ListKinds \X (1 .. JobsMax)
        /\ x[3] \in DOMAIN Held(x[1], x[2]) /\ Held(x[1], x[2])[x[3]] = j
    BY PlacesAre
  <2>2. x[1] \in Tasks /\ x[2] \in ListKinds /\ x = <<x[1], x[2], x[3]>>
    BY <2>1
  <2> QED
    BY <2>1, <2>2 DEF In, InList
<1>2. CASE \E t \in Tasks, w \in ListKinds : In(j, t, w)
  <2>1. PICK t \in Tasks, w \in ListKinds : In(j, t, w)
    BY <1>2
  <2>2. PICK k \in DOMAIN Held(t, w) : Held(t, w)[k] = j
    BY <2>1 DEF In, InList
  <2>3. PICK y : y = <<t, w, k>>
    OBVIOUS
  <2>4. y \in Places(j)
    BY <2>2, <2>3, PlacesAre
  <2>5. ASSUME NEW x \in Places(j) PROVE x = y /\ x[1] = t /\ x[2] = w
    <3>1. x[1] = t /\ x[2] = w
      BY <1>1, <2>1 DEF IInv, OnePlace
    <3>2. x[3] = k
      <4>1. Distinct(Held(t, w))
        BY DEF IInv, OnePlace
      <4>2. x[3] \in DOMAIN Held(t, w) /\ Held(t, w)[x[3]] = j
        BY <1>1, <3>1
      <4> QED
        BY <2>2, <4>1, <4>2 DEF Distinct
    <3> QED
      BY <1>1, <2>3, <3>1, <3>2
  <2>6. Places(j) = {y}
    BY <2>4, <2>5
  <2>7. Cardinality(Places(j)) = 1
    BY <2>6, FS_Singleton
  <2>8. /\ Live(t) /\ job[j] # NoJob /\ (w = "done" <=> "done" \in job[j].flags)
    BY <2>1 DEF IInv, Pooled
  <2>9. job[j].kind # "none"
    BY <2>8 DEF IInv, Types, JobType
  <2> QED
    BY <2>5, <2>7, <2>8, <2>9
<1>3. CASE ~\E t \in Tasks, w \in ListKinds : In(j, t, w)
  <2>1. Places(j) = {}
    BY <1>1, <1>3
  <2>2. job[j].kind # "none" => job[j].kind = "text"
    BY <1>3 DEF IInv, Pooled, NoJob
  <2> QED
    BY <2>1, <2>2
<1> QED
  BY <1>2, <1>3

-----------------------------------------------------------------------------
(* The theorems *)

\* However many tasks spawn, kill, suspend and wait for each other, the
\* consistency checks of finish_guest never fire: a task ends after its
\* children and before its parent, and every live task has a stack to return on.
THEOREM TreeSafe == Spec => []TreeIntact
  BY BridgeKeeps, TreeHolds, PTL

\* Every job of the pool that guest_tracked_jobs shares between all tasks is at
\* one position of one list of a live task, or reserved by TaskText: no
\* dispatch, no result, no kill and no teardown leaks or duplicates one.
THEOREM JobsSafe == Spec => []JobsAccounted
  BY BridgeKeeps, JobsHold, PTL

\* Input reaches a server in the order in which post_guest_message took it,
\* through coalesced motion and through an input filter that comes and goes.
THEOREM InputSafe == Spec => []InputOrdered
  BY BridgeKeeps, InputHolds, PTL

\* finish_guest never takes a task whose end callback is still to be run.
THEOREM CallbacksSafe == Spec => CallbacksRun
<1>1. IInv /\ [Next]_vars =>
        [\A t \in Tasks : Live(t) /\ fiber'[t].state = "done" => ~fiber[t].cb]_vars
  BY StepFine DEF Fine, Harmless
<1> QED
  BY <1>1, BridgeKeeps, PTL DEF CallbacksRun, Spec

\* A source job that runs when its server ends is completed by
\* cancel_active_job for the task that waits for it.
THEOREM InFlightSafe == Spec => InFlightKept
<1>1. IInv /\ [Next]_vars =>
        [\A t \in Tasks, j \in Jobs :
           /\ Live(t) /\ fiber'[t].state = "run"
           /\ fiber[t].wait = "job" /\ fiber[t].target = j
           /\ \E s \in Tasks : j \in ToSet(fiber[s].active)
           /\ job[j].kind = "exe" /\ "free" \notin job[j].flags
           /\ job[j].master \in {None, t}
           => job'[j] # NoJob]_vars
  <2> SUFFICES ASSUME IInv, [Next]_vars, NEW t \in Tasks, NEW j \in Jobs,
                      Live(t), fiber'[t].state = "run",
                      fiber[t].wait = "job", fiber[t].target = j,
                      NEW s \in Tasks, j \in ToSet(fiber[s].active),
                      job[j].kind = "exe", "free" \notin job[j].flags,
                      job[j].master \in {None, t}
               PROVE  job'[j] # NoJob
    OBVIOUS
  <2>1. In(j, s, "active")
    <3>1. fiber[s].active \in Seq(Jobs)
      BY DEF IInv, Types, FiberType
    <3> QED
      BY <3>1, InSet, HeldIs DEF In
  <2>2. Harmless
    BY StepFine DEF Fine
  <2> QED
    BY <2>1, <2>2 DEF Harmless
<1> QED
  BY <1>1, BridgeKeeps, PTL DEF InFlightKept, Spec

\* The messages in an input filter's queue survive its end: finish_guest gives
\* them to its server, and only text that the filter runs may read them.
THEOREM FilterSafe == Spec => FilterKeepsInput
<1>1. IInv /\ [Next]_vars =>
        [\A t \in Tasks : Live(t) /\ fiber[t].kind = "filter" =>
           \A j \in ToSet(queue[t]) :
             job[j].kind = "msg" => \/ job'[j] # NoJob
                                    \/ current = t /\ Top.op = "take"]_vars
  <2> SUFFICES ASSUME IInv, [Next]_vars, NEW t \in Tasks, Live(t), fiber[t].kind = "filter",
                      NEW j \in ToSet(queue[t]), job[j].kind = "msg"
               PROVE  job'[j] # NoJob \/ (current = t /\ Top.op = "take")
    OBVIOUS
  <2>1. In(j, t, "queue") /\ j \in Jobs
    <3>1. queue[t] \in Seq(Jobs)
      BY DEF IInv, Types
    <3>2. InList(j, queue[t])
      BY <3>1, InSet
    <3> QED
      BY <3>1, <3>2, ListedJob, HeldIs DEF In
  <2>2. Harmless
    BY StepFine DEF Fine
  <2> QED
    BY <2>1, <2>2 DEF Harmless
<1> QED
  BY <1>1, BridgeKeeps, PTL DEF FilterKeepsInput, Spec
=============================================================================
