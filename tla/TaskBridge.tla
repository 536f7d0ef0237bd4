----------------------------- MODULE TaskBridge -----------------------------
(***************************************************************************)
(* The cooperative task bridge of src/src/zc/runtime.c: guest tasks         *)
(* ("fibers") that share one CPU and switch only in host_task_yield, their  *)
(* waits, their teardown, and the bounded pool of jobs and messages.        *)
(*                                                                          *)
(* Exactly one fiber runs, guest_current.  A fiber's C stack is a sequence  *)
(* of frames, innermost first: guest code (its entry function, a job body,  *)
(* an end callback), which may call the API, and the host functions that    *)
(* have yielded and are still to be continued.  The guest programs are      *)
(* arbitrary, within the calls that the model gives them.  A call that the  *)
(* code refuses without changing anything is not a step.  Popup links,      *)
(* focus and the guest exception pads are left out; parsing is atomic, as   *)
(* in the code, so a source job is its emitted body.                        *)
(***************************************************************************)
EXTENDS Integers, Sequences, FiniteSets, SequencesExt, Lists

CONSTANTS
    AppTasks,     \* GUEST_APP_TASKS: the root and its possible children
    JobsMax,      \* GUEST_JOBS_MAX: the jobs all queues share
    DepthMax,     \* GUEST_JOB_DEPTH_MAX: nested dispatches of one fiber
    Guests        \* guest programs: the API calls they make (api), and a
                  \* bound on their number in one behaviour (calls)

ASSUME TaskAssumption ==
    /\ AppTasks \in Nat \ {0}
    /\ JobsMax \in Nat \ {0}
    /\ DepthMax \in Nat \ {0}
    /\ \A g \in Guests : g.calls \in Nat

Root      == 0
Executive == AppTasks
System    == AppTasks + 1
Tasks     == 0 .. AppTasks + 1
Jobs      == 101 .. 100 + JobsMax   \* addresses: a job is never a task
None      == -1

VARIABLES
    fiber,        \* guest_fibers
    queue,        \* fiber -> its waiting jobs (server_ctrl)
    done,         \* fiber -> its completed jobs (server_ctrl + 16)
    job,          \* guest_tracked_jobs: job -> its fields, or NoJob
    current,      \* guest_current
    serial,       \* guest_task_serial
    fail,         \* the message of zc_fail, or "none" while the session runs
    guest,        \* the guest programs of this behaviour
    calls         \* API calls made so far

vars == <<fiber, queue, done, job, current, serial, fail, guest, calls>>
jobVars == <<queue, done, job>>

-----------------------------------------------------------------------------
(* Fibers, frames and jobs *)

Frame(op)            == [op |-> op, on |-> None, flag |-> FALSE, num |-> 0]
FrameOn(op, x, b, n) == [op |-> op, on |-> x, flag |-> b, num |-> n]

Unused ==
    [state |-> "unused", kind |-> "entry", parent |-> None, num |-> 0,
     stack |-> <<>>, active |-> <<>>, filter |-> None,
     wait |-> "none", target |-> None, wnum |-> 0, due |-> FALSE,
     kill |-> FALSE, ending |-> FALSE, cb |-> FALSE, started |-> FALSE,
     susp |-> FALSE, idle |-> FALSE, await |-> FALSE]

NewFiber(i, parent, kind, n) ==
    [Unused EXCEPT !.state = "run", !.kind = kind, !.parent = parent,
                   !.num = n, !.filter = i, !.stack = <<Frame("start")>>]

NoJob == [kind |-> "none"]
Job(kind, code, master, flags, arg) ==
    [kind |-> kind, code |-> code, master |-> master, flags |-> flags,
     arg |-> arg, by |-> current]

(* What a walk over a job list picks out of it, in its order. *)
Messages(q)   == Only(q, {j \in ToSet(q) : job[j].kind = "msg"})
Without(q, j) == Only(q, ToSet(q) \ {j})

Live(t) == t \in Tasks /\ fiber[t].state = "run"
Me      == fiber[current]
Top     == Head(Me.stack)

Children(t) == {c \in Tasks \ {Root} : Live(c) /\ fiber[c].parent = t}

(* The current task and its ancestors, as host_kill walks them. *)
CurrentOrAncestors ==
    LET up[k \in 0 .. AppTasks + 1] ==
          IF k = 0 THEN current
          ELSE IF Live(up[k - 1]) THEN fiber[up[k - 1]].parent ELSE None
    IN {up[k] : k \in 0 .. AppTasks + 1}

(* guest_job_find: a request is known while it is queued, done or active. *)
Known(j) == \E t \in Tasks : Live(t) /\ (\/ j \in ToSet(fiber[t].active)
                                         \/ j \in ToSet(queue[t])
                                         \/ j \in ToSet(done[t]))
IsDone(j) == Known(j) /\ "done" \in job[j].flags

FreeJobs == {j \in Jobs : job[j] = NoJob}
NewJob   == CHOOSE j \in FreeJobs : \A k \in FreeJobs : j <= k

(* A fiber that runs a source job, or the executive running a callback:     *)
(* source_job_active, guest_job_call_active and dispatch_blocks_current.    *)
InBody(t, kinds) == \E k \in DOMAIN fiber[t].stack :
                        /\ fiber[t].stack[k].op = "body"
                        /\ job[fiber[t].stack[k].on].kind \in kinds
CallOnExecutive == current = Executive /\ InBody(current, {"call"})
DispatchBlocks  == InBody(current, {"exe", "text"}) \/ CallOnExecutive

-----------------------------------------------------------------------------
(* The scheduler *)

(* guest_task_idle: an empty queue and IDLE at the end of the filter link. *)
TaskIdle(fib, self, t) ==
    \/ ~Live(t)
    \/ LET in == fib[t].filter IN
         \/ in = self
         \/ ~Live(in)
         \/ queue[in] = <<>> /\ fib[in].idle

WaitReady(fib, t) ==
    LET f == fib[t] IN
    CASE f.wait = "none"  -> TRUE
      [] f.wait = "timer" -> f.due
      [] f.wait = "job"   -> ~Known(f.target) \/ IsDone(f.target)
      [] f.wait = "death" -> ~Live(f.target)
      [] f.wait = "birth" -> Live(f.target) /\ fib[f.target].num # f.wnum
      [] f.wait = "idle"  -> TaskIdle(fib, t, f.target)
      [] f.wait = "idle timeout" -> f.due \/ TaskIdle(fib, t, f.target)
      [] f.wait \in {"message", "server"} ->
            ~Live(f.target) \/ queue[f.target] # <<>>
      [] f.wait = "message timeout" ->
            f.due \/ ~Live(f.target) \/ queue[f.target] # <<>>

TimerPending == \E t \in Tasks :
    /\ Live(t) /\ ~fiber[t].susp
    /\ fiber[t].wait \in {"timer", "idle timeout", "message timeout"}

SchedulableIgnoresKill(fib, t) ==   \* mutant
    Live(t) /\ ~fib[t].susp /\ WaitReady(fib, t)

Schedulable(fib, t) ==
    Live(t) /\ (fib[t].kill \/ (~fib[t].susp /\ WaitReady(fib, t)))

(* next_guest: round robin from the caller, the root when nothing is ready. *)
NextGuest(fib, from) ==
    LET at(k) == (from + k) % (AppTasks + 2)
        ready == {k \in 1 .. AppTasks + 2 : Schedulable(fib, at(k))}
    IN IF ready = {} THEN Root
       ELSE at(CHOOSE k \in ready : \A l \in ready : k <= l)

(* The root may wait only while something can still wake it. *)
RootStuck == current = Root /\ NextGuest(fiber, Root) = Root /\ ~TimerPending

-----------------------------------------------------------------------------
(* Effects shared by several operations *)

Running == fail = "none" /\ Live(current)

SetMe(f)   == fiber' = [fiber EXCEPT ![current] = f]
Pushed(fr) == [Me EXCEPT !.stack = <<fr>> \o @]
Popped     == [Me EXCEPT !.stack = Tail(@)]
Replaced(frs) == [Me EXCEPT !.stack = frs \o Tail(@)]

Fails(why) == /\ fail' = why
              /\ UNCHANGED <<fiber, queue, done, job, current, serial>>

(* end_guest_current up to its end_context: everything on the stack is      *)
(* abandoned, teardown starts or, inside a callback, resumes.               *)
Ended(f) == IF f.ending
            THEN [f EXCEPT !.stack = <<Frame("teardown")>>]
            ELSE [f EXCEPT !.ending = TRUE, !.kill = FALSE, !.wait = "none",
                           !.susp = FALSE, !.await = FALSE,
                           !.stack = <<Frame("teardown")>>]

(* guest_job_waiter, once fiber i is no longer runnable. *)
JobWaiter(i, j) ==
    LET m == job[j].master
        waiting == {t \in Tasks \ {i} : Live(t) /\ fiber[t].wait = "job"
                                                /\ fiber[t].target = j}
    IN IF m # i /\ Live(m) THEN m
       ELSE IF waiting = {} THEN None
       ELSE CHOOSE t \in waiting : \A u \in waiting : t <= u

NoRecipient(i, j) == None   \* mutant

(* cancel_active_job keeps the job, completed with zero, for its waiter. *)
Recipient(i, j) == IF job[j].kind = "exe" /\ "free" \notin job[j].flags
                   THEN JobWaiter(i, j) ELSE None

(* The messages that an input filter leaves to its server. *)
HandedNone(i) == <<>>   \* mutant

Handed(i) == IF fiber[i].kind = "filter" THEN Messages(queue[i]) ELSE <<>>

(* A server reads its own queue again, and wakes if messages come with it. *)
Unfiltered(f, p, moved) == [f EXCEPT !.filter = p, !.idle = @ /\ moved = <<>>,
                                     !.await = @ /\ moved = <<>>]

(* finish_guest: the fiber leaves the task tree; a filter hands the         *)
(* messages behind its text jobs to its server; in-flight jobs are          *)
(* cancelled, queued and completed ones deleted.                            *)
Finish(i, base) ==
    LET f     == fiber[i]
        p     == f.parent
        moved == Handed(i)
        kept  == {j \in ToSet(f.active) : Recipient(i, j) # None}
        gone  == (ToSet(queue[i]) \ ToSet(moved)) \cup ToSet(done[i])
                 \cup (ToSet(f.active) \ kept)
    IN /\ fiber' = [base EXCEPT
             ![i] = [@ EXCEPT !.state = "done", !.active = <<>>,
                              !.stack = <<>>, !.wait = "none"],
             ![p] = IF f.kind = "filter" THEN Unfiltered(@, p, moved) ELSE @]
       /\ queue' = [t \in Tasks |-> IF t = i THEN <<>>
                                    ELSE IF t = p THEN queue[t] \o moved
                                    ELSE queue[t]]
       /\ done' = [t \in Tasks |->
             IF t = i THEN <<>>
             ELSE done[t] \o Only(f.active, {j \in kept : Recipient(i, j) = t})]
       /\ job' = [j \in Jobs |->
             IF j \in gone THEN NoJob
             ELSE IF job[j] = NoJob THEN NoJob
             ELSE [job[j] EXCEPT !.by = IF @ = i THEN None ELSE @,
                                 !.flags = IF j \in kept THEN @ \cup {"done"}
                                           ELSE @]]

TryFinish(i, base) ==
    IF Children(i) # {}
    THEN Fails("task ended before its children")
    ELSE IF ~Live(fiber[i].parent)
    THEN Fails("guest task parent vanished")
    ELSE Finish(i, base) /\ UNCHANGED <<current, serial, fail>>

(* new_guest_fiber takes the first slot that holds no running task. *)
FreeSlots == {i \in 1 .. AppTasks - 1 : ~Live(i)}
FirstSlot == CHOOSE i \in FreeSlots : \A k \in FreeSlots : i <= k

CollectLeaks(j) ==   \* mutant
    /\ done' = [t \in Tasks |-> Without(done[t], j)]
    /\ UNCHANGED job

(* Delete job j wherever a live fiber holds it as completed. *)
Collect(j) == /\ done' = [t \in Tasks |-> Without(done[t], j)]
              /\ job' = [job EXCEPT ![j] = NoJob]

Woken(f) == [f EXCEPT !.idle = FALSE, !.await = FALSE]

(* Queue a new job for a server and wake it. *)
Enqueue(srv, rec) ==
    /\ job' = [job EXCEPT ![NewJob] = rec]
    /\ queue' = [queue EXCEPT ![srv] = Append(@, NewJob)]

-----------------------------------------------------------------------------
(* API calls of guest code *)

GuestRuns == \/ Top.op \in {"entry", "callback"}
             \/ Top.op = "body" /\ job[Top.on].kind # "spawn"

Call(name) == /\ Running
              /\ GuestRuns
              /\ name \in guest.api
              /\ calls < guest.calls
              /\ calls' = calls + 1
              /\ UNCHANGED guest

App(t) == t \notin {Root, Executive, System}

(* host_spawn and host_task_spawn: the root's or the caller's child. *)
Spawn ==
    /\ Call("Spawn")
    /\ FreeSlots # {}
    /\ \E p \in {Root, current} :
         fiber' = [fiber EXCEPT ![FirstSlot] =
                      NewFiber(FirstSlot, p, "entry", serial + 1)]
    /\ serial' = serial + 1
    /\ UNCHANGED <<queue, done, job, current, fail>>

(* Guest code stores task_end_cb in its own task. *)
SetCallback ==
    /\ Call("Callback")
    /\ App(current) /\ ~Me.cb
    /\ SetMe([Me EXCEPT !.cb = TRUE])
    /\ UNCHANGED <<jobVars, current, serial, fail>>

Suspend ==
    /\ Call("Suspend")
    /\ \E t \in Tasks \ {Root, System} :
         /\ Live(t)
         /\ fiber' = [fiber EXCEPT ![t].susp = ~@]
    /\ UNCHANGED <<jobVars, current, serial, fail>>

(* host_kill of task t; the caller goes on as cont.  Without an end         *)
(* callback or children the target ends at once.                            *)
KillTask(t, wait, cont) ==
    LET base == [fiber EXCEPT ![current] = cont]
        asked == [base EXCEPT ![t].kill = TRUE]
        waits == [cont EXCEPT !.stack =
                    <<FrameOn("kill", t, fiber[t].cb, fiber[t].num)>> \o @]
    IN IF DispatchBlocks /\ t \in CurrentOrAncestors
       THEN Fails("kill current or ancestor during job dispatch")
       ELSE IF fiber[t].ending
       THEN fiber' = base /\ UNCHANGED <<jobVars, current, serial, fail>>
       ELSE IF ~fiber[t].cb /\ Children(t) = {}
       THEN TryFinish(t, base)
       ELSE IF CallOnExecutive
       THEN Fails("kill with task teardown during job dispatch")
       ELSE /\ fiber' = IF t = current THEN [fiber EXCEPT ![t] = Ended(@)]
                        ELSE IF wait THEN [asked EXCEPT ![current] = waits]
                        ELSE asked
            /\ UNCHANGED <<jobVars, current, serial, fail>>

Kill ==
    /\ Call("Kill")
    /\ \E t \in Tasks, wait \in BOOLEAN :
         Live(t) /\ App(t) /\ KillTask(t, wait, Me)

(* host_task_exit of an application task. *)
Exit ==
    /\ Call("Exit")
    /\ App(current)
    /\ SetMe(Ended(Me))
    /\ UNCHANGED <<jobVars, current, serial, fail>>

Yield ==
    /\ Call("Yield")
    /\ SetMe(Pushed(Frame("yield")))
    /\ UNCHANGED <<jobVars, current, serial, fail>>

Sleep ==
    /\ Call("Sleep")
    /\ SetMe([Pushed(FrameOn("sleep", None, Me.idle, 0)) EXCEPT
                 !.idle = TRUE, !.wait = "timer", !.due = FALSE])
    /\ UNCHANGED <<jobVars, current, serial, fail>>

(* guest_wait: the condition is kept in the fiber while it yields. *)
Waiting(f, kind, t, n) ==
    [f EXCEPT !.wait = kind, !.target = t, !.wnum = n,
              !.stack = <<FrameOn("wait", t, kind = "death", n)>> \o @]

BirthWait ==
    /\ Call("BirthWait")
    /\ \E t \in Tasks : /\ App(t) /\ t # current
                        /\ SetMe(Waiting(Me, "birth", t, fiber[t].num))
    /\ UNCHANGED <<jobVars, current, serial, fail>>

(* host_death_wait; send_exit first gives a task that has not started a     *)
(* slice, so that it can install its end callback, and then kills it.       *)
DeathWait ==
    /\ Call("DeathWait")
    /\ \E t \in Tasks, send \in BOOLEAN :
         /\ Live(t) /\ App(t) /\ (send \/ t # current)
         /\ LET n     == fiber[t].num
                slice == IF t # current /\ ~fiber[t].started /\ ~fiber[t].susp
                         THEN <<FrameOn("slice", t, FALSE, n)>> ELSE <<>>
                exit  == <<FrameOn("exit", t, FALSE, n),
                           FrameOn("death", t, FALSE, n)>>
            IN SetMe(IF send THEN [Me EXCEPT !.stack = slice \o exit \o @]
                     ELSE Waiting(Me, "death", t, n))
    /\ UNCHANGED <<jobVars, current, serial, fail>>

TaskWait ==
    /\ Call("TaskWait")
    /\ \E t \in Tasks :
         /\ Live(t) /\ t # Executive
         /\ \/ SetMe(Waiting(Me, "idle", t, 0))
            \/ /\ ~TaskIdle(fiber, current, t)
               /\ SetMe([Pushed(FrameOn("timed", t, FALSE, 0)) EXCEPT
                   !.wait = "idle timeout", !.target = t, !.due = FALSE])
    /\ UNCHANGED <<jobVars, current, serial, fail>>

(* host_task_exe_mode: a source job for server t. *)
TaskExe ==
    /\ Call("TaskExe")
    /\ \E t \in Tasks, m \in {None, current},
          flags \in {{}, {"wake"}, {"exit"}, {"free"}} :
         /\ Live(t) /\ t # Executive
         /\ "wake" \in flags => m = current /\ t # current
         /\ "exit" \in flags => t \notin {Root, System}
         /\ IF FreeJobs = {} THEN Fails("guest job queue full")
            ELSE /\ Enqueue(t, Job("exe", "", m, flags, None))
                 /\ LET woken == [fiber EXCEPT ![t] = Woken(@)] IN
                    fiber' = IF "wake" \in flags
                             THEN [woken EXCEPT ![current] =
                                      Waiting(Me, "job", NewJob, 0)]
                             ELSE woken
                 /\ UNCHANGED <<done, current, serial, fail>>

(* host_sys: a system request for the System task, or the root without one; *)
(* on the server itself it is dispatched at once.                           *)
Sys ==
    /\ Call("Sys")
    /\ ~CallOnExecutive
    /\ LET t    == IF Live(System) THEN System ELSE Root
           ask  == [Me EXCEPT !.stack = <<FrameOn("sys", NewJob, FALSE, 0)>> \o @]
       IN IF FreeJobs = {} THEN Fails("guest job queue full")
          ELSE /\ Enqueue(t, Job("exe", "", current,
                    IF t = current THEN {"sys"} ELSE {"sys", "wake"}, None))
               /\ fiber' = IF t = current
                    THEN [fiber EXCEPT ![t] = Woken(
                       [ask EXCEPT !.stack =
                            <<FrameOn("jobs", None, TRUE, 0)>> \o @])]
                    ELSE [fiber EXCEPT ![t] = Woken(@),
                            ![current] = Waiting(ask, "job", NewJob, 0)]
               /\ UNCHANGED <<done, current, serial, fail>>

(* host_job_queue creates the executive on first use; host_spawn_queue also *)
(* waits for the job.                                                       *)
Queued(kind, flags, me) ==
    /\ fiber' = [fiber EXCEPT
         ![Executive] = IF Live(Executive) THEN Woken(@)
                        ELSE NewFiber(Executive, Root, "exec", serial + 1),
         ![current] = IF current = Executive THEN Woken(me) ELSE me]
    /\ serial' = IF Live(Executive) THEN serial ELSE serial + 1
    /\ Enqueue(Executive, Job(kind, "", None, flags, Root))
    /\ UNCHANGED <<done, current, fail>>

JobQueue ==
    /\ Call("JobQueue")
    /\ \E flags \in {{}, {"free"}} :
         IF FreeJobs = {} THEN Fails("guest job queue full")
         ELSE Queued("call", flags, Me)

SpawnQueue ==
    /\ Call("SpawnQueue")
    /\ current # Executive
    /\ IF FreeJobs = {} THEN Fails("guest job queue full")
       ELSE Queued("spawn", {"que"},
              Waiting([Pushed(FrameOn("spawned", NewJob, FALSE, 0)) EXCEPT
                          !.idle = TRUE], "job", NewJob, 0))

JobResGet ==
    /\ Call("JobResGet")
    /\ \E j \in Jobs : /\ job[j].kind \in {"exe", "call"}
                       /\ job[j].by = current
                       /\ "free" \notin job[j].flags
                       /\ SetMe(Pushed(FrameOn("result", j, FALSE, 0)))
    /\ UNCHANGED <<jobVars, current, serial, fail>>

JobsHandler ==
    /\ Call("JobsHandler")
    /\ SetMe(Pushed(FrameOn("jobs", None, FALSE, 0)))
    /\ UNCHANGED <<jobVars, current, serial, fail>>

LastMoveAnywhere(q) ==   \* mutant
    LET moves == Only(q, {j \in ToSet(q) : /\ job[j].kind = "msg"
                                           /\ job[j].code = "move"})
    IN IF moves = <<>> THEN None ELSE Last(moves)

(* The motion at the end of the queue, if the last job is one. *)
LastMove(q) == IF q # <<>> /\ job[Last(q)].kind = "msg"
                  /\ job[Last(q)].code = "move"
               THEN Last(q) ELSE None

(* post_guest_message: through the input filter; pointer motion replaces    *)
(* an unread motion at the end of the queue and is dropped at a full pool.  *)
MessagePost ==
    /\ Call("Message")
    /\ \E t \in Tasks, code \in {"move", "key"} :
         LET srv  == fiber[t].filter
             last == LastMove(queue[srv])
             same == code = "move" /\ last # None
         IN /\ Live(t) /\ t # Executive /\ fiber[t].kind # "filter"
            /\ IF same \/ FreeJobs # {}
               THEN /\ IF same
                       THEN /\ job' = [job EXCEPT ![last].arg = calls]
                            /\ UNCHANGED queue
                       ELSE Enqueue(srv, Job("msg", code, None, {}, calls))
                    /\ fiber' = [fiber EXCEPT ![srv] = Woken(@)]
                    /\ UNCHANGED <<done, current, serial, fail>>
               ELSE IF code = "move"
               THEN UNCHANGED <<fiber, jobVars, current, serial, fail>>
               ELSE Fails("guest message queue full")

MessageGet ==
    /\ Call("MessageGet")
    /\ \E timed \in BOOLEAN :
         SetMe([Pushed(FrameOn("get", current, timed, 0)) EXCEPT
                   !.idle = FALSE,
                   !.target = IF timed THEN current ELSE @,
                   !.due = IF timed THEN FALSE ELSE @])
    /\ UNCHANGED <<jobVars, current, serial, fail>>

(* host_task_text reserves the job before it may wait for an old filter.    *)
TaskText ==
    /\ Call("TaskText")
    /\ ~DispatchBlocks
    /\ \E t \in Tasks, high \in BOOLEAN :
         /\ Live(t) /\ t # Executive /\ fiber[t].kind # "filter"
         /\ IF FreeJobs = {} THEN Fails("guest job queue full")
            ELSE LET me == Pushed(FrameOn("text", t, high, NewJob)) IN
                 /\ job' = [job EXCEPT ![NewJob] =
                               Job("text", "", None, {}, None)]
                 /\ SetMe(IF high /\ fiber[t].filter # t
                          THEN Waiting(me, "idle", t, 0) ELSE me)
                 /\ UNCHANGED <<queue, done, current, serial, fail>>

(* host_task_run pumps the scheduler from the root. *)
TaskRun ==
    /\ Call("TaskRun")
    /\ current = Root
    /\ SetMe(Pushed(Frame("run")))
    /\ UNCHANGED <<jobVars, current, serial, fail>>

SystemStart ==
    /\ Call("SystemStart")
    /\ current = Root /\ Top.op = "entry" /\ ~Live(System)
    /\ fiber' = [fiber EXCEPT
                    ![System] = NewFiber(System, Root, "system", serial + 1)]
    /\ serial' = serial + 1
    /\ UNCHANGED <<jobVars, current, fail>>

-----------------------------------------------------------------------------
(* Continuations: what the running fiber does in the host *)

At(op) == Running /\ Top.op = op /\ UNCHANGED <<guest, calls>>

(* Only guest_current changes when a fiber switches. *)
YieldAgain == SetMe(Pushed(Frame("yield")))
              /\ UNCHANGED <<jobVars, current, serial, fail>>
Return     == SetMe(Popped) /\ UNCHANGED <<jobVars, current, serial, fail>>
Resumes(f) == SetMe([f EXCEPT !.wait = "none"])
              /\ UNCHANGED <<jobVars, current, serial, fail>>

(* host_task_yield.  The root, and the System task inside a job, dispatch   *)
(* before and after the switch; a server that awaits messages parks.        *)
Serves == current = Root \/ (current = System /\ Me.active # <<>>)

Switches(idle, serving) ==
    LET parks == /\ current # Root /\ Me.wait = "none" /\ Me.await
                 /\ queue[current] = <<>>
        fr == FrameOn("resumed", IF parks THEN current ELSE None, idle, serving)
        f  == [Replaced(<<fr>>) EXCEPT
                 !.wait   = IF parks THEN "server" ELSE @,
                 !.target = IF parks THEN current ELSE @,
                 !.idle   = @ \/ (serving = 1 /\ current = Root)]
    IN /\ SetMe(f)
       /\ current' = NextGuest([fiber EXCEPT ![current] = f], current)
       /\ UNCHANGED <<jobVars, serial, fail>>

YieldBegins ==
    /\ At("yield")
    /\ IF Serves
       THEN /\ SetMe(Replaced(<<FrameOn("jobs", None, Me.active # <<>>, 0),
                                FrameOn("switch", None, Me.idle, 1)>>))
            /\ UNCHANGED <<jobVars, current, serial, fail>>
       ELSE Switches(Me.idle, 0)

YieldSwitches == At("switch") /\ Switches(Top.flag, 1)

AfterYield(f, fr) ==
    LET g == [f EXCEPT !.stack = Tail(@),
                       !.idle = IF fr.num = 1 THEN fr.flag ELSE @,
                       !.wait = IF fr.on # None THEN "none" ELSE @]
    IN IF f.kill /\ ~f.ending THEN Ended(g) ELSE g

Resumed ==
    /\ At("resumed")
    /\ SetMe(IF Top.num = 1
             THEN Replaced(<<FrameOn("jobs", None, Me.active # <<>>, 0),
                             [Top EXCEPT !.op = "back"]>>)
             ELSE AfterYield(Me, Top))
    /\ UNCHANGED <<jobVars, current, serial, fail>>

YieldReturns ==
    /\ At("back")
    /\ SetMe(AfterYield(Me, Top))
    /\ UNCHANGED <<jobVars, current, serial, fail>>

(* A fiber that has ended enters the next one. *)
EnterNext ==
    /\ fail = "none" /\ ~Live(current)
    /\ current' = NextGuest(fiber, current)
    /\ UNCHANGED <<fiber, jobVars, serial, fail, guest, calls>>

(* guest_trampoline *)
Trampoline ==
    /\ At("start")
    /\ LET begun == [Me EXCEPT !.started = TRUE] IN
       SetMe(CASE Me.kind \in {"exec", "system"} ->
                    [begun EXCEPT !.stack = <<Frame("loop")>>]
               [] OTHER ->
                    IF Me.kill THEN Ended(begun)
                    ELSE [begun EXCEPT !.stack =
                            <<Frame(IF Me.kind = "filter" THEN "filter"
                                    ELSE "entry")>>])
    /\ UNCHANGED <<jobVars, current, serial, fail>>

(* The entry function, or an end callback, returns. *)
CodeReturns ==
    /\ \/ At("callback") /\ SetMe(Popped)
       \/ At("entry") /\ App(current) /\ SetMe(Ended(Me))
    /\ UNCHANGED <<jobVars, current, serial, fail>>

(* zc_idle_step: the shell lets ready children run. *)
ShellIdles ==
    /\ At("entry")
    /\ current = Root /\ Len(Me.stack) = 1 /\ NextGuest(fiber, Root) # Root
    /\ YieldAgain

(* A timer of a waiting fiber expires. *)
Tick ==
    /\ fail = "none"
    /\ \E t \in Tasks :
         /\ Live(t) /\ ~fiber[t].due
         /\ \/ fiber[t].wait \in {"timer", "idle timeout", "message timeout"}
            \/ fiber[t].stack # <<>> /\ Head(fiber[t].stack).op = "get"
               /\ Head(fiber[t].stack).flag
         /\ fiber' = [fiber EXCEPT ![t].due = TRUE]
    /\ UNCHANGED <<jobVars, current, serial, fail, guest, calls>>

-----------------------------------------------------------------------------
(* Waits in the host *)

WaitLoops ==
    /\ At("wait")
    /\ IF WaitReady(fiber, current) THEN Resumes(Popped)
       ELSE IF RootStuck THEN Fails("task wait cannot progress")
       ELSE YieldAgain

SleepLoops ==
    /\ At("sleep")
    /\ IF WaitReady(fiber, current)
       THEN Resumes([Popped EXCEPT !.idle = Top.flag])
       ELSE YieldAgain

TimedWaitLoops ==
    /\ At("timed")
    /\ IF TaskIdle(fiber, current, Top.on) \/ Me.due THEN Resumes(Popped)
       ELSE IF RootStuck THEN Fails("timed task wait cannot progress")
       ELSE YieldAgain

KillLoops ==
    /\ At("kill")
    /\ IF Live(Top.on) /\ (fiber[Top.on].kill \/ ~Top.flag)
       THEN YieldAgain ELSE Return

SliceLoops ==
    /\ At("slice")
    /\ IF Live(Top.on) /\ ~fiber[Top.on].started THEN YieldAgain ELSE Return

ExitRequested ==
    /\ At("exit")
    /\ IF Live(Top.on) THEN KillTask(Top.on, TRUE, Popped) ELSE Return

DeathBegins ==
    /\ At("death")
    /\ SetMe(Waiting(Popped, "death", Top.on, Top.num))
    /\ UNCHANGED <<jobVars, current, serial, fail>>

(* JobResGet, SpawnQueue and Sys take a completed job out of the pool. *)
Takes(j, me) == /\ Collect(j)
                /\ SetMe([me EXCEPT !.wait = "none"])
                /\ UNCHANGED <<queue, current, serial, fail>>

ResultLoops ==
    /\ At("result")
    /\ IF IsDone(Top.on) THEN Takes(Top.on, Popped)
       ELSE IF ~Known(Top.on) THEN Fails("job request ended before completion")
       ELSE IF current = Executive
       THEN Fails("executive cannot wait for its own job")
       ELSE IF RootStuck THEN Fails("job wait cannot progress")
       ELSE /\ SetMe([Pushed(Frame("yield")) EXCEPT !.wait = "job",
                                                    !.target = Top.on])
            /\ UNCHANGED <<jobVars, current, serial, fail>>

SpawnedReturns ==
    /\ At("spawned")
    /\ IF IsDone(Top.on) THEN Takes(Top.on, [Popped EXCEPT !.idle = FALSE])
       ELSE Fails("SpawnQueue request ended before completion")

SysReturns ==
    /\ At("sys")
    /\ IF IsDone(Top.on) THEN Takes(Top.on, Popped)
       ELSE Fails("system request did not complete")

(* host_message_scan of the caller's own queue: its jobs first, then the    *)
(* message at the head.                                                     *)
GetScans ==
    /\ At("get")
    /\ SetMe([Replaced((IF DispatchBlocks THEN <<>>
                        ELSE <<FrameOn("jobs", None, FALSE, 0)>>)
                       \o <<[Top EXCEPT !.op = "take"]>>) EXCEPT
                 !.idle = FALSE,
                 !.wait = IF Top.flag THEN @ ELSE "none"])
    /\ UNCHANGED <<jobVars, current, serial, fail>>

GetTakes ==
    /\ At("take")
    /\ LET q == queue[current]
           timed == Top.flag
           loop == <<Frame("yield"), [Top EXCEPT !.op = "get"]>>
       IN IF q # <<>> /\ job[Head(q)].kind = "msg"
          THEN /\ queue' = [queue EXCEPT ![current] = Tail(@)]
               /\ job' = [job EXCEPT ![Head(q)] = NoJob]
               /\ SetMe([Popped EXCEPT !.idle = FALSE, !.wait = "none"])
               /\ UNCHANGED <<done, current, serial, fail>>
          ELSE IF timed /\ Me.due
          THEN /\ SetMe([Popped EXCEPT !.idle = TRUE, !.wait = "none"])
               /\ UNCHANGED <<jobVars, current, serial, fail>>
          ELSE IF current = Root /\ NextGuest(fiber, Root) = Root
                  /\ ~(timed /\ (TimerPending \/ ~Me.susp))
          THEN Fails("message wait cannot progress")
          ELSE /\ SetMe([Replaced(loop) EXCEPT
                   !.idle = TRUE,
                   !.wait = IF timed THEN "message timeout" ELSE "message",
                   !.target = IF timed THEN @ ELSE current])
               /\ UNCHANGED <<jobVars, current, serial, fail>>

RunLoops ==
    /\ At("run")
    /\ IF NextGuest(fiber, Root) # Root THEN YieldAgain
       ELSE ~TimerPending /\ Return

(* The rest of host_task_text, with the reserved job Top.num. *)
TextQueued ==
    /\ At("text")
    /\ LET t == Top.on
           j == Top.num
           f == fiber[t].filter
           usable == IF f = t THEN FreeSlots # {}
                     ELSE /\ ~Top.flag /\ Live(f)
                          /\ fiber[f].kind = "filter" /\ fiber[f].parent = t
       IN IF ~Live(t) \/ ~usable
          THEN /\ job' = [job EXCEPT ![j] = NoJob]
               /\ SetMe(Popped)
               /\ UNCHANGED <<queue, done, current, serial, fail>>
          ELSE LET i == IF f = t THEN FirstSlot ELSE f
                   made == [NewFiber(i, t, "filter", serial + 1) EXCEPT
                               !.filter = t]
                   back == [fiber EXCEPT ![current] = Popped]
               IN /\ fiber' = IF f = t
                              THEN [back EXCEPT ![t].filter = i, ![i] = made]
                              ELSE [back EXCEPT ![i] = Woken(@)]
                  /\ serial' = IF f = t THEN serial + 1 ELSE serial
                  /\ queue' = [queue EXCEPT ![i] = Append(@, j)]
                  /\ UNCHANGED <<done, job, current, fail>>

-----------------------------------------------------------------------------
(* Dispatching jobs *)

(* One round of host_jobs_handler_mode: FIFO, except that a nested dispatch *)
(* takes system requests only, as the root does behind a message.           *)
Dispatch ==
    /\ At("jobs")
    /\ LET q == queue[current]
           behind == current = Root /\ q # <<>> /\ job[Head(q)].kind = "msg"
           cand == IF Top.flag \/ behind
                   THEN Only(q, {k \in ToSet(q) : "sys" \in job[k].flags}) ELSE q
           j == Head(cand)
       IN IF CallOnExecutive
          THEN Fails("job dispatch during executive callback")
          ELSE IF Len(Me.active) >= DepthMax
          THEN Fails("nested job dispatch depth exceeded")
          ELSE IF cand = <<>> \/ job[j].kind \notin {"exe", "call", "spawn"}
          THEN Return
          ELSE /\ queue' = [queue EXCEPT ![current] = Without(@, j)]
               /\ SetMe([Pushed(FrameOn("body", j, FALSE, 0)) EXCEPT
                            !.active = <<j>> \o @, !.idle = FALSE])
               /\ UNCHANGED <<done, job, current, serial, fail>>

(* The job's body has returned, or raised an exception: wake the master,    *)
(* publish or delete the job, and exit if it asks for it.                   *)
JobCompletes ==
    /\ At("body")
    /\ LET j  == Top.on
           r  == job[j]
           m  == r.master
           me == [Popped EXCEPT !.active = Tail(@)]
           spawns == r.kind = "spawn" /\ Live(r.arg) /\ FreeSlots # {}
           woken == IF Live(m) /\ "wake" \in r.flags
                    THEN [fiber EXCEPT ![m].susp = FALSE] ELSE fiber
           drop == \/ r.kind = "text"
                   \/ "free" \in r.flags
                   \/ m # None /\ ~Live(m)
       IN /\ fiber' = [t \in Tasks |->
               IF t = current
               THEN IF "exit" \in r.flags THEN Ended(me) ELSE me
               ELSE IF spawns /\ t = FirstSlot
               THEN NewFiber(t, r.arg, "entry", serial + 1)
               ELSE woken[t]]
          /\ serial' = IF spawns THEN serial + 1 ELSE serial
          /\ job' = [job EXCEPT ![j] =
               IF drop THEN NoJob
               ELSE [r EXCEPT !.flags = @ \cup {"done"}]]
          /\ done' = IF drop THEN done
                     ELSE [done EXCEPT ![IF Live(m) THEN m ELSE current] =
                              Append(@, j)]
    /\ UNCHANGED <<queue, current, fail>>

(* guest_executive_loop, and ServerTaskCont of the pinned KTask.ZC: handle  *)
(* jobs, discard messages, then wait for the next.                          *)
ServerLoops ==
    \/ /\ At("loop")
       /\ SetMe(Replaced(<<FrameOn("jobs", None, FALSE, 0), Frame("idle")>>))
       /\ UNCHANGED <<jobVars, current, serial, fail>>
    \/ /\ At("idle")
       /\ LET q == queue[current] IN
          IF current = System /\ q # <<>> /\ job[Head(q)].kind = "msg"
          THEN /\ queue' = [queue EXCEPT ![current] = Tail(@)]
               /\ job' = [job EXCEPT ![Head(q)] = NoJob]
               /\ SetMe(Replaced(<<Frame("loop")>>))
               /\ UNCHANGED <<done, current, serial, fail>>
          ELSE /\ SetMe([Replaced(<<Frame("yield"), Frame("loop")>>) EXCEPT
                            !.idle = TRUE, !.await = TRUE])
               /\ UNCHANGED <<jobVars, current, serial, fail>>

(* guest_input_filter_loop: messages go to the server, other jobs to the    *)
(* handler, text is executed; an empty queue ends the filter.               *)
FilterLoops ==
    /\ At("filter")
    /\ LET q == queue[current]
           j == Head(q)
           p == Me.parent
       IN IF q = <<>> \/ (job[j].kind = "msg" /\ ~Live(p))
          THEN /\ SetMe(Ended(Me))
               /\ UNCHANGED <<jobVars, current, serial, fail>>
          ELSE IF job[j].kind = "msg"
          THEN /\ queue' = [queue EXCEPT ![current] = Tail(@),
                                         ![p] = Append(@, j)]
               /\ fiber' = [fiber EXCEPT ![p] = Woken(@)]
               /\ UNCHANGED <<done, job, current, serial, fail>>
          ELSE IF job[j].kind = "text"
          THEN /\ queue' = [queue EXCEPT ![current] = Tail(@)]
               /\ SetMe([Pushed(FrameOn("body", j, FALSE, 0)) EXCEPT
                            !.active = <<j>> \o @, !.idle = FALSE])
               /\ UNCHANGED <<done, job, current, serial, fail>>
          ELSE /\ SetMe(Pushed(FrameOn("jobs", None, FALSE, 0)))
               /\ UNCHANGED <<jobVars, current, serial, fail>>

TeardownNoChildren ==   \* mutant
    /\ At("teardown")
    /\ IF Me.cb
       THEN /\ SetMe([Pushed(Frame("callback")) EXCEPT !.cb = FALSE])
            /\ UNCHANGED <<jobVars, current, serial, fail>>
       ELSE TryFinish(current, fiber)

TeardownNoCallback ==   \* mutant
    At("teardown") /\ TryFinish(current, fiber)

(* The rest of end_guest_current: the end callback, then the children,      *)
(* then the task itself.                                                    *)
Teardown ==
    /\ At("teardown")
    /\ IF Me.cb
       THEN /\ SetMe([Pushed(Frame("callback")) EXCEPT !.cb = FALSE])
            /\ UNCHANGED <<jobVars, current, serial, fail>>
       ELSE IF Children(current) # {}
       THEN /\ fiber' = [t \in Tasks |->
                 IF t = current THEN Pushed(Frame("yield"))
                 ELSE IF t \in Children(current) /\ ~fiber[t].ending
                 THEN [fiber[t] EXCEPT !.kill = TRUE] ELSE fiber[t]]
            /\ UNCHANGED <<jobVars, current, serial, fail>>
       ELSE TryFinish(current, fiber)

-----------------------------------------------------------------------------

Init ==
    /\ fiber = [t \in Tasks |->
                  IF t = Root
                  THEN [NewFiber(Root, None, "root", 0) EXCEPT
                          !.stack = <<Frame("entry")>>, !.started = TRUE]
                  ELSE Unused]
    /\ queue = [t \in Tasks |-> <<>>]
    /\ done = [t \in Tasks |-> <<>>]
    /\ job = [j \in Jobs |-> NoJob]
    /\ current = Root
    /\ serial = 0
    /\ fail = "none"
    /\ guest \in Guests
    /\ calls = 0

GuestCall ==
    \/ Spawn \/ SetCallback \/ Suspend \/ Kill \/ Exit \/ Yield \/ Sleep
    \/ BirthWait \/ DeathWait \/ TaskWait
    \/ TaskExe \/ Sys \/ JobQueue \/ SpawnQueue \/ JobResGet \/ JobsHandler
    \/ MessagePost \/ MessageGet \/ TaskText \/ TaskRun \/ SystemStart

Host ==
    \/ YieldBegins \/ YieldSwitches \/ Resumed \/ YieldReturns
    \/ EnterNext \/ Trampoline \/ CodeReturns \/ ShellIdles
    \/ WaitLoops \/ SleepLoops \/ TimedWaitLoops \/ KillLoops \/ SliceLoops
    \/ ExitRequested \/ DeathBegins
    \/ ResultLoops \/ SpawnedReturns \/ SysReturns
    \/ GetScans \/ GetTakes \/ RunLoops \/ TextQueued
    \/ Dispatch \/ JobCompletes \/ ServerLoops \/ FilterLoops \/ Teardown

Next == GuestCall \/ Host \/ Tick

(* The CPU always runs the current fiber, guest code returns, time passes. *)
Spec == Init /\ [][Next]_vars /\ WF_vars(Host) /\ WF_vars(Tick)

-----------------------------------------------------------------------------
(* Properties *)

FrameOps == {"start", "entry", "body", "callback", "yield", "switch",
    "resumed", "back", "loop", "idle", "filter", "teardown", "jobs", "wait",
    "sleep", "timed", "kill", "slice", "exit", "death", "result", "spawned",
    "sys", "get", "take", "text", "run"}

TypeOK ==
    /\ \A t \in Tasks :
         /\ fiber[t].state \in {"unused", "run", "done"}
         /\ fiber[t].parent \in Tasks \cup {None}
         /\ fiber[t].filter \in Tasks \cup {None}
         /\ fiber[t].target \in Tasks \cup Jobs \cup {None}
         /\ \A k \in DOMAIN fiber[t].stack : fiber[t].stack[k].op \in FrameOps
         /\ Live(t) => fiber[t].stack # <<>>
         /\ queue[t] \in Seq(Jobs) /\ done[t] \in Seq(Jobs)
         /\ fiber[t].active \in Seq(Jobs)
    /\ \A j \in Jobs : job[j].kind \in
                         {"none", "exe", "call", "spawn", "msg", "text"}
    /\ current \in Tasks
    /\ calls \in 0 .. guest.calls

(* The consistency checks of finish_guest never fire: whatever tasks spawn, *)
(* kill, suspend and wait for each other, no task is ended before its       *)
(* children and no parent vanishes under a child, and every live task has a *)
(* stack to return on.                                                      *)
TreeIntact ==
    /\ TypeOK
    /\ fail \notin {"task ended before its children", "guest task parent vanished"}

(* No kill, exit or job-driven end discards a task whose end callback is    *)
(* installed and has not been run.                                          *)
CallbacksRun ==
    [][\A t \in Tasks : Live(t) /\ fiber'[t].state = "done" => ~fiber[t].cb]_vars

(* A task that was asked to end, or that is ending, does end, even if it    *)
(* was suspended or waiting when it was asked; only a task that is          *)
(* suspended while it ends, or whose end callback waits for another task,   *)
(* can hold the teardown up.                                                *)
HeldUp == \E c \in Tasks :
    /\ Live(c) /\ fiber[c].ending
    /\ \/ fiber[c].susp
       \/ \E k \in DOMAIN fiber[c].stack :
             fiber[c].stack[k].op \in {"wait", "kill", "slice"}
TeardownEnds ==
    \A t \in Tasks : (Live(t) /\ (fiber[t].kill \/ fiber[t].ending))
                        ~> (~Live(t) \/ HeldUp \/ fail # "none")

(* Every job of the bounded pool is in exactly one place, a queue, a done   *)
(* list or a dispatch of a live task (or reserved by TaskText), and every   *)
(* job those hold is in the pool: no end of a task leaks an entry or leaves *)
(* one behind in two lists.                                                 *)
Places(j) == {x \in Tasks \X {"queue", "done", "active"} \X (1 .. JobsMax) :
                LET l == [queue |-> queue[x[1]], done |-> done[x[1]],
                          active |-> fiber[x[1]].active][x[2]]
                IN x[3] <= Len(l) /\ l[x[3]] = j}
JobsAccounted ==
    \A j \in Jobs :
      LET p == Places(j) IN
      IF job[j].kind = "none" THEN p = {}
      ELSE /\ \/ Cardinality(p) = 1
              \/ p = {} /\ job[j].kind = "text"
           /\ \A x \in p : Live(x[1]) /\ (x[2] = "done" <=> "done" \in job[j].flags)

(* A source job that is being run when its server ends is completed for the *)
(* task that waits for it: the waiter never finds the job gone.             *)
InFlightKept ==
    [][\A t \in Tasks, j \in Jobs :
         /\ Live(t) /\ fiber'[t].state = "run"
         /\ fiber[t].wait = "job" /\ fiber[t].target = j
         /\ \E s \in Tasks : j \in ToSet(fiber[s].active)
         /\ job[j].kind = "exe" /\ "free" \notin job[j].flags
         /\ job[j].master \in {None, t}
         => job'[j] # NoJob]_vars

(* Input stays in the order in which it was posted, although motion is      *)
(* coalesced and an input filter passes messages on to its server.          *)
Input(t) == LET up == fiber[t].filter
                q  == IF up \in Tasks \ {t} /\ Live(up)
                      THEN queue[t] \o queue[up] ELSE queue[t]
            IN Messages(q)
InputOrdered ==
    \A t \in Tasks : Live(t) /\ fiber[t].kind # "filter" =>
      LET in == Input(t) IN
      \A k \in 1 .. Len(in) - 1 : job[in[k]].arg < job[in[k + 1]].arg

(* A message that sits in an input filter's queue is never lost: when the   *)
(* filter ends or is killed, its server gets it, unless text that the       *)
(* filter runs reads it.                                                    *)
FilterKeepsInput ==
    [][\A t \in Tasks : Live(t) /\ fiber[t].kind = "filter" =>
         \A j \in ToSet(queue[t]) :
           job[j].kind = "msg" => \/ job'[j] # NoJob
                                  \/ current = t /\ Top.op = "take"]_vars

(* DeathWait returns only when the awaited task is no longer running.       *)
DeathWaitParks ==
    [][/\ Live(current) /\ Top.op = "wait" /\ Top.flag
       /\ fiber'[current].stack = Tail(Me.stack)
       => ~Live(Top.on)]_vars
====
