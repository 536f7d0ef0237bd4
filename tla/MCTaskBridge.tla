----------------------------- MODULE MCTaskBridge -----------------------------
(* Guest programs for TaskBridge: tasks that start, hold up and end each     *)
(* other, programs that work through jobs and messages, and the few calls    *)
(* that make a wait meet a nested one.                                       *)
EXTENDS TaskBridge

TreePrograms ==
    [calls |-> 5,
     api |-> {"Spawn", "Callback", "Suspend", "Kill", "Exit", "Sleep",
              "DeathWait", "BirthWait"}]
JobPrograms ==
    [calls |-> 3,
     api |-> {"Spawn", "Kill", "Exit", "Yield", "Sleep", "TaskWait", "TaskRun",
              "TaskExe", "Sys", "JobQueue", "SpawnQueue", "JobResGet",
              "JobsHandler", "Message", "MessageGet", "TaskText",
              "SystemStart"}]
WaitPrograms ==
    [calls |-> 4, api |-> {"Spawn", "DeathWait", "TaskExe", "Sleep", "Yield"}]

TreesAndJobs == {TreePrograms, JobPrograms}
NestedWaits == {WaitPrograms}
================================================================================
