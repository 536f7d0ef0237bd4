------------------------------ MODULE UsbInput ------------------------------
(***************************************************************************)
(* The polled USB input of usb_xhci.h and the hand-over between USB and    *)
(* VirtIO of usb_input.h: device records with their DMA memory, slots of   *)
(* the controller, hot plug on root and hub ports, and the owners of the   *)
(* keyboard and the pointer.                                               *)
(*                                                                         *)
(* usb_poll is a tree of calls in which every command and every control    *)
(* transfer waits, and a wait handles whatever else has arrived. "todo" is *)
(* what is left of the calls, the next one first. Devices are plugged and  *)
(* events arrive while the driver waits and between polls. Events of one   *)
(* record have the same TRB addresses in each of its lives, since its      *)
(* rings start over. There is one controller; the several reads of         *)
(* descriptors are one transfer, and so are the requests of a hub port's   *)
(* reset; and what a report says is left out.                              *)
(***************************************************************************)
EXTENDS Integers, Sequences, FiniteSets, SequencesExt, FiniteSetsExt

CONSTANTS
    Devs,           \* USB_DEVS: the number of records
    Slots,          \* the controller's slots
    Ports,          \* its root ports, 1 .. Ports
    Sites,          \* root ports p, and port k of a hub at p as 10 * p + k
    Fits,           \* Fits[s]: the devices that may be plugged in at s
    Starts,         \* what may be plugged in at boot
    VirtIO,         \* the machine also has a VirtIO keyboard and tablet
    Budgets         \* bounds on plugging and unplugging, on reports, and on
                    \* failures that no unplugging explains

ASSUME UsbAssumption ==
    /\ {Devs, Slots, Ports} \subseteq Nat
    /\ Starts \subseteq [Sites -> (UNION {Fits[s] : s \in Sites}) \union {"none"}]
    /\ Budgets \subseteq [plugs : Nat, reports : Nat, faults : Nat]
    /\ 1 .. Ports \subseteq Sites
    /\ \A s \in Sites : s \in 1 .. Ports \/ s \div 10 \in Sites

VARIABLES
    plug,       \* what is plugged in at a site
    changed,    \* the connect-change bit of a port
    reset,      \* the device at a site was reset since it came
    slot,       \* the controller's slots: on, and whose device answers (live)
    dcbaa,      \* the record whose memory a slot uses
    events,     \* the event ring
    running,    \* hc->running
    dev,        \* g_usb.devices
    keyboard,   \* g_usb.keyboard, <<record, endpoint>>
    pointer,    \* g_usb.pointer
    port,       \* the usb_port_state of a site
    todo,       \* calls still to be made
    wait,       \* the command or transfer that is waited for
    vk, vt,     \* the VirtIO keyboard and tablet: ready, parked
    plugs, reports, faults,
    budget      \* the bounds of this behaviour

busVars == <<plug, changed, reset>>
hwVars == <<slot, dcbaa>>
ownVars == <<keyboard, pointer>>
virtioVars == <<vk, vt>>
counters == <<plugs, reports, faults, budget>>
vars == <<busVars, hwVars, events, running, dev, ownVars, port, todo, wait,
          virtioVars, counters>>

None == <<0, 0>>
Hub(s) == s \div 10
Ancestors(s) == {s \div 10, s \div 100} \ {0}

\* A device is on the bus if all hubs above it are.
Reachable(s) ==
    /\ plug[s] # "none"
    /\ \A a \in Ancestors(s) : plug[a] = "hub"
Below(s) == {x \in Sites : s = x \/ s \in Ancestors(x)}

\* The interrupt endpoints that usb_config_parse and the report descriptors
\* accept.
EpKinds(kind) ==
    CASE kind = "keyboard" -> <<"keyboard">>
      [] kind = "combo" -> <<"keyboard", "mouse">>
      [] kind = "tablet" -> <<"tablet">>
      [] kind = "hub" -> <<"hub">>
      [] OTHER -> <<>>

\* "out": its transfer is in the controller's hands.
Endpoint(k) == [kind |-> k, active |-> FALSE, failed |-> FALSE, out |-> FALSE]
NoDevice == [present |-> FALSE, configured |-> FALSE, failed |-> FALSE,
             quarantined |-> FALSE, slot |-> 0, site |-> 0, parent |-> 0,
             kind |-> "none", ep |-> <<>>, hub_pending |-> FALSE]
NoPort == [connected |-> FALSE, attempted |-> FALSE]
NoWait == [for |-> "none", d |-> 0, what |-> "none", sent |-> FALSE,
           done |-> TRUE, ok |-> FALSE, slot |-> 0, kind |-> "none",
           connected |-> FALSE, changed |-> FALSE]

Idle == todo = <<>>
Waiting == ~wait.done
Free == Idle \/ Waiting     \* the outside world moves
Doing(call) == ~Waiting /\ todo # <<>> /\ Head(todo)[1] = call
Arg(k) == Head(todo)[k + 1]
Then(calls) == todo' = calls \o Tail(todo)

-----------------------------------------------------------------------------
(* The world outside.                                                      *)

Plug(s, kind) ==
    /\ Free
    /\ plugs < budget.plugs
    /\ plugs' = plugs + 1
    /\ plug[s] = "none" /\ kind \in Fits[s]
    /\ plug' = [plug EXCEPT ![s] = kind]
    /\ changed' = [x \in Sites |-> IF x = s THEN TRUE
                                   ELSE IF Hub(x) = s THEN plug[x] # "none"
                                   ELSE changed[x]]
    /\ reset' = [x \in Sites |-> x \notin Below(s) /\ reset[x]]
    /\ UNCHANGED <<hwVars, events, running, dev, ownVars, port, todo, wait,
                   virtioVars, reports, faults, budget>>

\* What was plugged in behind a hub goes with it, and stays in it.
Unplug(s) ==
    /\ Free
    /\ plugs < budget.plugs
    /\ plugs' = plugs + 1
    /\ plug[s] # "none"
    /\ plug' = [plug EXCEPT ![s] = "none"]
    /\ changed' = [changed EXCEPT ![s] = TRUE]
    /\ reset' = [x \in Sites |-> x \notin Below(s) /\ reset[x]]
    /\ slot' = [i \in 1 .. Slots |->
                   [slot[i] EXCEPT !.live = @ /\ slot[i].site \notin Below(s)]]
    /\ UNCHANGED <<dcbaa, events, running, dev, ownVars, port, todo, wait,
                   virtioVars, reports, faults, budget>>

Fault == faults < budget.faults /\ faults' = faults + 1
LiveDev(d) == dev[d].slot # 0 /\ slot[dev[d].slot].live /\ dcbaa[dev[d].slot] = d
Arrives(e) == events' = Append(events, e)
Transfer(d, j, ok) ==
    [type |-> "transfer", rec |-> d, ep |-> j, slot |-> dev[d].slot, ok |-> ok]

\* An endpoint completes its transfer: with a report, or, of a hub, with its
\* change bits.
Report(d, j) ==
    /\ Free /\ running
    /\ j \in DOMAIN dev[d].ep /\ dev[d].ep[j].out
    /\ LiveDev(d)
    /\ \/ /\ dev[d].ep[j].kind # "hub"
          /\ reports < budget.reports
          /\ reports' = reports + 1
          /\ Arrives(Transfer(d, j, TRUE))
       \/ /\ dev[d].ep[j].kind = "hub"
          /\ ~dev[d].hub_pending
          /\ \E s \in Sites : Hub(s) = dev[d].site /\ changed[s]
          /\ Arrives(Transfer(d, j, TRUE))
          /\ UNCHANGED reports
    /\ dev' = [dev EXCEPT ![d].ep[j].out = FALSE]
    /\ UNCHANGED <<busVars, hwVars, running, ownVars, port, todo, wait,
                   virtioVars, plugs, faults, budget>>

\* A transfer fails: the device is gone, or stalls.
TransferFails(d, j) ==
    /\ Free /\ running
    /\ j \in DOMAIN dev[d].ep /\ dev[d].ep[j].out
    /\ IF LiveDev(d) THEN Fault ELSE UNCHANGED faults
    /\ Arrives(Transfer(d, j, FALSE))
    /\ dev' = [dev EXCEPT ![d].ep[j].out = FALSE]
    /\ UNCHANGED <<busVars, hwVars, running, ownVars, port, todo, wait,
                   virtioVars, plugs, reports, budget>>

\* A host controller error.
ControllerFails ==
    /\ Free /\ running
    /\ Fault
    /\ Arrives([type |-> "dead"])
    /\ UNCHANGED <<busVars, hwVars, running, dev, ownVars, port, todo, wait,
                   virtioVars, plugs, reports, budget>>

\* A command completes. Disabling a slot ends its transfers.
CommandDone ==
    /\ wait.for = "command" /\ Waiting /\ ~wait.sent /\ running
    /\ wait' = [wait EXCEPT !.sent = TRUE]
    /\ LET off == {i \in 1 .. Slots : ~slot[i].on}
           i == IF off = {} THEN 0 ELSE Min(off)
           my == dev[wait.d].slot
           s == dev[wait.d].site
           Done(ok, n) == Arrives([type |-> "command", ok |-> ok, slot |-> n])
       IN  \/ /\ wait.what = "enable"
              /\ Done(i # 0, i)
              /\ slot' = IF i = 0 THEN slot
                         ELSE [slot EXCEPT ![i] = [on |-> TRUE, live |-> FALSE,
                                                   site |-> 0]]
              /\ UNCHANGED <<dev, faults>>
           \/ /\ wait.what = "address"
              /\ Done(Reachable(s) /\ reset[s], 0)
              /\ slot' = [slot EXCEPT ![my].live = Reachable(s) /\ reset[s],
                                      ![my].site = s]
              /\ UNCHANGED <<dev, faults>>
           \/ /\ wait.what = "configure"
              /\ Done(TRUE, 0)
              /\ UNCHANGED <<slot, dev, faults>>
           \/ /\ wait.what = "disable"
              /\ Done(TRUE, 0)
              /\ slot' = [slot EXCEPT ![my] = [on |-> FALSE, live |-> FALSE,
                                               site |-> 0]]
              /\ dev' = [dev EXCEPT ![wait.d].ep =
                            [j \in DOMAIN @ |-> [@[j] EXCEPT !.out = FALSE]]]
              /\ UNCHANGED faults
           \/ /\ Fault
              /\ Done(FALSE, 0)
              /\ UNCHANGED <<slot, dev>>
    /\ UNCHANGED <<busVars, dcbaa, running, ownVars, port, todo, virtioVars,
                   plugs, reports, budget>>

\* A control transfer completes, with what the device answers.
ControlDone ==
    /\ wait.for = "control" /\ Waiting /\ ~wait.sent /\ running
    /\ LET s == wait.slot       \* the port that a request to a hub names
           Answer(ok) == Arrives([type |-> "control", rec |-> wait.d,
                                  slot |-> dev[wait.d].slot, ok |-> ok])
       IN  \/ /\ LiveDev(wait.d)
              /\ Answer(TRUE)
              /\ wait' = [wait EXCEPT
                             !.sent = TRUE,
                             !.kind = IF wait.what = "describe"
                                      THEN plug[dev[wait.d].site] ELSE "none",
                             !.connected = wait.what \in {"status", "reset"}
                                           /\ plug[s] # "none",
                             !.changed = wait.what = "status" /\ changed[s]]
              /\ changed' = IF \/ wait.what = "ack"
                               \/ wait.what = "reset" /\ plug[s] # "none"
                            THEN [changed EXCEPT ![s] = FALSE] ELSE changed
              /\ reset' = IF wait.what = "reset"
                          THEN [reset EXCEPT ![s] = plug[s] # "none"] ELSE reset
              /\ UNCHANGED faults
           \/ /\ IF LiveDev(wait.d) THEN Fault ELSE UNCHANGED faults
              /\ Answer(FALSE)
              /\ wait' = [wait EXCEPT !.sent = TRUE]
              /\ UNCHANGED <<changed, reset>>
    /\ UNCHANGED <<plug, hwVars, running, dev, ownVars, port, todo, virtioVars,
                   plugs, reports, budget>>

-----------------------------------------------------------------------------
(* usb_events.                                                             *)

\* What the handlers of events change.
Seen == [dev |-> dev, running |-> running, wait |-> wait]

\* usb_keyboard_report, usb_pointer_report, whose keys and motion are left
\* out, and the bits of a hub; the transfer is queued again.
Reported(x, d, j) ==
    [x EXCEPT !.dev[d].ep[j].out = TRUE,
              !.dev[d].hub_pending = @ \/ x.dev[d].ep[j].kind = "hub"]

\* One event. A transfer is recognised by its slot and the address of its
\* TRB; a failed control transfer by its slot alone.
HandleEvent(x, e) ==
    CASE e.type = "dead" -> [x EXCEPT !.running = FALSE]
      [] e.type = "command" /\ x.wait.for = "command" ->
             [x EXCEPT !.wait.done = TRUE, !.wait.ok = e.ok,
                       !.wait.slot = e.slot]
      [] e.type = "control" /\ x.wait.for = "control"
         /\ x.dev[x.wait.d].present /\ x.dev[x.wait.d].slot = e.slot ->
             [x EXCEPT !.wait.done = TRUE, !.wait.ok = e.ok]
      [] e.type = "transfer" /\ x.dev[e.rec].present
         /\ x.dev[e.rec].slot = e.slot
         /\ e.ep \in DOMAIN x.dev[e.rec].ep
         /\ x.dev[e.rec].ep[e.ep].active ->
             IF e.ok THEN Reported(x, e.rec, e.ep)
             ELSE [x EXCEPT !.dev[e.rec].ep[e.ep].active = FALSE,
                            !.dev[e.rec].ep[e.ep].failed = TRUE]
      [] OTHER -> x

\* The next event, for usb_command or usb_control, which wait, or for the call
\* that takes what is on the ring.
Drain == IF running /\ events # <<>> THEN <<<<"events">>>> ELSE <<>>
usb_events ==
    /\ running /\ events # <<>>
    /\ Waiting \/ Doing("events")
    /\ \E x \in {HandleEvent(Seen, Head(events))} :
          /\ dev' = x.dev
          /\ running' = x.running
          /\ wait' = x.wait
          /\ todo' = IF ~Waiting /\ (Len(events) = 1 \/ ~x.running) THEN Tail(todo)
                     ELSE todo
    /\ events' = Tail(events)
    /\ UNCHANGED <<busVars, hwVars, ownVars, port, virtioVars, counters>>

\* Its deadline: a command that is not answered stops the controller, a
\* control transfer only fails its device.
WaitTimesOut ==
    /\ Waiting
    /\ ~running \/ (~wait.sent /\ Fault)
    /\ ~running => UNCHANGED faults
    /\ wait' = [wait EXCEPT !.done = TRUE, !.ok = FALSE]
    /\ running' = (running /\ wait.for # "command")
    /\ dev' = IF wait.for = "control" THEN [dev EXCEPT ![wait.d].failed = TRUE]
              ELSE dev
    /\ UNCHANGED <<busVars, hwVars, events, ownVars, port, todo, virtioVars,
                   plugs, reports, budget>>

-----------------------------------------------------------------------------
(* The calls of usb_poll.                                                  *)

\* A command or a transfer is sent, and the call that takes its result waits.
\* Nothing can be sent to a controller that has stopped.
Ask(for, what, d, site, next) ==
    /\ wait' = [NoWait EXCEPT !.for = for, !.what = what, !.d = d,
                              !.slot = site, !.done = ~running]
    /\ Then(<<next>>)
Answered == wait' = NoWait

usb_child(hub, s) ==
    LET mine == {d \in 1 .. Devs : dev[d].present /\ dev[d].parent = hub
                                   /\ dev[d].site = s}
    IN  IF mine = {} THEN 0 ELSE Min(mine)

\* usb_poll's loop over the records that failed, from record Arg(1) on.
Failed(d) == /\ dev[d].present /\ dev[d].configured
             /\ \/ ~running \/ dev[d].failed
                \/ \E j \in DOMAIN dev[d].ep : dev[d].ep[j].failed
DetachFailed ==
    /\ Doing("failed")
    /\ LET bad == {d \in Arg(1) .. Devs : Failed(d)}
       IN  IF bad = {} THEN Then(<<>>)
           ELSE Then(<<<<"detach", Min(bad)>>, <<"failed", Min(bad) + 1>>>>)
    /\ UNCHANGED <<busVars, hwVars, events, running, dev, ownVars, port, wait,
                   virtioVars, counters>>

\* usb_detach: the devices behind a hub first.
usb_detach ==
    /\ Doing("detach")
    /\ LET d == Arg(1)
           children == SetToSortSeq({c \in 1 .. Devs : dev[c].present
                                         /\ dev[c].parent = d}, LAMBDA a, b : a < b)
       IN  IF dev[d].present
           THEN Then([k \in DOMAIN children |-> <<"detach", children[k]>>]
                     \o <<<<"release", d>>>>)
           ELSE Then(<<>>)
    /\ UNCHANGED <<busVars, hwVars, events, running, dev, ownVars, port, wait,
                   virtioVars, counters>>

\* usb_release_device, and what follows it in usb_detach: the slot is
\* disabled, or the record given up for good.
Owned(d, owner) == owner[1] = d
usb_release_device(d) ==
    /\ keyboard' = IF Owned(d, keyboard) THEN None ELSE keyboard
    /\ pointer' = IF Owned(d, pointer) THEN None ELSE pointer
Release ==
    /\ Doing("release")
    /\ LET d == Arg(1)
           gone == [dev[d] EXCEPT
                       !.present = FALSE, !.configured = FALSE,
                       !.ep = [j \in DOMAIN @ |->
                                  [@[j] EXCEPT !.active = FALSE]]]
       IN  /\ usb_release_device(d)
           /\ IF dev[d].slot # 0 /\ running
              THEN /\ Ask("command", "disable", d, 0, <<"disabled", d>>)
                   /\ dev' = [dev EXCEPT ![d] = gone]
              ELSE /\ dev' = [dev EXCEPT ![d] =
                                 [gone EXCEPT !.quarantined = dev[d].slot # 0,
                                              !.parent = 0]]
                   /\ Then(<<>>)
                   /\ UNCHANGED wait
    /\ UNCHANGED <<busVars, hwVars, events, running, port, virtioVars, counters>>

\* Mutant: a record whose slot could not be disabled is used again.
ReuseAnyway ==
    /\ Doing("disabled")
    /\ dev' = [dev EXCEPT ![Arg(1)].slot = 0, ![Arg(1)].parent = 0]
    /\ Answered
    /\ Then(<<>>)
    /\ UNCHANGED <<busVars, hwVars, events, running, ownVars, port, virtioVars,
                   counters>>

\* The rest of usb_detach: the remaining events are taken off the ring before
\* the record is free.
Disabled ==
    /\ Doing("disabled")
    /\ IF wait.ok
       THEN /\ Then(Drain \o <<<<"drained", Arg(1)>>>>)
            /\ UNCHANGED dev
       ELSE /\ Then(<<>>)
            /\ dev' = [dev EXCEPT ![Arg(1)].quarantined = TRUE, ![Arg(1)].parent = 0]
    /\ Answered
    /\ UNCHANGED <<busVars, hwVars, events, running, ownVars, port, virtioVars,
                   counters>>
Drained ==
    /\ Doing("drained")
    /\ dev' = [dev EXCEPT ![Arg(1)].slot = 0, ![Arg(1)].parent = 0]
    /\ dcbaa' = [dcbaa EXCEPT ![dev[Arg(1)].slot] = 0]
    /\ Then(<<>>)
    /\ UNCHANGED <<busVars, slot, events, running, ownVars, port, wait,
                   virtioVars, counters>>

\* Nothing in usb_scan_port applies to a port: it is not taken as a step.
Quiet(hub, s, connected, change) ==
    /\ ~change
    /\ IF connected
       THEN port[s].connected /\ (usb_child(hub, s) # 0 \/ port[s].attempted)
       ELSE port[s] = NoPort /\ usb_child(hub, s) = 0

\* usb_scan_topology: the root ports in turn, as long as the controller runs.
ScanRoot ==
    /\ Doing("root")
    /\ LET stirred == {p \in Arg(1) .. Ports :
                          running /\ ~Quiet(0, p, plug[p] # "none", changed[p])}
           p == Min(stirred)
       IN  IF stirred = {} THEN Then(<<>>)
           ELSE Then(<<<<"port", 0, p, plug[p] # "none", changed[p], Arg(2)>>,
                       <<"root", p + 1, Arg(2)>>>>)
    /\ UNCHANGED <<busVars, hwVars, events, running, dev, ownVars, port, wait,
                   virtioVars, counters>>

\* Mutant: only a device that is gone is detached, not one that was replaced.
SwapUnnoticed(child, connected, change) == child # 0 /\ ~connected

\* The child of a port must be detached.
MustDetach(child, connected, change) == child # 0 /\ (~connected \/ change)

\* usb_scan_port until usb_port_ack.
usb_scan_port ==
    /\ Doing("port")
    /\ LET hub == Arg(1)
           s == Arg(2)
           child == usb_child(hub, s)
           rest == <<<<"ack", hub, s, Arg(4)>>, <<"attempt", hub, s, Arg(3), Arg(4), Arg(5)>>>>
       IN  IF MustDetach(child, Arg(3), Arg(4))
           THEN Then(<<<<"detach", child>>>> \o rest)
           ELSE Then(rest)
    /\ UNCHANGED <<busVars, hwVars, events, running, dev, ownVars, port, wait,
                   virtioVars, counters>>

\* usb_port_ack: a register of the controller, or a request to the hub whose
\* failure is not looked at.
usb_port_ack ==
    /\ Doing("ack")
    /\ LET hub == Arg(1)
           s == Arg(2)
       IN  IF hub # 0 /\ Arg(3)
           THEN /\ Ask("control", "ack", hub, s, <<"answered">>)
                /\ UNCHANGED changed
           ELSE /\ changed' = IF Arg(3) THEN [changed EXCEPT ![s] = FALSE]
                              ELSE changed
                /\ Then(<<>>)
                /\ UNCHANGED wait
    /\ UNCHANGED <<plug, reset, hwVars, events, running, dev, ownVars, port,
                   virtioVars, counters>>

Ignored ==
    /\ Doing("answered")
    /\ Answered
    /\ Then(<<>>)
    /\ UNCHANGED <<busVars, hwVars, events, running, dev, ownVars, port,
                   virtioVars, counters>>

\* The rest of usb_scan_port: a new connection is left alone until the next
\* scan, except at boot, and gets one attempt.
Attempt ==
    /\ Doing("attempt")
    /\ LET hub == Arg(1)
           s == Arg(2)
           new == ~port[s].connected \/ Arg(4)
           late == usb_child(hub, s) # 0 \/ (port[s].attempted /\ ~new)
                   \/ (new /\ ~Arg(5))
           State(tried) == [connected |-> TRUE, attempted |-> tried]
       IN  \/ /\ ~Arg(3)
              /\ port' = [port EXCEPT ![s] = NoPort]
              /\ Then(<<>>)
              /\ UNCHANGED <<changed, reset, wait, faults>>
           \/ /\ Arg(3) /\ late
              /\ port' = [port EXCEPT ![s] = IF new THEN State(FALSE) ELSE @]
              /\ Then(<<>>)
              /\ UNCHANGED <<changed, reset, wait, faults>>
           \/ /\ Arg(3) /\ ~late /\ hub = 0
              /\ port' = [port EXCEPT ![s] = State(TRUE)]
              /\ \/ /\ plug[s] # "none"
                    /\ reset' = [reset EXCEPT ![s] = TRUE]
                    /\ changed' = [changed EXCEPT ![s] = FALSE]
                    /\ Then(<<<<"attach", 0, s>>>>)
                    /\ UNCHANGED faults
                 \/ /\ IF plug[s] # "none" THEN Fault ELSE UNCHANGED faults
                    /\ Then(<<>>)
                    /\ UNCHANGED <<changed, reset>>
              /\ UNCHANGED wait
           \/ /\ Arg(3) /\ ~late /\ hub # 0
              /\ port' = [port EXCEPT ![s] = State(TRUE)]
              /\ Ask("control", "reset", hub, s, <<"reset", hub, s>>)
              /\ UNCHANGED <<changed, reset, faults>>
    /\ UNCHANGED <<plug, hwVars, events, running, dev, ownVars, virtioVars,
                   plugs, reports, budget>>

\* usb_hub_reset is answered.
HubReset ==
    /\ Doing("reset")
    /\ Then(IF wait.ok /\ wait.connected THEN <<<<"attach", Arg(1), Arg(2)>>>>
            ELSE <<>>)
    /\ Answered
    /\ UNCHANGED <<busVars, hwVars, events, running, dev, ownVars, port,
                   virtioVars, counters>>

\* usb_attach: the first record that is neither in use nor given up. The port
\* states of a hub are part of its record.
usb_attach ==
    /\ Doing("attach")
    /\ LET s == Arg(2)
           free == {d \in 1 .. Devs : ~dev[d].present /\ ~dev[d].quarantined}
           d == Min(free)
       IN  IF free = {} THEN Then(<<>>) /\ UNCHANGED <<dev, port>>
           ELSE /\ dev' = [dev EXCEPT ![d] =
                              [NoDevice EXCEPT !.present = TRUE, !.site = s,
                                               !.parent = Arg(1)]]
                /\ port' = [x \in Sites |-> IF Hub(x) = s THEN NoPort ELSE port[x]]
                /\ Then(<<<<"enumerate", d, 1>>>>)
    /\ UNCHANGED <<busVars, hwVars, events, running, ownVars, wait, virtioVars,
                   counters>>

-----------------------------------------------------------------------------
(* usb_enumerate, one stage per command or group of transfers.             *)

Stages(kind) ==
    <<"enable", "address", "describe", "configure", "select">>
    \o CASE kind = "keyboard" -> <<"protocol">>
         [] kind = "combo" -> <<"protocol", "protocol">>
         [] kind = "hub" -> <<"power">>
         [] OTHER -> <<>>

usb_enumerate ==
    /\ Doing("enumerate")
    /\ LET d == Arg(1)
           stage == Stages(dev[d].kind)[Arg(2)]
       IN  Ask(IF stage \in {"enable", "address", "configure"} THEN "command"
               ELSE "control", stage, d, dev[d].site, <<"enumerated", d, Arg(2)>>)
    /\ UNCHANGED <<busVars, hwVars, events, running, dev, ownVars, port,
                   virtioVars, counters>>

\* An endpoint is activated and may become the owner of its kind of input.
Kind(owner) == dev[owner[1]].ep[owner[2]].kind
Better(owner, kind) ==
    owner = None \/ (Kind(owner) = "mouse" /\ kind = "tablet")
Activated(d, j) ==
    LET kind == dev[d].ep[j].kind
    IN  /\ dev' = [dev EXCEPT ![d].configured = TRUE, ![d].ep[j].active = TRUE,
                              ![d].ep[j].out = TRUE]
        /\ keyboard' = IF kind = "keyboard" /\ keyboard = None THEN <<d, j>>
                       ELSE keyboard
        /\ pointer' = IF kind \in {"mouse", "tablet"} /\ Better(pointer, kind)
                      THEN <<d, j>> ELSE pointer

\* A stage has succeeded, or the device is rejected.
Enumerated ==
    /\ Doing("enumerated")
    /\ LET d == Arg(1)
           i == Arg(2)
           stage == Stages(dev[d].kind)[i]
           kinds == EpKinds(wait.kind)
           bad == ~wait.ok \/ (stage = "describe" /\ kinds = <<>>)
           Next(kind) == IF i < Len(Stages(kind)) THEN <<<<"enumerate", d, i + 1>>>>
                         ELSE <<>>
       IN  \/ /\ bad
              /\ Then(<<<<"detach", d>>>>)
              /\ UNCHANGED <<dev, ownVars, dcbaa>>
           \/ /\ ~bad /\ stage = "enable"
              /\ dev' = [dev EXCEPT ![d].slot = wait.slot]
              /\ dcbaa' = [dcbaa EXCEPT ![wait.slot] = d]
              /\ Then(Next("none"))
              /\ UNCHANGED ownVars
           \/ /\ ~bad /\ stage = "describe"
              /\ dev' = [dev EXCEPT ![d].kind = wait.kind,
                                    ![d].ep = [j \in DOMAIN kinds |->
                                                  Endpoint(kinds[j])]]
              /\ Then(Next(wait.kind))
              /\ UNCHANGED <<ownVars, dcbaa>>
           \/ /\ ~bad /\ stage = "select"
              /\ IF dev[d].kind \in {"tablet", "hub"} THEN Activated(d, 1)
                 ELSE /\ dev' = [dev EXCEPT ![d].configured = TRUE]
                      /\ UNCHANGED ownVars
              /\ Then(Next(dev[d].kind))
              /\ UNCHANGED dcbaa
           \/ /\ ~bad /\ stage = "protocol"
              /\ Activated(d, i - 5)
              /\ Then(Next(dev[d].kind))
              /\ UNCHANGED dcbaa
           \/ /\ ~bad /\ stage \in {"address", "configure", "power"}
              /\ dev' = [dev EXCEPT ![d].hub_pending = stage = "power"]
              /\ Then(Next(dev[d].kind))
              /\ UNCHANGED <<ownVars, dcbaa>>
    /\ Answered
    /\ UNCHANGED <<busVars, slot, events, running, port, virtioVars, counters>>

-----------------------------------------------------------------------------
(* The ports of hubs, and the owners.                                      *)

\* usb_scan_topology's loop over hubs, from record Arg(1) on. A hub is asked
\* about all its ports at boot and once a second (Arg(3)), and about those
\* that changed or wait for their attempt.
ScanHubs ==
    /\ Doing("hubs")
    /\ LET hubs == {d \in Arg(1) .. Devs : /\ dev[d].present /\ dev[d].configured
                                           /\ dev[d].kind = "hub" /\ running}
           d == Min(hubs)
           all == Arg(3) \/ dev[d].hub_pending
           due == {s \in Sites : Hub(s) = dev[d].site
                       /\ (all \/ (port[s].connected /\ ~port[s].attempted))}
       IN  IF hubs = {} THEN Then(<<>>) /\ UNCHANGED dev
           ELSE /\ dev' = [dev EXCEPT ![d].hub_pending = FALSE]
                /\ Then(<<<<"hubport", d, SetToSortSeq(due, LAMBDA a, b : a < b), Arg(2)>>,
                          <<"hubs", d + 1, Arg(2), Arg(3)>>>>)
    /\ UNCHANGED <<busVars, hwVars, events, running, ownVars, port, wait,
                   virtioVars, counters>>

\* usb_hub_status of the next port.
AskHub ==
    /\ Doing("hubport")
    /\ IF Arg(2) = <<>> THEN Then(<<>>) /\ UNCHANGED wait
       ELSE Ask("control", "status", Arg(1), Head(Arg(2)),
                <<"hubstatus", Arg(1), Arg(2), Arg(3)>>)
    /\ UNCHANGED <<busVars, hwVars, events, running, dev, ownVars, port,
                   virtioVars, counters>>

HubStatus ==
    /\ Doing("hubstatus")
    /\ LET d == Arg(1)
           s == Head(Arg(2))
           scan == <<"port", d, s, wait.connected, wait.changed, Arg(3)>>
           quiet == Quiet(d, s, wait.connected, wait.changed)
       IN  IF wait.ok
           THEN /\ Then((IF quiet THEN <<>> ELSE <<scan>>)
                        \o <<<<"hubport", d, Tail(Arg(2)), Arg(3)>>>>)
                /\ UNCHANGED dev
           ELSE Then(<<>>) /\ dev' = [dev EXCEPT ![d].failed = TRUE]
    /\ Answered
    /\ UNCHANGED <<busVars, hwVars, events, running, ownVars, port, virtioVars,
                   counters>>

\* Endpoints that may own a kind of input, in the order of the records.
Before(a, b) == a[1] < b[1] \/ (a[1] = b[1] /\ a[2] < b[2])
Active(kinds) ==
    SetToSortSeq({<<d, j>> \in (1 .. Devs) \X (1 .. 2) :
                      /\ dev[d].present /\ dev[d].configured /\ running
                      /\ j \in DOMAIN dev[d].ep /\ dev[d].ep[j].active
                      /\ dev[d].ep[j].kind \in kinds}, Before)
Ready(owner) == owner # None /\ dev[owner[1]].ep[owner[2]].active

\* usb_select_owners: an owner that is not active loses its place, an active
\* endpoint takes an empty one, and a tablet that of a mouse.
usb_select_owners ==
    /\ Doing("owners")
    /\ LET kept == IF Ready(keyboard) THEN keyboard ELSE None
           keys == Active({"keyboard"})
           points == Active({"mouse", "tablet"})
           Take(o, c) == IF Better(o, Kind(c)) THEN c ELSE o
           first == IF Ready(pointer) THEN pointer ELSE None
           last == FoldLeft(Take, first, points)
       IN  /\ keyboard' = IF kept = None /\ keys # <<>> THEN Head(keys) ELSE kept
           /\ pointer' = last
    /\ Then(<<>>)
    /\ UNCHANGED <<busVars, hwVars, events, running, dev, port, wait,
                   virtioVars, counters>>

\* input_poll after usb_poll: the VirtIO transports are parked while USB owns
\* their input, and started again when it does not.
NeverUnparked(v, ready) ==                                         \* mutant
    IF ready /\ v.ready THEN [ready |-> FALSE, parked |-> TRUE] ELSE v
Parked(v, ready) ==
    IF ready /\ v.ready THEN [ready |-> FALSE, parked |-> TRUE]
    ELSE IF ~ready /\ v.parked THEN [ready |-> TRUE, parked |-> FALSE] ELSE v
Park ==
    /\ Doing("park")
    /\ vk' = Parked(vk, Ready(keyboard))
    /\ vt' = Parked(vt, Ready(pointer))
    /\ Then(<<>>)
    /\ UNCHANGED <<busVars, hwVars, events, running, dev, ownVars, port,
                   wait, counters>>

\* input_poll: the topology is scanned every 100 ms, and all ports of the
\* hubs every second.
Scan(boot, all) == <<<<"root", 1, boot>>, <<"hubs", 1, boot, all>>, <<"owners">>>>
Poll(scan) == <<<<"failed", 1>>>> \o scan \o <<<<"owners">>, <<"park">>>>
usb_poll(scan) ==
    /\ Idle
    /\ todo' = Drain \o Poll(IF scan = "none" THEN <<>> ELSE Scan(FALSE, scan = "all"))
    /\ UNCHANGED <<busVars, hwVars, events, running, dev, ownVars, port, wait,
                   virtioVars, counters>>

-----------------------------------------------------------------------------
\* usb_init up to its scan: the controller runs or could not be started. The
\* first input_poll follows at once.
Init ==
    /\ plug \in Starts
    /\ changed = [s \in Sites |-> plug[s] # "none"]
    /\ reset = [s \in Sites |-> FALSE]
    /\ slot = [i \in 1 .. Slots |-> [on |-> FALSE, live |-> FALSE, site |-> 0]]
    /\ dcbaa = [i \in 1 .. Slots |-> 0]
    /\ events = <<>>
    /\ running \in BOOLEAN
    /\ dev = [d \in 1 .. Devs |-> NoDevice]
    /\ keyboard = None /\ pointer = None
    /\ port = [s \in Sites |-> NoPort]
    /\ todo = Scan(TRUE, TRUE) \o Poll(<<>>)
    /\ wait = NoWait
    /\ vk = [ready |-> VirtIO, parked |-> FALSE] /\ vt = vk
    /\ plugs = 0 /\ reports = 0 /\ faults = 0
    /\ budget \in Budgets

World ==
    \/ \E s \in Sites : Unplug(s) \/ \E kind \in Fits[s] : Plug(s, kind)
    \/ \E d \in 1 .. Devs, j \in 1 .. 2 : Report(d, j) \/ TransferFails(d, j)
    \/ ControllerFails

Controller == CommandDone \/ ControlDone \/ WaitTimesOut

Driver ==
    \/ usb_events \/ DetachFailed \/ usb_detach \/ Release \/ Disabled \/ Drained
    \/ ScanRoot \/ usb_scan_port \/ usb_port_ack \/ Ignored \/ Attempt
    \/ HubReset \/ usb_attach \/ usb_enumerate \/ Enumerated
    \/ ScanHubs \/ AskHub \/ HubStatus \/ usb_select_owners \/ Park

Next ==
    \/ World \/ Controller \/ Driver
    \/ \E scan \in {"none", "ports", "all"} : usb_poll(scan)

\* The processor runs the driver, a request is answered or its deadline
\* passes, and polls recur while the clock advances.
Spec ==
    /\ Init /\ [][Next]_vars
    /\ WF_vars(Driver \/ Controller)
    /\ SF_vars(usb_poll("all"))

-----------------------------------------------------------------------------
TypeOK ==
    /\ running \in BOOLEAN
    /\ dcbaa \in [1 .. Slots -> 0 .. Devs]
    /\ \A d \in 1 .. Devs : /\ dev[d].slot \in 0 .. Slots
                            /\ dev[d].parent \in 0 .. Devs
                            /\ dev[d].site \in Sites \union {0}
    /\ {keyboard, pointer} \subseteq (0 .. Devs) \X (0 .. 2)
    /\ faults \in 0 .. budget.faults

\* "no memory possibly owned by DMA is recycled" (usb_dev_alloc): the memory
\* that a slot of the controller uses belongs to the record that holds the
\* slot, is given up, or is just being taken back; and a record that
\* usb_attach may take has no slot, no transfer and no event left that could
\* be taken for one of its next life.
MemoryExclusive ==
    /\ TypeOK
    /\ \A i \in 1 .. Slots : slot[i].on /\ dcbaa[i] # 0 => dev[dcbaa[i]].slot = i
    /\ \A d \in 1 .. Devs :
          ~dev[d].present /\ ~dev[d].quarantined
              /\ Range(todo) \intersect {<<"disabled", d>>, <<"drained", d>>} = {} =>
            /\ \A i \in 1 .. Slots : slot[i].on => dcbaa[i] # d
            /\ \A j \in DOMAIN dev[d].ep : ~dev[d].ep[j].out
            /\ running => \A k \in DOMAIN events :
                   events[k].type = "transfer" => events[k].rec # d

\* After a poll there is one owner for the keyboard if any keyboard works, a
\* working one, and likewise for the pointer, where a tablet goes before a
\* mouse; and after input_poll the VirtIO device is live exactly if USB does
\* not own its input: never both, never neither.
OneInputPath ==
    Idle =>
        /\ \A o \in {keyboard, pointer} : o # None =>
               dev[o[1]].present /\ dev[o[1]].configured /\ Ready(o)
        /\ Active({"keyboard"}) # <<>> => keyboard # None
        /\ Active({"tablet"}) # <<>> => pointer # None /\ Kind(pointer) = "tablet"
        /\ Active({"mouse"}) # <<>> => pointer # None
        /\ VirtIO => /\ vk.ready <=> ~Ready(keyboard)
                     /\ vt.ready <=> ~Ready(pointer)

\* Input follows the plugs: again and again there is a moment at which no
\* owner is a device that has left the bus and, unless something else than
\* unplugging has gone wrong, a keyboard that is on the bus means that one
\* works. No change of the bus is missed for good, whenever it comes.
InputFollows ==
    []<>(/\ \A o \in {keyboard, pointer} : o # None => LiveDev(o[1])
         /\ (\E s \in Sites : Reachable(s) /\ plug[s] \in {"keyboard", "combo"})
               => Ready(keyboard) \/ faults > 0 \/ ~running)
=============================================================================
