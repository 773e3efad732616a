----------------------------- MODULE RfkillInput -----------------------------
(***************************************************************************)
(* The input handler of rfkill: net/rfkill/rfkill-input.c.  Key and switch *)
(* events arrive in interrupt context on any CPU; each changes the desired *)
(* state of a radio type and schedules the work of that type, which a      *)
(* worker thread of the CPU runs later.  The same work can run on two CPUs *)
(* at once; the mutex of the task serialises the handlers.                 *)
(*                                                                         *)
(* rfkill_switch_all and rfkill_epo of rfkill.c set the radios; the        *)
(* workqueue and the input core are outside this file as well.             *)
(***************************************************************************)
EXTENDS Integers, Sequences, SequencesExt

CONSTANTS
    Types,      \* the radio types that have a task
    Keys,       \* the types that have a key
    SetOrder,   \* the order in which SW_RFKILL_ALL sets the types
    Cpus,       \* the CPUs; each has one worker thread
    Devs,       \* the input devices
    JBits,      \* width of jiffies (unsigned long)
    Debounce    \* msecs_to_jiffies(200)

JMod == 2 ^ JBits
Works == Types \cup {"epo"}

ASSUME /\ Keys \subseteq Types /\ "epo" \notin Types
       /\ SetOrder \in Seq(Types) /\ Range(SetOrder) = Types
       /\ JBits \in Nat \ {0} /\ Debounce \in 1 .. JMod \div 2 - 1

VARIABLES
    mod,      \* the module: "loaded", "exiting" or "unloaded"
    handles,  \* the devices the handler is connected to
    task,     \* task[t]: desired_state and last of struct rfkill_task
    queue,    \* queue[c]: the works scheduled on c, oldest first
    run,      \* run[c]: what the worker of c is doing
    mutex,    \* mutex[t]: the CPU whose handler holds task[t].mutex
    radio,    \* radio[t]: the state of the switches of type t
    jiffies,
    hist      \* history: per type, whether an accepted event is not yet
              \* read by a handler (dirty), whether its handler ("task") or
              \* something else set the radio last (by), and
              \* the ticks since the last accepted event (age)

vars == <<mod, handles, task, queue, run, mutex, radio, jiffies, hist>>

Idle == [work |-> "none", pc |-> "idle", arg |-> "ON"]
None == "none"

\* jiffies.h: a is after b, by the sign of the difference.
time_after(a, b) == (b - a) % JMod >= JMod \div 2

\* DEFINE_RFKILL_TASK: the tasks as the module is loaded.
Task0 == [t \in Types |-> [desired_state |-> "ON", last |-> 0]]

Not(state) == IF state = "ON" THEN "OFF" ELSE "ON"

work_pending(q, w) == \E c \in Cpus : w \in Range(q[c])

schedule_work_again(q, w, c) == [q EXCEPT ![c] = Append(@, w)]

\* workqueue.c: queue the work on this CPU unless it is pending.
schedule_work(q, w, c) ==
    IF work_pending(q, w) THEN q ELSE [q EXCEPT ![c] = Append(@, w)]

Accept_nolast(s, t, state, c) ==
    [task  |-> [s.task EXCEPT ![t].desired_state = state],
     queue |-> schedule_work(s.queue, t, c),
     hist  |-> [s.hist EXCEPT ![t].dirty = TRUE, ![t].age = 0]]

\* s is [task, queue, hist]; the event runs on CPU c.
Accept(s, t, state, c) ==
    [task  |-> [s.task EXCEPT ![t] = [desired_state |-> state, last |-> jiffies]],
     queue |-> schedule_work(s.queue, t, c),
     hist  |-> [s.hist EXCEPT ![t].dirty = TRUE, ![t].age = 0]]

rfkill_schedule_set(s, t, state, c) ==
    IF /\ ~work_pending(s.queue, "epo")
       /\ time_after(jiffies, (s.task[t].last + Debounce) % JMod)
    THEN Accept(s, t, state, c) ELSE s

rfkill_schedule_toggle(s, t, c) ==
    rfkill_schedule_set(s, t, Not(s.task[t].desired_state), c)

rfkill_schedule_epo(s, c) == [s EXCEPT !.queue = schedule_work(@, "epo", c)]

-----------------------------------------------------------------------------
Init ==
    /\ mod = "loaded" /\ handles = {}
    /\ task = Task0
    /\ queue = [c \in Cpus |-> <<>>]
    /\ run = [c \in Cpus |-> Idle]
    /\ mutex = [t \in Types |-> None]
    /\ radio \in [Types -> {"ON", "OFF"}]
    /\ jiffies \in 0 .. JMod - 1
    /\ hist = [t \in Types |-> [dirty |-> FALSE, by |-> "other", age |-> Debounce + 1]]

Tick ==
    /\ jiffies' = (jiffies + 1) % JMod
    /\ hist' = [t \in Types |->
                  [hist[t] EXCEPT !.age = IF @ > Debounce THEN @ ELSE @ + 1]]
    /\ UNCHANGED <<mod, handles, task, queue, run, mutex, radio>>

\* rfkill_connect: the handle is registered and opened, or an error of
\* kzalloc, input_register_handle or input_open_device leaves nothing.
Connect(dev) ==
    /\ mod = "loaded" /\ dev \notin handles
    /\ handles' \in {handles, handles \cup {dev}}
    /\ UNCHANGED <<mod, task, queue, run, mutex, radio, jiffies, hist>>

rfkill_disconnect(dev) ==
    /\ dev \in handles
    /\ handles' = handles \ {dev}
    /\ UNCHANGED <<mod, task, queue, run, mutex, radio, jiffies, hist>>

Took(s) ==
    /\ task' = s.task /\ queue' = s.queue /\ hist' = s.hist
    /\ UNCHANGED <<mod, handles, run, mutex, radio, jiffies>>

\* rfkill_event for EV_KEY with data 1 and the key of type t.
KeyEvent(t, c) ==
    /\ handles # {}
    /\ Took(rfkill_schedule_toggle([task |-> task, queue |-> queue, hist |-> hist], t, c))

\* rfkill_event for EV_SW, SW_RFKILL_ALL: every type on, or the EPO.
SwitchEvent(data, c) ==
    /\ handles # {}
    /\ Took(IF data # 0
            THEN FoldLeft(LAMBDA s, t : rfkill_schedule_set(s, t, "ON", c),
                          [task |-> task, queue |-> queue, hist |-> hist], SetOrder)
            ELSE rfkill_schedule_epo([task |-> task, queue |-> queue, hist |-> hist], c))

\* The worker of c takes the oldest work of its queue; the work is no
\* longer pending when its handler starts.
Start(c) ==
    /\ run[c] = Idle /\ queue[c] # <<>>
    /\ queue' = [queue EXCEPT ![c] = Tail(@)]
    /\ run' = [run EXCEPT ![c] =
                 [Idle EXCEPT !.work = Head(queue[c]),
                              !.pc = IF Head(queue[c]) = "epo" THEN "epo" ELSE "lock"]]
    /\ UNCHANGED <<mod, handles, task, mutex, radio, jiffies, hist>>

Lock_nomutex(c) ==
    /\ run[c].pc = "lock"
    /\ run' = [run EXCEPT ![c].pc = "read"]
    /\ UNCHANGED <<mod, handles, task, queue, mutex, radio, jiffies, hist>>

\* rfkill_task_handler: mutex_lock.
Lock(c) ==
    /\ run[c].pc = "lock" /\ mutex[run[c].work] = None
    /\ mutex' = [mutex EXCEPT ![run[c].work] = c]
    /\ run' = [run EXCEPT ![c].pc = "read"]
    /\ UNCHANGED <<mod, handles, task, queue, radio, jiffies, hist>>

\* rfkill_task_handler: the argument task->desired_state is read.
Read(c) ==
    /\ run[c].pc = "read"
    /\ run' = [run EXCEPT ![c].pc = "switch",
                          ![c].arg = task[run[c].work].desired_state]
    /\ hist' = [hist EXCEPT ![run[c].work].dirty = FALSE]
    /\ UNCHANGED <<mod, handles, task, queue, mutex, radio, jiffies>>

Switch_nounlock(c) ==
    /\ run[c].pc = "switch"
    /\ radio' = [radio EXCEPT ![run[c].work] = run[c].arg]
    /\ hist' = [hist EXCEPT ![run[c].work].by = "task"]
    /\ run' = [run EXCEPT ![c] = Idle]
    /\ UNCHANGED <<mod, handles, task, queue, mutex, jiffies>>

\* rfkill_task_handler: rfkill_switch_all returns and the mutex is released.
Switch(c) ==
    /\ run[c].pc = "switch"
    /\ radio' = [radio EXCEPT ![run[c].work] = run[c].arg]
    /\ hist' = [hist EXCEPT ![run[c].work].by = "task"]
    /\ mutex' = [mutex EXCEPT ![run[c].work] = IF @ = c THEN None ELSE @]
    /\ run' = [run EXCEPT ![c] = Idle]
    /\ UNCHANGED <<mod, handles, task, queue, jiffies>>

\* rfkill_task_epo_handler: rfkill_epo switches every radio off.
Epo(c) ==
    /\ run[c].pc = "epo"
    /\ radio' = [t \in Types |-> "OFF"]
    /\ hist' = [t \in Types |-> [hist[t] EXCEPT !.by = "other"]]
    /\ run' = [run EXCEPT ![c] = Idle]
    /\ UNCHANGED <<mod, handles, task, queue, mutex, jiffies>>

\* rfkill_handler_exit: input_unregister_handler disconnects every device.
ExitUnregister ==
    /\ mod = "loaded"
    /\ mod' = "exiting" /\ handles' = {}
    /\ UNCHANGED <<task, queue, run, mutex, radio, jiffies, hist>>

\* rfkill_handler_exit: flush_scheduled_work returns when no work is left.
ExitFlushed ==
    /\ mod = "exiting"
    /\ \A c \in Cpus : queue[c] = <<>> /\ run[c] = Idle
    /\ mod' = "unloaded"
    /\ UNCHANGED <<handles, task, queue, run, mutex, radio, jiffies, hist>>

\* rfkill_handler_init, when the module is loaded again.
Load ==
    /\ mod = "unloaded"
    /\ mod' = "loaded" /\ task' = Task0
    /\ hist' = [t \in Types |-> [hist[t] EXCEPT !.age = Debounce + 1, !.by = "other"]]
    /\ UNCHANGED <<handles, queue, run, mutex, radio, jiffies>>

Worker(c) == Start(c) \/ Lock(c) \/ Read(c) \/ Switch(c) \/ Epo(c)

Next ==
    \/ Tick
    \/ \E dev \in Devs : Connect(dev) \/ rfkill_disconnect(dev)
    \/ \E c \in Cpus : \E t \in Keys : KeyEvent(t, c)
    \/ \E c \in Cpus : \E data \in {0, 1} : SwitchEvent(data, c)
    \/ \E c \in Cpus : Worker(c)
    \/ ExitUnregister \/ ExitFlushed \/ Load

(* A worker thread that can take a step takes one; a handler that waits    *)
(* for the mutex gets it when it is released time and again.               *)
Fairness ==
    \A c \in Cpus : /\ WF_vars(Start(c) \/ Read(c) \/ Switch(c) \/ Epo(c))
                    /\ SF_vars(Lock(c))

Spec == Init /\ [][Next]_vars /\ Fairness

-----------------------------------------------------------------------------
TypeOK ==
    /\ mod \in {"loaded", "exiting", "unloaded"} /\ handles \subseteq Devs
    /\ task \in [Types -> [desired_state : {"ON", "OFF"}, last : 0 .. JMod - 1]]
    /\ FlattenSeq([i \in 1 .. Len(SetToSeq(Cpus)) |-> queue[SetToSeq(Cpus)[i]]])
         \in {q \in Seq(Works) : IsInjective(q)}
    /\ run \in [Cpus -> [work : Works \cup {None}, arg : {"ON", "OFF"},
                         pc : {"idle", "lock", "read", "switch", "epo"}]]
    /\ mutex \in [Types -> Cpus \cup {None}]
    /\ radio \in [Types -> {"ON", "OFF"}]
    /\ jiffies \in 0 .. JMod - 1

Busy(t) == work_pending(queue, t) \/ \E c \in Cpus : run[c].work = t

(* rfkill_task_handler under task->mutex, against schedule_work from two   *)
(* CPUs: when no work of a type is pending or running and its handler was  *)
(* the last to set the radios, the radios are in the desired state, and no *)
(* accepted event is left unread.                                          *)
QuietRadioIsDesired ==
    \A t \in Types : ~Busy(t) =>
        /\ ~hist[t].dirty
        /\ hist[t].by = "task" => radio[t] = task[t].desired_state

(* The debounce of rfkill_schedule_set and rfkill_schedule_toggle with     *)
(* time_after on a jiffies counter that wraps: an event changes the        *)
(* desired state only if more than Debounce ticks passed since the last    *)
(* event that did.                                                         *)
AcceptedEventsSpaced ==
    [][\A t \in Types : task'[t] # task[t] /\ mod' = mod => hist[t].age > Debounce]_vars

(* schedule_work in rfkill_schedule_set and rfkill_schedule_toggle, with   *)
(* the worker threads: the desired state an accepted event sets is read by *)
(* a handler of the type later.                                            *)
AcceptedEventIsRead ==
    \A t \in Types : hist[t].dirty ~> ~hist[t].dirty

=============================================================================
