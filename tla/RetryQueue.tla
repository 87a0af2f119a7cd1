----------------------------- MODULE RetryQueue -----------------------------
(***************************************************************************)
(* internal/provider/retry_queue.go: items that failed are retried by one  *)
(* background processor with exponential backoff.  Add may be called from   *)
(* any goroutine; Start and Stop are called by control goroutines.  Each    *)
(* action is one critical section or one atomic operation of the code, so   *)
(* every interleaving of the goroutines is a behaviour.                     *)
(***************************************************************************)
EXTENDS Integers, Sequences, FiniteSets

CONSTANTS
    Items,        \* the calls of Add, one item each
    Controls,     \* goroutines that call Start and Stop
    MaxCalls,     \* bound: calls of Start and Stop in all
    MaxAttempts,  \* bound: failures of one item's RetryFunc
    MayCancel,    \* whether the context given to Start is ever cancelled
    None

Procs == 1..MaxCalls     \* processors ever spawned: at most one per call

ASSUME BoundAssumption == MaxCalls \in Nat /\ MaxAttempts \in Nat
ASSUME CancelAssumption == MayCancel \in BOOLEAN
ASSUME NoneAssumption == None \notin Items

VARIABLES
    items,      \* q.items
    depth,      \* q.depth
    gauge,      \* the queue-depth metric fed by onDepthChange
    running,    \* q.running
    closed,     \* whether q.stopCh is closed
    wg,         \* q.wg
    cancelled,  \* processors whose context is cancelled
    panicked,   \* close of a closed channel
    adder,      \* Items -> [pc, saw]: the goroutine inside Add
    control,    \* Controls -> step inside Start or Stop
    proc,       \* Procs -> [pc, item, saw]: the processor goroutine
    attempt,    \* item.Attempt
    completed,  \* how often OnComplete ran
    calls

shared == <<items, depth, gauge, running, closed, wg, cancelled, panicked>>
vars == <<shared, adder, control, proc, attempt, completed, calls>>

Asleep == [pc |-> "off", item |-> None, saw |-> 0]
Looping == [Asleep EXCEPT !.pc = "loop"]

Init ==
    /\ items = <<>>
    /\ depth = 0
    /\ gauge = 0
    /\ running = FALSE
    /\ closed = FALSE
    /\ wg = 0
    /\ cancelled = {}
    /\ panicked = FALSE
    /\ adder = [x \in Items |-> [pc |-> "append", saw |-> 0]]
    /\ control = [c \in Controls |-> "idle"]
    /\ proc = [i \in Procs |-> Asleep]
    /\ attempt = [x \in Items |-> 0]
    /\ completed = [x \in Items |-> 0]
    /\ calls = 0

-----------------------------------------------------------------------------
\* A panic ends the process.
Alive == ~panicked

(* Add: append under the lock, count, report - three separate steps.        *)

AddAppend(x) ==
    /\ Alive /\ adder[x].pc = "append"
    /\ items' = Append(items, x)
    /\ adder' = [adder EXCEPT ![x].pc = "count"]
    /\ UNCHANGED <<depth, gauge, running, closed, wg, cancelled, panicked,
                   control, proc, attempt, completed, calls>>

AddCount(x) ==
    /\ Alive /\ adder[x].pc = "count"
    /\ depth' = depth + 1
    /\ adder' = [adder EXCEPT ![x] = [pc |-> "report", saw |-> depth + 1]]
    /\ UNCHANGED <<items, gauge, running, closed, wg, cancelled, panicked,
                   control, proc, attempt, completed, calls>>

\* onDepthChange(newDepth) of the providers adds its argument to the metric.
AddReport(x) ==
    /\ Alive /\ adder[x].pc = "report"
    /\ gauge' = gauge + adder[x].saw
    /\ adder' = [adder EXCEPT ![x] = [pc |-> "added", saw |-> 0]]
    /\ UNCHANGED <<items, depth, running, closed, wg, cancelled, panicked,
                   control, proc, attempt, completed, calls>>

-----------------------------------------------------------------------------
(* Start and Stop.                                                          *)

Goto(c, pc) == control' = [control EXCEPT ![c] = pc]
Call(c) == Alive /\ control[c] = "idle" /\ calls < MaxCalls /\ calls' = calls + 1

\* running.Swap(true): the loser returns at once.
StartSwap(c) ==
    /\ Call(c)
    /\ running' = TRUE
    /\ Goto(c, IF running THEN "idle" ELSE "spawn")
    /\ UNCHANGED <<items, depth, gauge, closed, wg, cancelled, panicked, adder,
                   proc, attempt, completed>>

StartSpawn(c) ==
    /\ Alive /\ control[c] = "spawn"
    /\ wg' = wg + 1
    /\ \E i \in Procs : /\ proc[i].pc = "off"
                        /\ \A j \in Procs : proc[j].pc = "off" => i <= j
                        /\ proc' = [proc EXCEPT ![i].pc = "loop"]
    /\ Goto(c, "idle")
    /\ UNCHANGED <<items, depth, gauge, running, closed, cancelled, panicked,
                   adder, attempt, completed, calls>>

StopLoad(c) ==
    /\ Call(c)
    /\ Goto(c, IF running THEN "close" ELSE "idle")
    /\ UNCHANGED <<shared, adder, proc, attempt, completed>>

\* Closing a closed channel panics.
StopClose(c) ==
    /\ Alive /\ control[c] = "close"
    /\ closed' = TRUE
    /\ panicked' = closed
    /\ Goto(c, "wait")
    /\ UNCHANGED <<items, depth, gauge, running, wg, cancelled, adder, proc,
                   attempt, completed, calls>>

StopWithoutWait(c) ==
    /\ Alive /\ control[c] = "wait"
    /\ Goto(c, "clear")
    /\ UNCHANGED <<shared, adder, proc, attempt, completed, calls>>

StopWait(c) ==
    /\ Alive /\ control[c] = "wait"
    /\ wg = 0
    /\ Goto(c, "clear")
    /\ UNCHANGED <<shared, adder, proc, attempt, completed, calls>>

StopClear(c) ==
    /\ Alive /\ control[c] = "clear"
    /\ running' = FALSE
    /\ Goto(c, "remake")
    /\ UNCHANGED <<items, depth, gauge, closed, wg, cancelled, panicked, adder,
                   proc, attempt, completed, calls>>

StopRemake(c) ==
    /\ Alive /\ control[c] = "remake"
    /\ closed' = FALSE
    /\ Goto(c, "idle")
    /\ UNCHANGED <<items, depth, gauge, running, wg, cancelled, panicked, adder,
                   proc, attempt, completed, calls>>

\* The context that was given to Start is cancelled under its processor.
Cancel(i) ==
    /\ Alive /\ MayCancel
    /\ proc[i].pc # "off"
    /\ cancelled' = cancelled \cup {i}
    /\ UNCHANGED <<items, depth, gauge, running, closed, wg, panicked, adder,
                   control, proc, attempt, completed, calls>>

-----------------------------------------------------------------------------
(* process and processNextItem.  A select with several ready cases picks    *)
(* any of them.                                                             *)

Stopping(i) == closed \/ i \in cancelled

ProcExitWithoutDone(i) ==
    /\ Alive /\ proc[i].pc = "loop"
    /\ Stopping(i)
    /\ proc' = [proc EXCEPT ![i] = Asleep]
    /\ cancelled' = cancelled \ {i}
    /\ UNCHANGED <<items, depth, gauge, running, closed, wg, panicked,
                   adder, control, attempt, completed, calls>>

ProcExit(i) ==
    /\ Alive /\ proc[i].pc = "loop"
    /\ Stopping(i)
    /\ proc' = [proc EXCEPT ![i] = Asleep]
    /\ wg' = wg - 1
    /\ cancelled' = cancelled \ {i}
    /\ UNCHANGED <<items, depth, gauge, running, closed, panicked,
                   adder, control, attempt, completed, calls>>

ProcTakeLeavesOne(i) ==
    /\ Alive /\ proc[i].pc = "loop"
    /\ Len(items) > 1
    /\ items' = Tail(items)
    /\ proc' = [proc EXCEPT ![i] = [pc |-> "backoff", item |-> Head(items), saw |-> 0]]
    /\ UNCHANGED <<depth, gauge, running, closed, wg, cancelled, panicked, adder,
                   control, attempt, completed, calls>>

\* The ticker fires; an empty queue is left at once.
ProcTake(i) ==
    /\ Alive /\ proc[i].pc = "loop"
    /\ items # <<>>
    /\ items' = Tail(items)
    /\ proc' = [proc EXCEPT ![i] = [pc |-> "backoff", item |-> Head(items), saw |-> 0]]
    /\ UNCHANGED <<depth, gauge, running, closed, wg, cancelled, panicked, adder,
                   control, attempt, completed, calls>>

ProcInterruptedDrops(i) ==
    /\ Alive /\ proc[i].pc = "backoff"
    /\ Stopping(i)
    /\ proc' = [proc EXCEPT ![i] = Looping]
    /\ UNCHANGED <<shared, adder, control, attempt, completed, calls>>

ProcInterruptedAfterReset(i) ==
    /\ Alive /\ proc[i].pc = "backoff"
    /\ Stopping(i)
    /\ proc' = [proc EXCEPT ![i] = Looping]
    /\ items' = <<proc'[i].item>> \o items
    /\ UNCHANGED <<depth, gauge, running, closed, wg, cancelled, panicked, adder,
                   control, attempt, completed, calls>>

\* Cancelled or stopped during the backoff: the item goes back to the front.
ProcInterrupted(i) ==
    /\ Alive /\ proc[i].pc = "backoff"
    /\ Stopping(i)
    /\ items' = <<proc[i].item>> \o items
    /\ proc' = [proc EXCEPT ![i] = Looping]
    /\ UNCHANGED <<depth, gauge, running, closed, wg, cancelled, panicked, adder,
                   control, attempt, completed, calls>>

ProcBackoffOver(i) ==
    /\ Alive /\ proc[i].pc = "backoff"
    /\ proc' = [proc EXCEPT ![i].pc = "retry"]
    /\ UNCHANGED <<shared, adder, control, attempt, completed, calls>>

ProcRetryFailsRecounts(i) ==
    LET x == proc[i].item IN
    /\ Alive /\ proc[i].pc = "retry"
    /\ attempt[x] < MaxAttempts
    /\ attempt' = [attempt EXCEPT ![x] = @ + 1]
    /\ items' = Append(items, x)
    /\ depth' = depth + 1
    /\ proc' = [proc EXCEPT ![i] = Looping]
    /\ UNCHANGED <<gauge, running, closed, wg, cancelled, panicked, adder,
                   control, completed, calls>>

\* RetryFunc returns an error: one more attempt, to the back of the queue.
ProcRetryFails(i) ==
    LET x == proc[i].item IN
    /\ Alive /\ proc[i].pc = "retry"
    /\ attempt[x] < MaxAttempts
    /\ attempt' = [attempt EXCEPT ![x] = @ + 1]
    /\ items' = Append(items, x)
    /\ proc' = [proc EXCEPT ![i] = Looping]
    /\ UNCHANGED <<depth, gauge, running, closed, wg, cancelled, panicked, adder,
                   control, completed, calls>>

\* RetryFunc returns nil: count, report, call OnComplete.
ProcRetrySucceeds(i) ==
    /\ Alive /\ proc[i].pc = "retry"
    /\ depth' = depth - 1
    /\ proc' = [proc EXCEPT ![i].pc = "report", ![i].saw = depth - 1]
    /\ UNCHANGED <<items, gauge, running, closed, wg, cancelled, panicked, adder,
                   control, attempt, completed, calls>>

ProcReport(i) ==
    /\ Alive /\ proc[i].pc = "report"
    /\ gauge' = gauge + proc[i].saw
    /\ proc' = [proc EXCEPT ![i].pc = "complete", ![i].saw = 0]
    /\ UNCHANGED <<items, depth, running, closed, wg, cancelled, panicked, adder,
                   control, attempt, completed, calls>>

ProcComplete(i) ==
    /\ Alive /\ proc[i].pc = "complete"
    /\ completed' = [completed EXCEPT ![proc[i].item] = @ + 1]
    /\ proc' = [proc EXCEPT ![i] = Looping]
    /\ UNCHANGED <<shared, adder, control, attempt, calls>>

-----------------------------------------------------------------------------
Add(x) == AddAppend(x) \/ AddCount(x) \/ AddReport(x)

ControlStep(c) ==
    \/ StartSpawn(c)
    \/ StopClose(c) \/ StopWait(c) \/ StopClear(c) \/ StopRemake(c)

ProcessNextItem(i) ==
    \/ ProcTake(i) \/ ProcInterrupted(i) \/ ProcBackoffOver(i)
    \/ ProcRetryFails(i) \/ ProcRetrySucceeds(i) \/ ProcReport(i) \/ ProcComplete(i)

Next ==
    \/ \E x \in Items : Add(x)
    \/ \E c \in Controls : StartSwap(c) \/ StopLoad(c) \/ ControlStep(c)
    \/ \E i \in Procs : ProcExit(i) \/ ProcessNextItem(i) \/ Cancel(i)

(* Goroutines run; a select whose stop case stays ready takes it in the end; *)
(* nobody has to call Add, Start, Stop or to cancel.                         *)
Fairness ==
    /\ \A x \in Items : WF_vars(AddCount(x) \/ AddReport(x))
    /\ \A c \in Controls : WF_vars(ControlStep(c))
    /\ \A i \in Procs : /\ SF_vars(ProcExit(i))
                        /\ WF_vars(ProcTake(i)) /\ WF_vars(ProcBackoffOver(i))
                        /\ WF_vars(ProcRetrySucceeds(i))
                        /\ WF_vars(ProcReport(i)) /\ WF_vars(ProcComplete(i))

Spec == Init /\ [][Next]_vars
FairSpec == Spec /\ Fairness

-----------------------------------------------------------------------------
(* Every variable has its type.                                             *)
TypeOK ==
    /\ items \in Seq(Items)
    /\ depth \in Int /\ gauge \in Int
    /\ running \in BOOLEAN /\ closed \in BOOLEAN /\ panicked \in BOOLEAN
    /\ wg \in Int
    /\ cancelled \subseteq Procs
    /\ adder \in [Items -> [pc : {"append", "count", "report", "added"}, saw : Int]]
    /\ control \in [Controls -> {"idle", "spawn", "close", "wait", "clear", "remake"}]
    /\ proc \in [Procs -> [pc : {"off", "loop", "backoff", "retry", "report", "complete"},
                           item : Items \cup {None}, saw : Int]]
    /\ attempt \in [Items -> 0..MaxAttempts]
    /\ completed \in [Items -> Nat]
    /\ calls \in 0..MaxCalls

Queued(x) == \E j \in DOMAIN items : items[j] = x
Held(x) == \E i \in Procs : proc[i].item = x

(* No item is lost, duplicated or completed twice: after Add it is once in  *)
(* the queue, or in the hands of one processor, or its OnComplete has run,  *)
(* whatever Start, Stop and cancellation do in between - even when callers  *)
(* of Start and Stop race and two processors run.                           *)
ItemsConserved ==
    /\ \A j, k \in DOMAIN items : items[j] = items[k] => j = k
    /\ \A i, j \in Procs : proc[i].item = proc[j].item /\ proc[i].item # None => i = j
    /\ \A x \in Items :
         /\ ~(Queued(x) /\ Held(x))
         /\ completed[x] = IF adder[x].pc = "append" \/ Queued(x) \/ Held(x)
                           THEN 0 ELSE 1
         /\ adder[x].pc = "append" => ~Queued(x) /\ ~Held(x)

\* No goroutine is inside Add or has an item in its hands.
AtRest ==
    /\ \A x \in Items : adder[x].pc \in {"append", "added"}
    /\ \A i \in Procs : proc[i].item = None

(* At rest Depth() is the number of queued items, after any number of       *)
(* failures, interruptions and restarts.                                    *)
DepthAtRest == AtRest => depth = Len(items)

\* No call of Start or Stop is in progress.
Settled == \A c \in Controls : control[c] = "idle"

(* With Start and Stop called from one goroutine: no panic, never two       *)
(* processors, and none left once Stop has returned, so that Start can      *)
(* begin again on a fresh channel.                                          *)
OneProcessor ==
    /\ ~panicked
    /\ \A i, j \in Procs : proc[i].pc # "off" /\ proc[j].pc # "off" => i = j
    /\ Settled /\ ~running => /\ \A i \in Procs : proc[i].pc = "off"
                              /\ ~closed /\ wg = 0

(* Stop returns, also when it finds the processor in a backoff or in the    *)
(* middle of a RetryFunc.                                                   *)
StopReturns == \A c \in Controls : control[c] = "close" ~> control[c] = "idle"

\* A processor is at work and nothing tells it to stop.
Serving == \E i \in Procs : proc[i].pc # "off" /\ ~Stopping(i)

(* If a processor is in the end left at work, every item that was added is  *)
(* completed.                                                               *)
Drained == <>[]Serving => \A x \in Items : adder[x].pc # "append" ~> completed[x] = 1
=============================================================================
