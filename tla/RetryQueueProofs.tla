-------------------------- MODULE RetryQueueProofs --------------------------
(* RetryQueue for any number of items and of processors: no item is lost    *)
(* and the depth is right at rest, whoever calls Start and Stop; and there  *)
(* is one processor at a time when one goroutine calls them.                *)
EXTENDS RetryQueue, TLAPS, SequenceTheorems, FiniteSetTheorems, FunctionTheorems

\* s has no repetition; y occurs in s.
Distinct(s) == \A j, k \in DOMAIN s : s[j] = s[k] => j = k
In(s, y) == \E j \in DOMAIN s : s[j] = y

(* Appending a new element keeps a sequence free of repetitions.            *)
LEMMA AppendIn ==
    ASSUME NEW S, NEW s \in Seq(S), NEW x \in S, Distinct(s), ~In(s, x)
    PROVE  /\ Append(s, x) \in Seq(S) /\ Distinct(Append(s, x))
           /\ \A y : In(Append(s, x), y) <=> In(s, y) \/ y = x
<1>1. /\ Append(s, x) \in Seq(S) /\ Len(Append(s, x)) = Len(s) + 1
      /\ \A i \in 1..Len(s) : Append(s, x)[i] = s[i]
      /\ Append(s, x)[Len(s) + 1] = x
  BY AppendProperties
<1>2. DOMAIN s = 1..Len(s) /\ DOMAIN Append(s, x) = 1..(Len(s) + 1) /\ Len(s) \in Nat
  BY <1>1
<1>3. Distinct(Append(s, x))
  BY <1>1, <1>2 DEF Distinct, In
<1>4. \A y : In(Append(s, x), y) <=> In(s, y) \/ y = x
  BY <1>1, <1>2 DEF In
<1> QED
  BY <1>1, <1>3, <1>4

(* Taking the first of a sequence without repetitions removes it.           *)
LEMMA TailIn ==
    ASSUME NEW S, NEW s \in Seq(S), s # <<>>, Distinct(s)
    PROVE  /\ Tail(s) \in Seq(S) /\ Distinct(Tail(s)) /\ Head(s) \in S
           /\ In(s, Head(s))
           /\ \A y : In(Tail(s), y) <=> In(s, y) /\ y # Head(s)
<1>1. /\ Tail(s) \in Seq(S) /\ Head(s) \in S /\ Len(Tail(s)) = Len(s) - 1
      /\ \A i \in 1..Len(Tail(s)) : Tail(s)[i] = s[i + 1]
  BY HeadTailProperties
<1>2. Len(s) \in Nat \ {0} /\ Head(s) = s[1]
  BY EmptySeq
<1>3. DOMAIN s = 1..Len(s) /\ DOMAIN Tail(s) = 1..(Len(s) - 1)
  BY <1>1, <1>2
<1>4. Distinct(Tail(s))
  BY <1>1, <1>2, <1>3 DEF Distinct
<1>5. ASSUME NEW y, In(Tail(s), y) PROVE In(s, y) /\ y # Head(s)
  <2>1. PICK i \in 1..(Len(s) - 1) : Tail(s)[i] = y
    BY <1>3, <1>5 DEF In
  <2>2. i + 1 \in 1..Len(s) /\ s[i + 1] = y /\ i + 1 # 1
    BY <1>1, <1>2, <2>1
  <2> QED
    BY <1>2, <1>3, <2>2 DEF In, Distinct
<1>6. ASSUME NEW y, In(s, y), y # Head(s) PROVE In(Tail(s), y)
  <2>1. PICK j \in 1..Len(s) : s[j] = y
    BY <1>3, <1>6 DEF In
  <2>2. j - 1 \in 1..(Len(s) - 1) /\ (j - 1) + 1 = j
    BY <1>2, <1>6, <2>1
  <2> QED
    BY <1>1, <1>3, <2>1, <2>2 DEF In
<1>7. In(s, Head(s))
  BY <1>2, <1>3 DEF In
<1> QED
  BY <1>1, <1>4, <1>5, <1>6, <1>7

(* Putting a new element in front keeps a sequence free of repetitions.     *)
LEMMA ConsIn ==
    ASSUME NEW S, NEW s \in Seq(S), NEW x \in S, Distinct(s), ~In(s, x)
    PROVE  /\ <<x>> \o s \in Seq(S) /\ Distinct(<<x>> \o s)
           /\ \A y : In(<<x>> \o s, y) <=> In(s, y) \/ y = x
<1> DEFINE t == <<x>> \o s
<1>1. /\ t \in Seq(S) /\ Len(t) = Len(s) + 1 /\ Len(s) \in Nat
      /\ t[1] = x /\ \A i \in 1..Len(s) : t[i + 1] = s[i]
  OBVIOUS
<1>2. DOMAIN s = 1..Len(s) /\ DOMAIN t = 1..(Len(s) + 1)
  BY <1>1
<1> HIDE DEF t
<1>3. \A j \in DOMAIN t : j = 1 \/ (j - 1 \in DOMAIN s /\ t[j] = s[j - 1])
  <2> SUFFICES ASSUME NEW j \in 1..(Len(s) + 1), j # 1
               PROVE  j - 1 \in DOMAIN s /\ t[j] = s[j - 1]
    BY <1>2
  <2>1. j - 1 \in 1..Len(s) /\ (j - 1) + 1 = j
    BY <1>1
  <2> QED
    BY <1>1, <1>2, <2>1
<1>4. Distinct(t)
  BY <1>1, <1>2, <1>3 DEF Distinct, In
<1>5. ASSUME NEW y, In(s, y) PROVE In(t, y)
  <2>1. PICK i \in 1..Len(s) : s[i] = y
    BY <1>2, <1>5 DEF In
  <2>2. i + 1 \in DOMAIN t /\ t[i + 1] = y
    BY <1>1, <1>2, <2>1
  <2> QED
    BY <2>2 DEF In
<1>6. \A y : In(t, y) => In(s, y) \/ y = x
  BY <1>1, <1>3 DEF In
<1>7. In(t, x)
  BY <1>1, <1>2 DEF In
<1> QED
  BY <1>1, <1>4, <1>5, <1>6, <1>7 DEF t

-----------------------------------------------------------------------------
\* A processor has an item in its hands exactly inside processNextItem.
Hands == \A i \in Procs : proc[i].item = None <=> proc[i].pc \in {"off", "loop"}

QueueInv == TypeOK /\ ItemsConserved /\ Hands

(* Conservation only looks at where the items are.                          *)
LEMMA ConservedStable ==
    ASSUME ItemsConserved, items' = items, completed' = completed,
           \A i \in Procs : proc'[i].item = proc[i].item,
           \A x \in Items : adder'[x].pc = "append" <=> adder[x].pc = "append"
    PROVE  ItemsConserved'
  BY DEF ItemsConserved, Queued, Held

ProcType == [Procs -> [pc : {"off", "loop", "backoff", "retry", "report", "complete"},
                       item : Items \cup {None}, saw : Int]]

(* A processor that moves on keeps its item, whether or not it notes a depth. *)
LEMMA ProcMoves ==
    ASSUME TypeOK, NEW i \in Procs, NEW pc \in {"loop", "retry", "report", "complete"},
           proc' = [proc EXCEPT ![i].pc = pc]
    PROVE  /\ proc' \in ProcType
           /\ \A j \in Procs : proc'[j].item = proc[j].item
           /\ \A j \in Procs : proc'[j].pc = IF j = i THEN pc ELSE proc[j].pc
<1>0. proc \in ProcType
  BY DEF TypeOK, ProcType
<1>1. /\ proc'[i] \in [pc : {"off", "loop", "backoff", "retry", "report", "complete"},
                       item : Items \cup {None}, saw : Int]
      /\ proc'[i].pc = pc /\ proc'[i].item = proc[i].item
  BY <1>0 DEF ProcType
<1>2. \A j \in Procs : j # i => proc'[j] = proc[j]
  BY <1>0 DEF ProcType
<1>3. proc' = [j \in Procs |-> proc'[j]]
  BY <1>0 DEF ProcType
<1> QED
  BY <1>0, <1>1, <1>2, <1>3 DEF ProcType

(* The same for a processor that also notes the depth it is going to report. *)
LEMMA ProcMovesNoting ==
    ASSUME TypeOK, NEW i \in Procs, NEW pc \in {"loop", "retry", "report", "complete"},
           NEW n \in Int, proc' = [proc EXCEPT ![i].pc = pc, ![i].saw = n]
    PROVE  /\ proc' \in ProcType
           /\ \A j \in Procs : proc'[j].item = proc[j].item
           /\ \A j \in Procs : proc'[j].pc = IF j = i THEN pc ELSE proc[j].pc
<1>0. proc \in ProcType
  BY DEF TypeOK, ProcType
<1>1. /\ proc'[i] \in [pc : {"off", "loop", "backoff", "retry", "report", "complete"},
                       item : Items \cup {None}, saw : Int]
      /\ proc'[i].pc = pc /\ proc'[i].item = proc[i].item
  BY <1>0 DEF ProcType
<1>2. \A j \in Procs : j # i => proc'[j] = proc[j]
  BY <1>0 DEF ProcType
<1>3. proc' = [j \in Procs |-> proc'[j]]
  BY <1>0 DEF ProcType
<1> QED
  BY <1>0, <1>1, <1>2, <1>3 DEF ProcType

(* Nothing is queued, held or completed at the start.                       *)
LEMMA InitQueue == Init => QueueInv
<1> SUFFICES ASSUME Init PROVE QueueInv
  OBVIOUS
<1>1. TypeOK
  <2>1. items \in Seq(Items) /\ cancelled \subseteq Procs
    BY EmptySeq DEF Init
  <2>2. /\ attempt \in [Items -> 0..MaxAttempts] /\ completed \in [Items -> Nat]
        /\ calls \in 0..MaxCalls
    BY BoundAssumption DEF Init
  <2>3. proc \in [Procs -> [pc : {"off", "loop", "backoff", "retry", "report", "complete"},
                           item : Items \cup {None}, saw : Int]]
    BY DEF Init, Asleep
  <2>4. adder \in [Items -> [pc : {"append", "count", "report", "added"}, saw : Int]]
    BY DEF Init
  <2>5. control \in [Controls -> {"idle", "spawn", "close", "wait", "clear", "remake"}]
    BY DEF Init
  <2>6. depth \in Int /\ gauge \in Int /\ wg \in Int
    BY DEF Init
  <2>7. running \in BOOLEAN /\ closed \in BOOLEAN /\ panicked \in BOOLEAN
    BY DEF Init
  <2> QED
    BY <2>1, <2>2, <2>3, <2>4, <2>5, <2>6, <2>7 DEF TypeOK
<1>2. items = <<>> /\ DOMAIN items = {} /\ \A i \in Procs : proc[i].item = None
  BY DEF Init, Asleep
<1>3. \A x \in Items : ~Queued(x) /\ ~Held(x) /\ completed[x] = 0 /\ adder[x].pc = "append"
  BY <1>2, NoneAssumption DEF Init, Queued, Held
<1>4. ItemsConserved
  BY <1>2, <1>3 DEF ItemsConserved
<1> QED
  BY <1>1, <1>4 DEF QueueInv, Hands, Init, Asleep

(* Every step keeps every item in exactly one place.                        *)
LEMMA NextQueue == QueueInv /\ [Next]_vars => QueueInv'
<1> SUFFICES ASSUME QueueInv, [Next]_vars PROVE QueueInv'
  OBVIOUS
<1>0. TypeOK /\ ItemsConserved /\ Hands
  BY DEF QueueInv
<1>d. items \in Seq(Items) /\ Distinct(items) /\ \A x : Queued(x) <=> In(items, x)
  BY <1>0 DEF TypeOK, ItemsConserved, Distinct, Queued, In
<1>c. \A x \in Items :
        /\ ~(Queued(x) /\ Held(x))
        /\ completed[x] = IF adder[x].pc = "append" \/ Queued(x) \/ Held(x) THEN 0 ELSE 1
        /\ adder[x].pc = "append" => ~Queued(x) /\ ~Held(x)
  BY <1>0 DEF ItemsConserved
<1>h. \A i, j \in Procs : proc[i].item = proc[j].item /\ proc[i].item # None => i = j
  BY <1>0 DEF ItemsConserved
<1>1. ASSUME NEW x \in Items, AddAppend(x) PROVE QueueInv'
  <2>1. /\ items' = Append(items, x) /\ adder[x].pc = "append"
        /\ adder' = [adder EXCEPT ![x].pc = "count"]
        /\ proc' = proc /\ completed' = completed
    BY <1>1 DEF AddAppend
  <2>2. ~In(items, x)
    BY <1>c, <1>d, <2>1
  <2>3. /\ items' \in Seq(Items) /\ Distinct(items')
        /\ \A y : In(items', y) <=> In(items, y) \/ y = x
    BY <1>d, <2>1, <2>2, AppendIn
  <2>4. TypeOK'
    BY <1>0, <1>1, <2>3 DEF TypeOK, AddAppend
  <2>5. \A y : (Queued(y)' <=> In(items', y)) /\ (Held(y)' <=> Held(y))
    BY <2>1 DEF Queued, In, Held
  <2>6. \A y \in Items : adder'[y].pc = "append" <=> adder[y].pc = "append" /\ y # x
    BY <1>0, <2>1 DEF TypeOK
  <2>7. ItemsConserved'
    BY <1>c, <1>d, <1>h, <2>1, <2>3, <2>5, <2>6 DEF ItemsConserved, Distinct
  <2> QED
    BY <1>0, <2>1, <2>4, <2>7 DEF QueueInv, Hands
<1>2. ASSUME NEW x \in Items, AddCount(x) PROVE QueueInv'
  <2>1. TypeOK'
    BY <1>0, <1>2 DEF TypeOK, AddCount
  <2>2. ItemsConserved'
    BY <1>0, <1>2, ConservedStable DEF TypeOK, AddCount
  <2> QED
    BY <1>0, <1>2, <2>1, <2>2 DEF QueueInv, Hands, AddCount
<1>3. ASSUME NEW x \in Items, AddReport(x) PROVE QueueInv'
  <2>1. TypeOK'
    BY <1>0, <1>3 DEF TypeOK, AddReport
  <2>2. ItemsConserved'
    BY <1>0, <1>3, ConservedStable DEF TypeOK, AddReport
  <2> QED
    BY <1>0, <1>3, <2>1, <2>2 DEF QueueInv, Hands, AddReport
<1>s. ASSUME TypeOK', UNCHANGED <<items, completed, proc, adder>> PROVE QueueInv'
  BY <1>0, <1>s, ConservedStable DEF QueueInv, Hands
<1>4. ASSUME NEW c \in Controls, StartSwap(c) PROVE QueueInv'
  BY <1>0, <1>s, <1>4, BoundAssumption DEF TypeOK, StartSwap, Call, Goto
<1>5. ASSUME NEW c \in Controls, StartSpawn(c) PROVE QueueInv'
  <2>1. PICK i \in Procs : proc[i].pc = "off" /\ proc' = [proc EXCEPT ![i].pc = "loop"]
    BY <1>5 DEF StartSpawn
  <2>2. /\ proc' \in ProcType /\ \A j \in Procs : proc'[j].item = proc[j].item
        /\ \A j \in Procs : proc'[j].pc = IF j = i THEN "loop" ELSE proc[j].pc
    BY <1>0, <2>1, ProcMoves
  <2>4. TypeOK'
    <3>1. wg' = wg + 1 /\ control' = [control EXCEPT ![c] = "idle"]
          /\ UNCHANGED <<items, depth, gauge, running, closed, cancelled, panicked,
                         adder, attempt, completed, calls>>
      BY <1>5 DEF StartSpawn, Goto
    <3> QED
      BY <1>0, <2>2, <3>1 DEF TypeOK, ProcType
  <2>3. ItemsConserved'
    BY <1>0, <1>5, <2>2, ConservedStable DEF StartSpawn
  <2> QED
    BY <1>0, <2>1, <2>2, <2>3, <2>4 DEF QueueInv, Hands
<1>6. ASSUME NEW c \in Controls, StopLoad(c) PROVE QueueInv'
  BY <1>0, <1>s, <1>6, BoundAssumption DEF TypeOK, StopLoad, Call, Goto, shared
<1>7. ASSUME NEW c \in Controls, StopClose(c) PROVE QueueInv'
  BY <1>0, <1>s, <1>7 DEF TypeOK, StopClose, Goto
<1>8. ASSUME NEW c \in Controls, StopWait(c) PROVE QueueInv'
  BY <1>0, <1>s, <1>8 DEF TypeOK, StopWait, Goto, shared
<1>9. ASSUME NEW c \in Controls, StopClear(c) PROVE QueueInv'
  BY <1>0, <1>s, <1>9 DEF TypeOK, StopClear, Goto
<1>10. ASSUME NEW c \in Controls, StopRemake(c) PROVE QueueInv'
  BY <1>0, <1>s, <1>10 DEF TypeOK, StopRemake, Goto
<1>11. ASSUME NEW i \in Procs, Cancel(i) PROVE QueueInv'
  BY <1>0, <1>s, <1>11 DEF TypeOK, Cancel
<1>12. ASSUME NEW i \in Procs, ProcExit(i) PROVE QueueInv'
  <2>1. TypeOK' /\ \A j \in Procs : proc'[j] = IF j = i THEN Asleep ELSE proc[j]
    BY <1>0, <1>12 DEF TypeOK, ProcExit, Asleep
  <2>2. proc[i].item = None
    BY <1>0, <1>12 DEF Hands, ProcExit
  <2>3. ItemsConserved'
    BY <1>0, <1>12, <2>1, <2>2, ConservedStable DEF ProcExit, Asleep
  <2> QED
    BY <1>0, <2>1, <2>3 DEF QueueInv, Hands, Asleep
<1>13. ASSUME NEW i \in Procs, ProcTake(i) PROVE QueueInv'
  <2> DEFINE x == Head(items)
  <2>1. /\ items # <<>> /\ items' = Tail(items) /\ proc[i].item = None
        /\ proc' = [proc EXCEPT ![i] = [pc |-> "backoff", item |-> x, saw |-> 0]]
        /\ completed' = completed /\ adder' = adder
    BY <1>0, <1>13 DEF ProcTake, Hands
  <2>2. /\ items' \in Seq(Items) /\ Distinct(items') /\ x \in Items /\ In(items, x)
        /\ \A y : In(items', y) <=> In(items, y) /\ y # x
    BY <1>d, <2>1, TailIn
  <2> HIDE DEF x
  <2>3. TypeOK'
    BY <1>0, <1>13, <2>1, <2>2, SMTT(30) DEF TypeOK, ProcTake
  <2>4. \A j \in Procs : proc'[j].item = IF j = i THEN x ELSE proc[j].item
    BY <1>0, <2>1 DEF TypeOK
  <2>5. \A y \in Items : /\ Queued(y)' <=> In(items', y)
                         /\ Held(y)' <=> Held(y) \/ y = x
    BY <2>1, <2>4, NoneAssumption DEF Queued, In, Held
  <2>6. ~Held(x) /\ x # None
    BY <1>c, <1>d, <2>2, NoneAssumption
  <2>7. \A j, k \in Procs : proc'[j].item = proc'[k].item /\ proc'[j].item # None => j = k
    BY <1>h, <2>4, <2>6 DEF Held
  <2>8. ItemsConserved'
    BY <1>c, <1>d, <2>1, <2>2, <2>5, <2>6, <2>7 DEF ItemsConserved, Distinct
  <2>9. Hands'
    BY <1>0, <2>1, <2>2, <2>6 DEF Hands, TypeOK
  <2> QED
    BY <2>3, <2>8, <2>9 DEF QueueInv
<1>14. ASSUME NEW i \in Procs, ProcInterrupted(i) PROVE QueueInv'
  <2> DEFINE x == proc[i].item
  <2>1. /\ items' = <<x>> \o items /\ proc' = [proc EXCEPT ![i] = Looping]
        /\ completed' = completed /\ adder' = adder
        /\ x \in Items /\ x # None /\ Held(x)
    BY <1>0, <1>14 DEF ProcInterrupted, Hands, TypeOK, Held
  <2>2. ~In(items, x)
    BY <1>c, <1>d, <2>1
  <2>3. /\ items' \in Seq(Items) /\ Distinct(items')
        /\ \A y : In(items', y) <=> In(items, y) \/ y = x
    BY <1>d, <2>1, <2>2, ConsIn
  <2>4. TypeOK'
    BY <1>0, <1>14, <2>1, <2>3 DEF TypeOK, ProcInterrupted, Looping, Asleep
  <2>5. \A j \in Procs : proc'[j] = IF j = i THEN Looping ELSE proc[j]
    BY <1>0, <2>1 DEF TypeOK
  <2>6. /\ Looping.item = None /\ Looping.pc = "loop"
        /\ \A y \in Items : Held(y)' <=> Held(y) /\ y # x
    BY <1>h, <2>1, <2>5, NoneAssumption DEF Held, Looping, Asleep
  <2>7. \A y \in Items : Queued(y)' <=> In(items', y)
    BY DEF Queued, In
  <2>8. \A j, k \in Procs : proc'[j].item = proc'[k].item /\ proc'[j].item # None => j = k
    BY <1>h, <2>5, <2>6
  <2>9. ItemsConserved'
    BY <1>c, <1>d, <2>1, <2>3, <2>6, <2>7, <2>8 DEF ItemsConserved, Distinct
  <2> QED
    BY <1>0, <2>4, <2>5, <2>6, <2>9 DEF QueueInv, Hands
<1>15. ASSUME NEW i \in Procs, ProcBackoffOver(i) PROVE QueueInv'
  <2>1. /\ TypeOK' /\ \A j \in Procs : proc'[j].item = proc[j].item
        /\ \A j \in Procs : proc'[j].pc = IF j = i THEN "retry" ELSE proc[j].pc
    BY <1>0, <1>15 DEF TypeOK, ProcBackoffOver, shared
  <2>2. ItemsConserved'
    BY <1>0, <1>15, <2>1, ConservedStable DEF ProcBackoffOver, shared
  <2> QED
    BY <1>0, <1>15, <2>1, <2>2 DEF QueueInv, Hands, ProcBackoffOver
<1>16. ASSUME NEW i \in Procs, ProcRetryFails(i) PROVE QueueInv'
  <2> DEFINE x == proc[i].item
  <2>1. /\ items' = Append(items, x) /\ proc' = [proc EXCEPT ![i] = Looping]
        /\ completed' = completed /\ adder' = adder
        /\ x \in Items /\ x # None /\ Held(x)
    BY <1>0, <1>16 DEF ProcRetryFails, Hands, TypeOK, Held
  <2>2. ~In(items, x)
    BY <1>c, <1>d, <2>1
  <2>3. /\ items' \in Seq(Items) /\ Distinct(items')
        /\ \A y : In(items', y) <=> In(items, y) \/ y = x
    BY <1>d, <2>1, <2>2, AppendIn
  <2>4. attempt' \in [Items -> 0..MaxAttempts]
    BY <1>0, <1>16, <2>1, BoundAssumption DEF TypeOK, ProcRetryFails
  <2>a. proc' \in [Procs -> [pc : {"off", "loop", "backoff", "retry", "report",
                                   "complete"},
                             item : Items \cup {None}, saw : Int]]
    BY <1>0, <2>1 DEF TypeOK, Looping, Asleep
  <2>5. TypeOK'
    <3>1. UNCHANGED <<depth, gauge, running, closed, wg, cancelled, panicked,
                      adder, control, completed, calls>>
      BY <1>16 DEF ProcRetryFails
    <3> QED
      BY <1>0, <2>3, <2>4, <2>a, <3>1 DEF TypeOK
  <2>6. \A j \in Procs : proc'[j] = IF j = i THEN Looping ELSE proc[j]
    BY <1>0, <2>1 DEF TypeOK
  <2>7. /\ Looping.item = None /\ Looping.pc = "loop"
        /\ \A y \in Items : Held(y)' <=> Held(y) /\ y # x
    BY <1>h, <2>1, <2>6, NoneAssumption DEF Held, Looping, Asleep
  <2>8. \A y \in Items : Queued(y)' <=> In(items', y)
    BY DEF Queued, In
  <2>9. \A j, k \in Procs : proc'[j].item = proc'[k].item /\ proc'[j].item # None => j = k
    BY <1>h, <2>6, <2>7
  <2>10. ItemsConserved'
    BY <1>c, <1>d, <2>1, <2>3, <2>7, <2>8, <2>9 DEF ItemsConserved, Distinct
  <2> QED
    BY <1>0, <2>5, <2>6, <2>7, <2>10 DEF QueueInv, Hands
<1>17. ASSUME NEW i \in Procs, ProcRetrySucceeds(i) PROVE QueueInv'
  <2>0. proc[i].pc = "retry" /\ i \in Procs
    BY <1>17 DEF ProcRetrySucceeds
  <2>1. /\ depth \in Int
        /\ proc' = [proc EXCEPT ![i].pc = "report", ![i].saw = depth - 1]
    BY <1>0, <1>17 DEF TypeOK, ProcRetrySucceeds
  <2>2. /\ proc' \in ProcType /\ \A j \in Procs : proc'[j].item = proc[j].item
        /\ \A j \in Procs : proc'[j].pc = IF j = i THEN "report" ELSE proc[j].pc
    <3> DEFINE n == depth - 1
    <3>1. n \in Int /\ proc' = [proc EXCEPT ![i].pc = "report", ![i].saw = n]
      BY <2>1
    <3> HIDE DEF n
    <3> QED
      BY <1>0, <3>1, ProcMovesNoting
  <2>3. proc[i].saw \in Int
    BY <1>0 DEF TypeOK
  <2>4. TypeOK'
    BY <1>0, <1>17, <2>2, <2>3 DEF TypeOK, ProcType, ProcRetrySucceeds
  <2>5. ItemsConserved'
    BY <1>0, <1>17, <2>2, ConservedStable DEF ProcRetrySucceeds
  <2>6. Hands'
    BY <1>0, <2>0, <2>2 DEF Hands
  <2> QED
    BY <2>4, <2>5, <2>6 DEF QueueInv
<1>18. ASSUME NEW i \in Procs, ProcReport(i) PROVE QueueInv'
  <2>0. proc[i].pc = "report" /\ i \in Procs
    BY <1>18 DEF ProcReport
  <2>1. /\ depth \in Int
        /\ proc' = [proc EXCEPT ![i].pc = "complete", ![i].saw = 0]
    BY <1>0, <1>18 DEF TypeOK, ProcReport
  <2>2. /\ proc' \in ProcType /\ \A j \in Procs : proc'[j].item = proc[j].item
        /\ \A j \in Procs : proc'[j].pc = IF j = i THEN "complete" ELSE proc[j].pc
    <3> DEFINE n == 0
    <3>1. n \in Int /\ proc' = [proc EXCEPT ![i].pc = "complete", ![i].saw = n]
      BY <2>1
    <3> HIDE DEF n
    <3> QED
      BY <1>0, <3>1, ProcMovesNoting
  <2>3. proc[i].saw \in Int
    BY <1>0 DEF TypeOK
  <2>4. TypeOK'
    BY <1>0, <1>18, <2>2, <2>3, SMTT(30) DEF TypeOK, ProcType, ProcReport
  <2>5. ItemsConserved'
    BY <1>0, <1>18, <2>2, ConservedStable DEF ProcReport
  <2>6. Hands'
    BY <1>0, <2>0, <2>2 DEF Hands
  <2> QED
    BY <2>4, <2>5, <2>6 DEF QueueInv
<1>19. ASSUME NEW i \in Procs, ProcComplete(i) PROVE QueueInv'
  <2> DEFINE x == proc[i].item
  <2>1. /\ proc' = [proc EXCEPT ![i] = Looping] /\ items' = items /\ adder' = adder
        /\ completed' = [completed EXCEPT ![x] = @ + 1]
        /\ x \in Items /\ x # None /\ Held(x)
    BY <1>0, <1>19 DEF ProcComplete, Hands, TypeOK, Held, shared
  <2>2. completed[x] = 0 /\ ~Queued(x) /\ adder[x].pc # "append"
    BY <1>c, <2>1
  <2>3. TypeOK'
    BY <1>0, <1>19, <2>1, SMTT(30) DEF TypeOK, ProcComplete, Looping, Asleep, shared
  <2>4. \A j \in Procs : proc'[j] = IF j = i THEN Looping ELSE proc[j]
    BY <1>0, <2>1 DEF TypeOK
  <2>5. /\ Looping.item = None /\ Looping.pc = "loop"
        /\ \A y \in Items : Held(y)' <=> Held(y) /\ y # x
    BY <1>h, <2>1, <2>4, NoneAssumption DEF Held, Looping, Asleep
  <2>6. \A y \in Items : completed'[y] = IF y = x THEN 1 ELSE completed[y]
    BY <1>0, <2>1, <2>2 DEF TypeOK
  <2>7. \A y \in Items : Queued(y)' <=> Queued(y)
    BY <2>1 DEF Queued
  <2>8. \A j, k \in Procs : proc'[j].item = proc'[k].item /\ proc'[j].item # None => j = k
    BY <1>h, <2>4, <2>5
  <2>9. \A j, k \in DOMAIN items' : items'[j] = items'[k] => j = k
    BY <1>d, <2>1 DEF Distinct
  <2>10. ASSUME NEW y \in Items
         PROVE  /\ ~(Queued(y)' /\ Held(y)')
                /\ completed'[y] = IF adder'[y].pc = "append" \/ Queued(y)' \/ Held(y)'
                                   THEN 0 ELSE 1
                /\ adder'[y].pc = "append" => ~Queued(y)' /\ ~Held(y)'
    BY <1>c, <2>1, <2>2, <2>5, <2>6, <2>7
  <2>11. ItemsConserved'
    BY <2>8, <2>9, <2>10 DEF ItemsConserved
  <2> QED
    BY <1>0, <2>3, <2>4, <2>5, <2>11 DEF QueueInv, Hands
<1>20. CASE UNCHANGED vars
  BY <1>0, <1>s, <1>20 DEF vars, shared, TypeOK
<1> QED
  BY <1>1, <1>2, <1>3, <1>4, <1>5, <1>6, <1>7, <1>8, <1>9, <1>10, <1>11, <1>12,
     <1>13, <1>14, <1>15, <1>16, <1>17, <1>18, <1>19, <1>20
     DEF Next, Add, ControlStep, ProcessNextItem

(* Every reachable state of the retry queue is well typed.                  *)
THEOREM QueueTypeCorrect == Spec => []TypeOK
<1>1. QueueInv => TypeOK
  BY DEF QueueInv
<1> QED
  BY <1>1, InitQueue, NextQueue, PTL DEF Spec

(* No item handed to Add is lost, duplicated or completed twice, for any    *)
(* number of items and of goroutines racing in Start and Stop.              *)
THEOREM NoItemIsLost == Spec => []ItemsConserved
<1>1. QueueInv => ItemsConserved
  BY DEF QueueInv
<1> QED
  BY <1>1, InitQueue, NextQueue, PTL DEF Spec

-----------------------------------------------------------------------------
(* One goroutine that calls Start and Stop.                                 *)

\* As in the program, where start-up starts a queue and nobody else controls it.
OneControl == \A c, d \in Controls : c = d

Live(i) == proc[i].pc # "off"

\* Where the one controlling goroutine is, and what that says of the rest.
ControlInv ==
    /\ ~panicked
    /\ \A i, j \in Procs : Live(i) /\ Live(j) => i = j
    /\ \A i \in Procs : Live(i) => wg = 1
    /\ (\A i \in Procs : ~Live(i)) => wg = 0
    /\ closed <=> \E c \in Controls : control[c] \in {"wait", "clear", "remake"}
    /\ \A i \in Procs : Live(i) => running
    /\ \A c \in Controls :
         /\ control[c] \in {"spawn", "close", "wait", "clear"} => running
         /\ control[c] = "remake" => ~running
         /\ control[c] \in {"spawn", "clear", "remake"} => \A i \in Procs : ~Live(i)

(* Start and Stop called one after the other: every step of theirs finds    *)
(* what the step before has left.                                           *)
LEMMA ControlMoves ==
    ASSUME OneControl, TypeOK, ControlInv, NEW c \in Controls,
           StartSwap(c) \/ StopLoad(c) \/ StopClose(c) \/ StopWait(c)
             \/ StopClear(c) \/ StopRemake(c)
    PROVE  ControlInv'
<1>1. \A d \in Controls : d = c
  BY DEF OneControl
<1>2. control \in [Controls -> {"idle", "spawn", "close", "wait", "clear", "remake"}]
      /\ running \in BOOLEAN /\ closed \in BOOLEAN
  BY DEF TypeOK
<1>3. proc' = proc /\ wg' = wg /\ \A i : Live(i)' <=> Live(i)
  BY DEF StartSwap, StopLoad, StopClose, StopWait, StopClear, StopRemake, shared, Live
<1>4. CASE StartSwap(c)
  <2>1. /\ control[c] = "idle" /\ running' = TRUE
        /\ control'[c] = IF running THEN "idle" ELSE "spawn"
        /\ closed' = closed /\ panicked' = panicked
    BY <1>2, <1>4 DEF StartSwap, Call, Goto
  <2> QED
    BY <1>1, <1>2, <1>3, <2>1 DEF ControlInv
<1>5. CASE StopLoad(c)
  <2>1. /\ control[c] = "idle" /\ running' = running
        /\ control'[c] = IF running THEN "close" ELSE "idle"
        /\ closed' = closed /\ panicked' = panicked
    BY <1>2, <1>5 DEF StopLoad, Call, Goto, shared
  <2> QED
    BY <1>1, <1>2, <1>3, <2>1 DEF ControlInv
<1>6. CASE StopClose(c)
  <2>1. /\ control[c] = "close" /\ control'[c] = "wait" /\ running' = running
        /\ closed' = TRUE /\ panicked' = closed
    BY <1>2, <1>6 DEF StopClose, Goto
  <2> QED
    BY <1>1, <1>2, <1>3, <2>1 DEF ControlInv
<1>7. CASE StopWait(c)
  <2>1. /\ control[c] = "wait" /\ control'[c] = "clear" /\ running' = running
        /\ closed' = closed /\ panicked' = panicked /\ wg = 0
    BY <1>2, <1>7 DEF StopWait, Goto, shared
  <2>2. \A i \in Procs : ~Live(i)
    BY <2>1 DEF ControlInv
  <2> QED
    BY <1>1, <1>2, <1>3, <2>1, <2>2 DEF ControlInv
<1>8. CASE StopClear(c)
  <2>1. /\ control[c] = "clear" /\ control'[c] = "remake" /\ running' = FALSE
        /\ closed' = closed /\ panicked' = panicked
    BY <1>2, <1>8 DEF StopClear, Goto
  <2> QED
    BY <1>1, <1>2, <1>3, <2>1 DEF ControlInv
<1>9. CASE StopRemake(c)
  <2>1. /\ control[c] = "remake" /\ control'[c] = "idle" /\ running' = running
        /\ closed' = FALSE /\ panicked' = panicked
    BY <1>2, <1>9 DEF StopRemake, Goto
  <2> QED
    BY <1>1, <1>2, <1>3, <2>1 DEF ControlInv
<1> QED
  BY <1>4, <1>5, <1>6, <1>7, <1>8, <1>9

(* A processor that neither begins nor ends changes nothing of that.        *)
LEMMA ControlStable ==
    ASSUME ControlInv, UNCHANGED <<running, closed, wg, panicked, control>>,
           \A i \in Procs : Live(i)' <=> Live(i)
    PROVE  ControlInv'
  BY DEF ControlInv

LEMMA NextControl ==
    ASSUME OneControl, QueueInv, ControlInv, [Next]_vars
    PROVE  ControlInv'
<1>0. TypeOK /\ proc \in ProcType
  BY DEF QueueInv, TypeOK, ProcType
<1>1. ASSUME NEW x \in Items, Add(x) PROVE ControlInv'
  BY <1>1, ControlStable DEF Add, AddAppend, AddCount, AddReport, Live
<1>2. ASSUME NEW c \in Controls, StartSwap(c) \/ StopLoad(c) PROVE ControlInv'
  BY <1>0, <1>2, ControlMoves
<1>3. ASSUME NEW c \in Controls, ControlStep(c) PROVE ControlInv'
  <2>1. CASE StartSpawn(c)
    <3>1. PICK i \in Procs : proc[i].pc = "off" /\ proc' = [proc EXCEPT ![i].pc = "loop"]
      BY <2>1 DEF StartSpawn
    <3>2. \A j \in Procs : proc'[j].pc = IF j = i THEN "loop" ELSE proc[j].pc
      BY <1>0, <3>1, ProcMoves
    <3>3. /\ control[c] = "spawn" /\ control'[c] = "idle" /\ wg' = wg + 1
          /\ UNCHANGED <<running, closed, panicked>>
      BY <1>0, <2>1 DEF StartSpawn, Goto, TypeOK
    <3>4. \A d \in Controls : d = c
      BY DEF OneControl
    <3>5. running /\ wg = 0 /\ ~panicked /\ ~closed /\ \A j \in Procs : ~Live(j)
      BY <3>3, <3>4 DEF ControlInv
    <3>6. \A j \in Procs : Live(j)' <=> j = i
      BY <3>2, <3>5 DEF Live
    <3> QED
      BY <3>3, <3>4, <3>5, <3>6 DEF ControlInv
  <2> QED
    BY <1>0, <1>3, <2>1, ControlMoves DEF ControlStep
<1>4. ASSUME NEW i \in Procs, ProcExit(i) PROVE ControlInv'
  <2>1. /\ proc[i].pc = "loop" /\ wg' = wg - 1
        /\ \A j \in Procs : proc'[j] = IF j = i THEN Asleep ELSE proc[j]
        /\ UNCHANGED <<running, closed, panicked, control>>
    BY <1>0, <1>4 DEF ProcExit, ProcType
  <2>2. Live(i) /\ ~Live(i)' /\ \A j \in Procs : ~Live(j)'
    BY <2>1 DEF Live, ControlInv, Asleep
  <2>3. wg = 1 /\ wg' = 0
    BY <2>1, <2>2 DEF ControlInv
  <2> QED
    BY <2>1, <2>2, <2>3 DEF ControlInv
<1>5. ASSUME NEW i \in Procs, ProcessNextItem(i) PROVE ControlInv'
  <2>1. \A j \in Procs : Live(j)' <=> Live(j)
    <3>1. Live(i)
      BY <1>5 DEF Live, ProcessNextItem, ProcTake, ProcInterrupted, ProcBackoffOver,
              ProcRetryFails, ProcRetrySucceeds, ProcReport, ProcComplete
    <3>2. \A j \in Procs : j # i => proc'[j] = proc[j]
      BY <1>0, <1>5 DEF ProcType, ProcessNextItem, ProcTake, ProcInterrupted,
              ProcBackoffOver, ProcRetryFails, ProcRetrySucceeds, ProcReport,
              ProcComplete
    <3>3. proc'[i].pc \in {"loop", "backoff", "retry", "report", "complete"}
      BY <1>0, <1>5 DEF ProcType, ProcessNextItem, ProcTake, ProcInterrupted,
              ProcBackoffOver, ProcRetryFails, ProcRetrySucceeds, ProcReport,
              ProcComplete, Looping, Asleep
    <3> QED
      BY <3>1, <3>2, <3>3 DEF Live
  <2> QED
    BY <1>5, <2>1, ControlStable
       DEF ProcessNextItem, ProcTake, ProcInterrupted, ProcBackoffOver, ProcRetryFails,
           ProcRetrySucceeds, ProcReport, ProcComplete, shared
<1>6. ASSUME NEW i \in Procs, Cancel(i) PROVE ControlInv'
  BY <1>6, ControlStable DEF Cancel, Live
<1>7. CASE UNCHANGED vars
  BY <1>7, ControlStable DEF vars, shared, Live
<1> QED
  BY <1>1, <1>2, <1>3, <1>4, <1>5, <1>6, <1>7 DEF Next

(* When Start and Stop are called from one goroutine, as the program does,  *)
(* the channel is never closed twice, never more than one processor runs    *)
(* and none is left when Stop has returned, for any number of calls and     *)
(* whatever is cancelled in between.                                        *)
THEOREM OneProcessorAtATime == ASSUME OneControl PROVE Spec => []OneProcessor
<1>1. Init => ControlInv
  BY DEF Init, ControlInv, Live, Asleep
<1>2. ControlInv => OneProcessor
  BY DEF ControlInv, OneProcessor, Settled, Live
<1>3. QueueInv /\ ControlInv /\ [Next]_vars => ControlInv'
  BY NextControl
<1> QED
  BY <1>1, <1>2, <1>3, InitQueue, NextQueue, PTL DEF Spec

-----------------------------------------------------------------------------
(* The depth counter.                                                       *)

\* Items whose Add has counted them, and items whose success has been counted.
Counted == {x \in Items : adder[x].pc \in {"report", "added"}}
Succeeded(x) == \E i \in Procs : proc[i].item = x /\ proc[i].pc \in {"report", "complete"}
Discounted == {x \in Items : completed[x] = 1 \/ Succeeded(x)}

DepthInv ==
    /\ IsFiniteSet(Counted) /\ IsFiniteSet(Discounted)
    /\ depth = Cardinality(Counted) - Cardinality(Discounted)

(* A sequence without repetitions is as long as the set of its elements.    *)
LEMMA LengthCounts ==
    ASSUME NEW S, NEW s \in Seq(S), Distinct(s)
    PROVE  LET T == {x \in S : In(s, x)}
           IN  IsFiniteSet(T) /\ Cardinality(T) = Len(s)
<1> DEFINE T == {x \in S : In(s, x)}
<1>1. Len(s) \in Nat /\ DOMAIN s = 1..Len(s) /\ \A j \in 1..Len(s) : s[j] \in S
  OBVIOUS
<1>2. s \in [1..Len(s) -> T] /\ \A y \in T : \E j \in 1..Len(s) : s[j] = y
  BY <1>1 DEF In
<1>3. \A j, k \in 1..Len(s) : s[j] = s[k] => j = k
  BY <1>1 DEF Distinct
<1> HIDE DEF T
<1>4. s \in Bijection(1..Len(s), T)
  BY <1>2, <1>3, Fun_IsBij
<1>5. ExistsBijection(1..Len(s), T)
  BY <1>4 DEF ExistsBijection
<1>6. Cardinality(T) = Len(s)
  BY <1>1, <1>5, FS_CountingElements
<1>7. IsFiniteSet(T)
  BY <1>1, <1>5, FS_NatBijection
<1> QED
  BY <1>6, <1>7 DEF T

(* Counting is only changed where the depth is.                             *)
LEMMA DepthStable ==
    ASSUME DepthInv, depth' = depth,
           \A x \in Items : x \in Counted' <=> x \in Counted,
           \A x \in Items : completed'[x] = 1 \/ Succeeded(x)' <=>
                              completed[x] = 1 \/ Succeeded(x)
    PROVE  DepthInv'
<1>1. Counted' = Counted
  BY DEF Counted
<1>2. Discounted' = Discounted
  BY DEF Discounted
<1> QED
  BY <1>1, <1>2 DEF DepthInv

LEMMA NextDepth ==
    ASSUME QueueInv, DepthInv, [Next]_vars
    PROVE  DepthInv'
<1>0. TypeOK /\ ItemsConserved /\ Hands /\ proc \in ProcType
  BY DEF QueueInv, TypeOK, ProcType
<1>a. adder \in [Items -> [pc : {"append", "count", "report", "added"}, saw : Int]]
      /\ depth \in Int
  BY <1>0 DEF TypeOK
<1>n. Cardinality(Counted) \in Nat /\ Cardinality(Discounted) \in Nat
  BY FS_CardinalityType DEF DepthInv
<1>p. ASSUME adder' = adder, completed' = completed, depth' = depth,
             NEW i \in Procs, proc[i].pc \notin {"report", "complete"},
             proc'[i].pc \notin {"report", "complete"},
             \A j \in Procs : j # i => proc'[j] = proc[j]
      PROVE  DepthInv'
  <2>1. \A x : Succeeded(x)' <=> Succeeded(x)
    BY <1>p DEF Succeeded
  <2> QED
    BY <1>p, <2>1, DepthStable DEF Counted
<1>u. ASSUME UNCHANGED <<adder, completed, depth, proc>> PROVE DepthInv'
  BY <1>u, DepthStable DEF Counted, Succeeded
<1>1. ASSUME NEW x \in Items, AddAppend(x) PROVE DepthInv'
  <2>1. \A y \in Items : y \in Counted' <=> y \in Counted
    BY <1>a, <1>1 DEF AddAppend, Counted
  <2> QED
    BY <1>1, <2>1, DepthStable DEF AddAppend, Succeeded
<1>2. ASSUME NEW x \in Items, AddCount(x) PROVE DepthInv'
  <2>1. x \notin Counted /\ Counted' = Counted \cup {x}
    BY <1>a, <1>2 DEF AddCount, Counted
  <2>2. Discounted' = Discounted
    BY <1>2 DEF AddCount, Discounted, Succeeded
  <2>3. IsFiniteSet(Counted') /\ Cardinality(Counted') = Cardinality(Counted) + 1
    BY <2>1, FS_AddElement DEF DepthInv
  <2>4. depth' = depth + 1
    BY <1>2 DEF AddCount
  <2> QED
    BY <1>n, <2>2, <2>3, <2>4 DEF DepthInv
<1>3. ASSUME NEW x \in Items, AddReport(x) PROVE DepthInv'
  <2>1. \A y \in Items : y \in Counted' <=> y \in Counted
    BY <1>a, <1>3 DEF AddReport, Counted
  <2> QED
    BY <1>3, <2>1, DepthStable DEF AddReport, Succeeded
<1>4. ASSUME NEW c \in Controls, StartSwap(c) \/ StopLoad(c) \/ StopClose(c)
               \/ StopWait(c) \/ StopClear(c) \/ StopRemake(c)
      PROVE  DepthInv'
  BY <1>4, <1>u DEF StartSwap, StopLoad, StopClose, StopWait, StopClear, StopRemake,
                    shared
<1>5. ASSUME NEW c \in Controls, StartSpawn(c) PROVE DepthInv'
  <2>1. PICK i \in Procs : proc[i].pc = "off" /\ proc' = [proc EXCEPT ![i].pc = "loop"]
    BY <1>5 DEF StartSpawn
  <2>2. proc'[i].pc = "loop" /\ \A j \in Procs : j # i => proc'[j] = proc[j]
    BY <1>0, <2>1 DEF ProcType
  <2> QED
    BY <1>5, <1>p, <2>1, <2>2 DEF StartSpawn
<1>6. ASSUME NEW i \in Procs,
             ProcExit(i) \/ ProcTake(i) \/ ProcInterrupted(i) \/ ProcBackoffOver(i)
               \/ ProcRetryFails(i)
      PROVE  DepthInv'
  <2>1. proc[i].pc \in {"loop", "backoff", "retry"}
    BY <1>6 DEF ProcExit, ProcTake, ProcInterrupted, ProcBackoffOver, ProcRetryFails
  <2>2. proc'[i].pc \in {"off", "loop", "backoff", "retry"}
    BY <1>0, <1>6 DEF ProcType, ProcExit, ProcTake, ProcInterrupted, ProcBackoffOver,
                      ProcRetryFails, Looping, Asleep
  <2>3. \A j \in Procs : j # i => proc'[j] = proc[j]
    BY <1>0, <1>6 DEF ProcType, ProcExit, ProcTake, ProcInterrupted, ProcBackoffOver,
                      ProcRetryFails
  <2>4. UNCHANGED <<adder, completed, depth>>
    BY <1>6 DEF ProcExit, ProcTake, ProcInterrupted, ProcBackoffOver, ProcRetryFails,
                shared
  <2> QED
    BY <1>p, <2>1, <2>2, <2>3, <2>4
<1>7. ASSUME NEW i \in Procs, ProcRetrySucceeds(i) PROVE DepthInv'
  <2> DEFINE x == proc[i].item
  <2>1. /\ proc[i].pc = "retry" /\ depth' = depth - 1
        /\ adder' = adder /\ completed' = completed
        /\ proc' = [proc EXCEPT ![i].pc = "report", ![i].saw = depth - 1]
    BY <1>7 DEF ProcRetrySucceeds
  <2>2. /\ \A j \in Procs : proc'[j].item = proc[j].item
        /\ \A j \in Procs : proc'[j].pc = IF j = i THEN "report" ELSE proc[j].pc
    <3> DEFINE n == depth - 1
    <3>1. n \in Int /\ proc' = [proc EXCEPT ![i].pc = "report", ![i].saw = n]
      BY <1>a, <2>1
    <3> HIDE DEF n
    <3> QED
      BY <1>0, <3>1, ProcMovesNoting
  <2>3. x \in Items /\ Held(x)
    BY <1>0, <2>1 DEF Hands, ProcType, Held
  <2>4. completed[x] = 0 /\ ~Succeeded(x)
    BY <1>0, <2>1, <2>3, NoneAssumption DEF ItemsConserved, Succeeded
  <2>5. \A y : Succeeded(y)' <=> Succeeded(y) \/ y = x
    BY <2>1, <2>2 DEF Succeeded
  <2>6. x \notin Discounted /\ Discounted' = Discounted \cup {x}
    BY <2>1, <2>3, <2>4, <2>5 DEF Discounted
  <2>7. IsFiniteSet(Discounted') /\ Cardinality(Discounted') = Cardinality(Discounted) + 1
    BY <2>6, FS_AddElement DEF DepthInv
  <2>8. Counted' = Counted
    BY <2>1 DEF Counted
  <2> QED
    BY <1>n, <2>1, <2>7, <2>8 DEF DepthInv
<1>8. ASSUME NEW i \in Procs, ProcReport(i) PROVE DepthInv'
  <2>1. /\ proc[i].pc = "report" /\ depth' = depth /\ adder' = adder
        /\ completed' = completed
        /\ proc' = [proc EXCEPT ![i].pc = "complete", ![i].saw = 0]
    BY <1>8 DEF ProcReport
  <2>2. /\ \A j \in Procs : proc'[j].item = proc[j].item
        /\ \A j \in Procs : proc'[j].pc = IF j = i THEN "complete" ELSE proc[j].pc
    <3> DEFINE n == 0
    <3>1. n \in Int /\ proc' = [proc EXCEPT ![i].pc = "complete", ![i].saw = n]
      BY <2>1
    <3> HIDE DEF n
    <3> QED
      BY <1>0, <3>1, ProcMovesNoting
  <2>3. \A y : Succeeded(y)' <=> Succeeded(y)
    BY <2>1, <2>2 DEF Succeeded
  <2> QED
    BY <2>1, <2>3, DepthStable DEF Counted
<1>9. ASSUME NEW i \in Procs, ProcComplete(i) PROVE DepthInv'
  <2> DEFINE x == proc[i].item
  <2>1. /\ proc[i].pc = "complete" /\ depth' = depth /\ adder' = adder
        /\ completed' = [completed EXCEPT ![x] = @ + 1]
        /\ \A j \in Procs : proc'[j] = IF j = i THEN Looping ELSE proc[j]
    BY <1>0, <1>9 DEF ProcComplete, ProcType, shared
  <2>2. x \in Items /\ Held(x)
    BY <1>0, <2>1 DEF Hands, ProcType, Held
  <2>3. completed[x] = 0 /\ Looping.pc = "loop"
    BY <1>0, <2>2 DEF ItemsConserved, Looping, Asleep
  <2>4. \A y \in Items : completed'[y] = IF y = x THEN 1 ELSE completed[y]
    BY <1>0, <2>1, <2>2, <2>3 DEF TypeOK
  <2>5. \A y \in Items : y # x => (Succeeded(y)' <=> Succeeded(y))
    BY <2>1, <2>3 DEF Succeeded
  <2>6. Succeeded(x)
    BY <2>1 DEF Succeeded
  <2>7. \A y \in Items : completed'[y] = 1 \/ Succeeded(y)' <=>
                           completed[y] = 1 \/ Succeeded(y)
    BY <2>4, <2>5, <2>6
  <2> QED
    BY <2>1, <2>7, DepthStable DEF Counted
<1>10. ASSUME NEW i \in Procs, Cancel(i) PROVE DepthInv'
  BY <1>10, <1>u DEF Cancel
<1>11. CASE UNCHANGED vars
  BY <1>11, <1>u DEF vars, shared
<1> QED
  BY <1>1, <1>2, <1>3, <1>4, <1>5, <1>6, <1>7, <1>8, <1>9, <1>10, <1>11
     DEF Next, Add, ControlStep, ProcessNextItem

(* At rest, what has been counted and not discounted is in the queue.       *)
LEMMA RestingDepth == QueueInv /\ DepthInv => DepthAtRest
<1> SUFFICES ASSUME QueueInv, DepthInv, AtRest PROVE depth = Len(items)
  BY DEF DepthAtRest
<1> DEFINE Waiting == {x \in Items : In(items, x)}
<1>0. TypeOK /\ ItemsConserved /\ Hands
  BY DEF QueueInv
<1>1. items \in Seq(Items) /\ Distinct(items) /\ \A x : Queued(x) <=> In(items, x)
  BY <1>0 DEF TypeOK, ItemsConserved, Distinct, Queued, In
<1>2. IsFiniteSet(Waiting) /\ Cardinality(Waiting) = Len(items) /\ Len(items) \in Nat
  BY <1>1, LengthCounts
<1>3. \A x \in Items : ~Held(x) /\ ~Succeeded(x)
  BY NoneAssumption DEF AtRest, Held, Succeeded
<1>4. \A x \in Items : x \in Counted <=> adder[x].pc # "append"
  BY <1>0 DEF AtRest, Counted, TypeOK
<1>5. \A x \in Items : completed[x] = IF adder[x].pc = "append" \/ Queued(x) THEN 0 ELSE 1
  BY <1>0, <1>3 DEF ItemsConserved
<1>6. \A x \in Items : Queued(x) => adder[x].pc # "append"
  BY <1>0 DEF ItemsConserved
<1>7. Counted = Waiting \cup Discounted /\ Waiting \cap Discounted = {}
  BY <1>1, <1>3, <1>4, <1>5, <1>6 DEF Counted, Discounted
<1> HIDE DEF Waiting
<1>8. Cardinality(Counted) = Cardinality(Waiting) + Cardinality(Discounted) - 0
  BY <1>2, <1>7, FS_Union, FS_EmptySet DEF DepthInv
<1>9. Cardinality(Discounted) \in Nat
  BY FS_CardinalityType DEF DepthInv
<1> QED
  BY <1>2, <1>8, <1>9 DEF DepthInv

(* Whenever no goroutine is inside Add or has an item in its hands, Depth() *)
(* is the number of queued items, for any number of items, of goroutines    *)
(* that race in Start and Stop, of failures and of interruptions.           *)
THEOREM DepthIsRightAtRest == Spec => []DepthAtRest
<1>1. Init => DepthInv
  <2> SUFFICES ASSUME Init PROVE DepthInv
    OBVIOUS
  <2>1. Counted = {} /\ Discounted = {} /\ depth = 0
    BY DEF Init, Counted, Discounted, Succeeded, Asleep
  <2> QED
    BY <2>1, FS_EmptySet DEF DepthInv
<1>2. QueueInv /\ DepthInv /\ [Next]_vars => DepthInv'
  BY NextDepth
<1> QED
  BY <1>1, <1>2, RestingDepth, InitQueue, NextQueue, PTL DEF Spec

=============================================================================
