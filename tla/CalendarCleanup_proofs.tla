----------------------- MODULE CalendarCleanup_proofs -----------------------
(***************************************************************************)
(* Proofs about CalendarCleanup for any number of channels, broadcasts and *)
(* requests, any limit and batch: the types of its state, who answers for  *)
(* an event, the limit of channels, and that every step is one operation   *)
(* of CalendarRegistry.                                                    *)
(***************************************************************************)
EXTENDS CalendarCleanup, FiniteSetTheorems, SequenceTheorems, TLAPS

(* The tasks and their order: an event has one task, an id is of one task, *)
(* and the order has each id once.                                         *)
Store(T, o) ==
    /\ T \subseteq Task /\ o \in Seq(Ids)
    /\ \A t, u \in T : t.id = u.id \/ t.event = u.event => t = u
    /\ \A i, j \in DOMAIN o : o[i] = o[j] => i = j
    /\ \A t \in T : \E i \in DOMAIN o : o[i] = t.id
    /\ \A i \in DOMAIN o : \E t \in T : o[i] = t.id

-----------------------------------------------------------------------------
(* Two operators of SequencesExt: the sequence of a finite set has each    *)
(* element once, and RemoveFirst takes one away and leaves the others.     *)

LEMMA SetToSeqIs ==
    ASSUME NEW S, IsFiniteSet(S)
    PROVE  /\ SetToSeq(S) \in Seq(S)
           /\ \A i, j \in DOMAIN SetToSeq(S) : SetToSeq(S)[i] = SetToSeq(S)[j] => i = j
           /\ \A x \in S : \E i \in DOMAIN SetToSeq(S) : SetToSeq(S)[i] = x
<1>1. Cardinality(S) \in Nat /\ ExistsBijection(1 .. Cardinality(S), S)
  BY FS_CardinalityType
<1>2. PICK f \in Bijection(1 .. Cardinality(S), S) : TRUE
  BY <1>1 DEF ExistsBijection
<1>3. \E g \in [1 .. Cardinality(S) -> S] : IsInjective(g)
  BY <1>2 DEF Bijection, Injection, IsInjective
<1> DEFINE g == SetToSeq(S)
<1>4. g \in [1 .. Cardinality(S) -> S] /\ IsInjective(g)
  BY <1>3 DEF SetToSeq
<1> HIDE DEF g
<1>5. g \in Injection(1 .. Cardinality(S), S)
  BY <1>4 DEF Injection, IsInjective
<1>6. \A i, j \in DOMAIN g : g[i] = g[j] => i = j
  BY <1>4 DEF IsInjective
<1>7. g \in Seq(S)
  BY <1>1, <1>4
<1>8. g \in Surjection(1 .. Cardinality(S), S)
  <2>1. IsFiniteSet(1 .. Cardinality(S)) /\ Cardinality(1 .. Cardinality(S)) = Cardinality(S)
    BY <1>1, FS_Interval
  <2>2. QED
    BY <2>1, <1>5, FS_Injection
<1>9. \A x \in S : \E i \in DOMAIN g : g[i] = x
  BY <1>8 DEF Surjection
<1>10. QED
  BY <1>6, <1>7, <1>9 DEF g

LEMMA RemoveFirstIs ==
    ASSUME NEW S, NEW s \in Seq(S), NEW x,
           \A i, j \in DOMAIN s : s[i] = s[j] => i = j
    PROVE  LET d == RemoveFirst(s, x)
           IN  /\ d \in Seq(S)
               /\ \A i, j \in DOMAIN d : d[i] = d[j] => i = j
               /\ \A i \in DOMAIN d : d[i] # x /\ \E j \in DOMAIN s : s[j] = d[i]
               /\ \A j \in DOMAIN s : s[j] # x => \E i \in DOMAIN d : d[i] = s[j]
<1>0. Len(s) \in Nat /\ DOMAIN s = 1 .. Len(s)
  BY LenProperties
<1>1. CASE ~ \E i \in 1 .. Len(s) : s[i] = x
  BY <1>0, <1>1 DEF RemoveFirst
<1>2. CASE \E i \in 1 .. Len(s) : s[i] = x
  <2>1. PICK p \in 1 .. Len(s) : s[p] = x
    BY <1>2
  <2>2. {i \in 1 .. Len(s) : s[i] = x} = {p}
    BY <2>1, <1>0
  <2>3. SelectInSeq(s, LAMBDA v : v = x) = p
    BY <2>1, <2>2 DEF SelectInSeq, Min
  <2> DEFINE a == SubSeq(s, 1, p - 1)
             b == SubSeq(s, p + 1, Len(s))
             d == a \o b
  <2>4. RemoveFirst(s, x) = d
    BY <1>2, <2>3 DEF RemoveFirst, RemoveAt
  <2>5. a \in Seq(S) /\ Len(a) = p - 1 /\ \A i \in 1 .. p - 1 : a[i] = s[i]
    BY <1>0, <2>1, SubSeqProperties
  <2>6. b \in Seq(S) /\ Len(b) = Len(s) - p /\ \A i \in 1 .. Len(s) - p : b[i] = s[p + i]
    <3>1. /\ b \in Seq(S) /\ Len(b) = IF p + 1 <= Len(s) THEN Len(s) - (p + 1) + 1 ELSE 0
          /\ \A i \in 1 .. Len(s) - (p + 1) + 1 : b[i] = s[(p + 1) + i - 1]
      <4>1. \A i \in p + 1 .. Len(s) : s[i] \in S
        BY <1>0, <2>1
      <4>2. p + 1 \in Int /\ Len(s) \in Int
        BY <1>0
      <4> HIDE DEF b
      <4>3. QED
        BY <4>1, <4>2, SubSeqProperties DEF b
    <3> HIDE DEF b
    <3>2. Len(s) - (p + 1) + 1 = Len(s) - p
      BY <1>0
    <3>3. Len(b) = Len(s) - p
      <4>1. (p + 1 <= Len(s)) => Len(b) = Len(s) - p
        BY <3>1, <3>2
      <4>2. ~ (p + 1 <= Len(s)) => Len(b) = 0
        BY <3>1
      <4>3. ~ (p + 1 <= Len(s)) => Len(s) - p = 0
        <5>1. Len(s) \in Nat /\ p \in 1 .. Len(s)
          BY <1>0
        <5>2. QED
          BY <5>1
      <4>4. QED
        BY <4>1, <4>2, <4>3
    <3>4. ASSUME NEW i \in 1 .. Len(s) - p PROVE b[i] = s[p + i]
      <4>1. b[i] = s[(p + 1) + i - 1]
        BY <3>1, <3>2
      <4>2. (p + 1) + i - 1 = p + i
        BY <1>0
      <4>3. QED
        BY <4>1, <4>2
    <3>5. QED
      BY <3>1, <3>3, <3>4
  <2> HIDE DEF a, b
  <2>7. /\ d \in Seq(S) /\ Len(d) = Len(s) - 1
        /\ \A i \in 1 .. Len(s) - 1 : d[i] = IF i < p THEN s[i] ELSE s[i + 1]
    <3>1. /\ d \in Seq(S) /\ Len(d) = Len(a) + Len(b)
          /\ \A i \in 1 .. Len(a) + Len(b) : d[i] = IF i <= Len(a) THEN a[i] ELSE b[i - Len(a)]
      BY <2>5, <2>6, ConcatProperties
    <3> HIDE DEF d
    <3>2. Len(a) + Len(b) = Len(s) - 1
      BY <1>0, <2>1, <2>5, <2>6
    <3>3. ASSUME NEW i \in 1 .. Len(s) - 1 PROVE d[i] = IF i < p THEN s[i] ELSE s[i + 1]
      <4>1. CASE i < p
        <5>1. i \in 1 .. p - 1 /\ i \in 1 .. Len(a) + Len(b) /\ i <= Len(a)
          BY <4>1, <1>0, <2>1, <2>5, <3>2
        <5>2. QED
          BY <5>1, <4>1, <2>5, <3>1
      <4>2. CASE i >= p
        <5>1. ~ (i <= Len(a)) /\ i - Len(a) = i - p + 1
          BY <4>2, <1>0, <2>1, <2>5
        <5>2. i - p + 1 \in 1 .. Len(s) - p /\ p + (i - p + 1) = i + 1
          BY <4>2, <1>0, <2>1
        <5>3. d[i] = b[i - p + 1]
          BY <5>1, <3>1, <3>2
        <5>4. QED
          BY <5>2, <5>3, <2>6, <4>2, <1>0
      <4>3. QED
        BY <4>1, <4>2, <1>0
    <3>4. QED
      BY <3>1, <3>2, <3>3
  <2> HIDE DEF d
  <2>8. DOMAIN d = 1 .. Len(s) - 1
    BY <2>7, LenProperties
  <2>9. \A j \in DOMAIN s : s[j] # x => \E i \in DOMAIN d : d[i] = s[j]
    <3> SUFFICES ASSUME NEW j \in DOMAIN s, s[j] # x PROVE \E i \in DOMAIN d : d[i] = s[j]
      OBVIOUS
    <3>1. j \in 1 .. Len(s) /\ j # p
      BY <1>0, <2>1
    <3>2. CASE j < p
      BY <3>1, <3>2, <2>1, <2>7, <2>8, <1>0
    <3>3. CASE j > p
      <4>1. j - 1 \in DOMAIN d /\ d[j - 1] = s[j]
        BY <3>1, <3>3, <2>1, <2>7, <2>8, <1>0
      <4>2. QED
        BY <4>1
    <3>4. QED
      BY <3>1, <3>2, <3>3, <2>1, <1>0
  <2>10. \A i \in DOMAIN d : d[i] # x /\ \E j \in DOMAIN s : s[j] = d[i]
    BY <1>0, <2>1, <2>7, <2>8
  <2>11. \A i, j \in DOMAIN d : d[i] = d[j] => i = j
    <3> SUFFICES ASSUME NEW i \in DOMAIN d, NEW j \in DOMAIN d, d[i] = d[j], i # j PROVE FALSE
      OBVIOUS
    <3> DEFINE f(k) == IF k < p THEN k ELSE k + 1
    <3>1. i \in 1 .. Len(s) - 1 /\ j \in 1 .. Len(s) - 1
      BY <2>8
    <3>2. f(i) \in DOMAIN s /\ f(j) \in DOMAIN s /\ f(i) # f(j)
      BY <3>1, <1>0, <2>1
    <3>3. d[i] = s[f(i)] /\ d[j] = s[f(j)]
      BY <3>1, <2>7
    <3>4. QED
      BY <3>2, <3>3
  <2>12. QED
    BY <2>4, <2>7, <2>9, <2>10, <2>11
<1>3. QED
  BY <1>1, <1>2

-----------------------------------------------------------------------------
(* The store of tasks.                                                     *)

LEMMA IdsAreNumbers == Ids \subseteq Nat /\ IsFiniteSet(Ids)
<1>1. Cardinality(Events) \in Nat /\ Cardinality(Requests) \in Nat
  BY CleanupAssumption, FS_CardinalityType
<1> DEFINE n == 3 * Cardinality(Events) + Cardinality(Requests)
<1>2. n \in Nat
  BY <1>1
<1> HIDE DEF n
<1>3. IsFiniteSet(1 .. n)
  BY <1>2, FS_Interval
<1>4. QED
  BY <1>2, <1>3 DEF n, Ids

(* As many tasks as ids in the order and as events that have one.          *)
LEMMA StoreCounts ==
    ASSUME NEW T, NEW o, Store(T, o)
    PROVE  Cardinality(T) = Len(o) /\ Cardinality(T) = Cardinality({t.event : t \in T})
<1>1. Len(o) \in Nat /\ DOMAIN o = 1 .. Len(o)
  BY LenProperties DEF Store
<1>2. IsFiniteSet(1 .. Len(o)) /\ Cardinality(1 .. Len(o)) = Len(o)
  <2>1. /\ IsFiniteSet(1 .. Len(o))
        /\ Cardinality(1 .. Len(o)) = IF 1 <= Len(o) THEN Len(o) - 1 + 1 ELSE 0
    BY <1>1, FS_Interval
  <2>2. (IF 1 <= Len(o) THEN Len(o) - 1 + 1 ELSE 0) = Len(o)
    BY <1>1
  <2>3. QED
    BY <2>1, <2>2
<1> DEFINE f == [i \in 1 .. Len(o) |-> CHOOSE t \in T : o[i] = t.id]
<1>3. \A i \in 1 .. Len(o) : f[i] \in T /\ o[i] = f[i].id
  BY <1>1 DEF Store
<1>4. f \in Bijection(1 .. Len(o), T)
  <2>1. f \in [1 .. Len(o) -> T]
    BY <1>3
  <2> HIDE DEF f
  <2>2. ASSUME NEW i \in 1 .. Len(o), NEW j \in 1 .. Len(o), f[i] = f[j] PROVE i = j
    <3>1. o[i] = o[j]
      BY <1>3, <2>2
    <3>2. QED
      BY <1>1, <3>1 DEF Store
  <2>3. ASSUME NEW t \in T PROVE \E i \in 1 .. Len(o) : f[i] = t
    <3>1. PICK i \in 1 .. Len(o) : o[i] = t.id
      BY <1>1 DEF Store
    <3>2. f[i] \in T /\ f[i].id = t.id
      BY <1>3, <3>1
    <3>3. QED
      BY <3>2 DEF Store
  <2>4. QED
    BY <2>1, <2>2, <2>3 DEF Bijection, Injection, Surjection, IsInjective
<1>5. IsFiniteSet(T) /\ Cardinality(T) = Len(o)
  BY <1>2, <1>4, FS_Bijection DEF ExistsBijection
<1> DEFINE g == [t \in T |-> t.event]
<1>6. g \in Bijection(T, {t.event : t \in T})
  BY DEF Store, Bijection, Injection, Surjection, IsInjective
<1>7. Cardinality({t.event : t \in T}) = Cardinality(T)
  BY <1>5, <1>6, FS_Bijection DEF ExistsBijection
<1>8. QED
  BY <1>5, <1>7

(* Queueing tasks for some events.                                         *)
LEMMA QueueTasksIs ==
    ASSUME Store(tasks, order), NEW es \in SUBSET Events, QueueTasks(es)
    PROVE  /\ Store(tasks', order')
           /\ Tasked' = Tasked \cup es
           /\ \A t \in tasks : t \in tasks'
           /\ \A t \in tasks' : t \in tasks \/ (t.id \notin UsedIds /\ t.event \in es)
<1>1. PICK id \in [es \ Tasked -> Ids \ UsedIds] :
        /\ \A e, f \in es \ Tasked : id[e] = id[f] => e = f
        /\ tasks' = tasks \cup {[id |-> id[e], event |-> e] : e \in es \ Tasked}
        /\ order' = order \o SetToSeq({id[e] : e \in es \ Tasked})
  BY DEF QueueTasks
<1> DEFINE ids == {id[e] : e \in es \ Tasked}
           fresh == {[id |-> id[e], event |-> e] : e \in es \ Tasked}
           s == SetToSeq(ids)
<1>2. ids \subseteq Ids \ UsedIds
  BY <1>1
<1>3. IsFiniteSet(ids)
  BY <1>2, IdsAreNumbers, FS_Subset
<1>4. /\ s \in Seq(ids)
      /\ \A i, j \in DOMAIN s : s[i] = s[j] => i = j
      /\ \A x \in ids : \E i \in DOMAIN s : s[i] = x
  <2> HIDE DEF ids
  <2>1. QED
    BY <1>3, SetToSeqIs
<1>5. tasks' = tasks \cup fresh /\ order' = order \o s
  BY <1>1
<1> DEFINE row(e) == [id |-> id[e], event |-> e]
<1>6. \A x \in ids : \E t \in fresh : t.id = x
  <2>1. \A e \in es \ Tasked : row(e) \in fresh /\ row(e).id = id[e]
    OBVIOUS
  <2> HIDE DEF fresh, row
  <2>2. QED
    BY <2>1
<1>7. \A t \in fresh : /\ t \in Task /\ t.id \in ids /\ t.event \in es \ Tasked /\ id[t.event] = t.id
                       /\ t = [id |-> id[t.event], event |-> t.event]
  BY <1>2 DEF Task
<1>8. \A t \in tasks : t.id \in UsedIds /\ t.id \in Ids
  BY DEF UsedIds, Store, Task
<1>9. {t.event : t \in fresh} = es \ Tasked
  <2>1. \A e \in es \ Tasked : row(e) \in fresh /\ row(e).event = e
    OBVIOUS
  <2> HIDE DEF fresh, row
  <2>2. QED
    BY <2>1, <1>7
<1> HIDE DEF ids, fresh, s, row
<1>10. tasks' \subseteq Task
  BY <1>5, <1>7 DEF Store
<1>11. \A t, u \in tasks' : t.id = u.id \/ t.event = u.event => t = u
  <2>1. \A t, u \in fresh : t.id = u.id \/ t.event = u.event => t = u
    BY <1>7, <1>1
  <2>2. \A t \in tasks, u \in fresh : t.id # u.id /\ t.event # u.event
    BY <1>2, <1>7, <1>8 DEF Tasked
  <2>3. QED
    BY <1>5, <2>1, <2>2 DEF Store
<1>12. order \in Seq(Ids) /\ s \in Seq(Ids)
  BY <1>2, <1>4 DEF Store
<1>13. /\ order' \in Seq(Ids) /\ Len(order') = Len(order) + Len(s)
       /\ \A i \in 1 .. Len(order) + Len(s) :
             order'[i] = IF i <= Len(order) THEN order[i] ELSE s[i - Len(order)]
  BY <1>5, <1>12, ConcatProperties
<1>14. /\ Len(order) \in Nat /\ DOMAIN order = 1 .. Len(order)
       /\ Len(s) \in Nat /\ DOMAIN s = 1 .. Len(s)
       /\ DOMAIN order' = 1 .. Len(order) + Len(s)
  BY <1>12, <1>13, LenProperties
<1>15. \A i \in DOMAIN order' : i \in DOMAIN order \/ i - Len(order) \in DOMAIN s
  BY <1>14
<1>16. \A i \in DOMAIN order : i \in DOMAIN order' /\ order'[i] = order[i]
  BY <1>13, <1>14
<1>17. ASSUME NEW i \in DOMAIN s
       PROVE  i + Len(order) \in DOMAIN order' /\ order'[i + Len(order)] = s[i]
  <2>1. /\ i + Len(order) \in 1 .. Len(order) + Len(s)
        /\ ~ (i + Len(order) <= Len(order)) /\ i + Len(order) - Len(order) = i
    BY <1>14
  <2>2. QED
    BY <2>1, <1>13, <1>14
<1>18. \A t \in tasks' : \E i \in DOMAIN order' : order'[i] = t.id
  <2>1. \A t \in tasks : \E i \in DOMAIN order' : order'[i] = t.id
    BY <1>16 DEF Store
  <2>2. ASSUME NEW t \in fresh PROVE \E i \in DOMAIN order' : order'[i] = t.id
    <3>1. PICK i \in DOMAIN s : s[i] = t.id
      BY <1>4, <1>7
    <3>2. QED
      BY <3>1, <1>17
  <2>3. QED
    BY <1>5, <2>1, <2>2
<1>19. \A i \in DOMAIN s : s[i] \in ids
  BY <1>4, <1>14, LenProperties
<1>20. ASSUME NEW i \in DOMAIN order', i \notin DOMAIN order
       PROVE  i - Len(order) \in DOMAIN s /\ order'[i] = s[i - Len(order)]
  <2>1. i - Len(order) \in DOMAIN s
    BY <1>15, <1>20
  <2>2. (i - Len(order)) + Len(order) = i
    BY <1>14
  <2>3. QED
    BY <2>1, <2>2, <1>17
<1>21. \A i \in DOMAIN order' : \E t \in tasks' : order'[i] = t.id
  <2> SUFFICES ASSUME NEW i \in DOMAIN order' PROVE \E t \in tasks' : order'[i] = t.id
    OBVIOUS
  <2>1. CASE i \in DOMAIN order
    BY <2>1, <1>5, <1>16 DEF Store
  <2>2. CASE i \notin DOMAIN order
    BY <2>2, <1>5, <1>6, <1>19, <1>20
  <2>3. QED
    BY <2>1, <2>2
<1>22. \A i \in DOMAIN order : order[i] \in UsedIds
  BY <1>8 DEF Store
<1>23. \A i, j \in DOMAIN order' : order'[i] = order'[j] => i = j
  <2> SUFFICES ASSUME NEW i \in DOMAIN order', NEW j \in DOMAIN order', order'[i] = order'[j]
               PROVE  i = j
    OBVIOUS
  <2>1. CASE i \in DOMAIN order /\ j \in DOMAIN order
    BY <2>1, <1>16 DEF Store
  <2>2. CASE i \in DOMAIN order /\ j \notin DOMAIN order
    BY <2>2, <1>16, <1>20, <1>19, <1>2, <1>22
  <2>3. CASE i \notin DOMAIN order /\ j \in DOMAIN order
    BY <2>3, <1>16, <1>20, <1>19, <1>2, <1>22
  <2>4. CASE i \notin DOMAIN order /\ j \notin DOMAIN order
    <3>1. i - Len(order) = j - Len(order)
      BY <2>4, <1>20, <1>4
    <3>2. QED
      BY <3>1, <1>14
  <2>5. QED
    BY <2>1, <2>2, <2>3, <2>4
<1>24. Store(tasks', order')
  BY <1>10, <1>11, <1>13, <1>18, <1>21, <1>23 DEF Store
<1>25. Tasked' = Tasked \cup es
  BY <1>5, <1>9 DEF Tasked
<1>26. QED
  BY <1>24, <1>25, <1>5, <1>7, <1>2

(* Dropping a task somebody remembers, whether it is still there or not.   *)
LEMMA DropTaskIs ==
    ASSUME Store(tasks, order), NEW task \in Task, DropTask(task),
           \A t \in tasks : t.id = task.id => t = task
    PROVE  /\ Store(tasks', order')
           /\ tasks' = tasks \ {task}
           /\ Tasked' = IF task \in tasks THEN Tasked \ {task.event} ELSE Tasked
<1>1. tasks' = tasks \ {task} /\ order' = RemoveFirst(order, task.id)
  BY DEF DropTask
<1>2. /\ order' \in Seq(Ids)
      /\ \A i, j \in DOMAIN order' : order'[i] = order'[j] => i = j
      /\ \A i \in DOMAIN order' : order'[i] # task.id /\ \E j \in DOMAIN order : order[j] = order'[i]
      /\ \A j \in DOMAIN order : order[j] # task.id => \E i \in DOMAIN order' : order'[i] = order[j]
  <2>1. order \in Seq(Ids) /\ \A i, j \in DOMAIN order : order[i] = order[j] => i = j
    BY DEF Store
  <2>2. QED
    BY <1>1, <2>1, RemoveFirstIs
<1>3. \A t \in tasks' : t \in tasks /\ t.id # task.id
  BY <1>1
<1>4. \A t \in tasks' : \E i \in DOMAIN order' : order'[i] = t.id
  BY <1>2, <1>3 DEF Store
<1>5. ASSUME NEW i \in DOMAIN order' PROVE \E t \in tasks' : order'[i] = t.id
  <2>1. PICK j \in DOMAIN order : order[j] = order'[i]
    BY <1>2
  <2>2. PICK t \in tasks : order[j] = t.id
    BY DEF Store
  <2>3. t \in tasks'
    BY <1>1, <1>2, <2>1, <2>2
  <2>4. QED
    BY <2>1, <2>2, <2>3
<1>6. Store(tasks', order')
  BY <1>1, <1>2, <1>4, <1>5 DEF Store
<1>7. CASE task \in tasks
  <2>1. \A t \in tasks : t.event = task.event => t = task
    BY <1>7 DEF Store
  <2>2. QED
    BY <1>1, <1>6, <1>7, <2>1 DEF Tasked
<1>8. CASE task \notin tasks
  BY <1>1, <1>6, <1>8 DEF Tasked
<1>9. QED
  BY <1>7, <1>8

-----------------------------------------------------------------------------
(* Who remembers which task, and what a request, a sync and the pass have  *)
(* at their places.                                                        *)

Request == [pc : {"idle", "count", "create", "next", "event", "task"},
            channel : Channels, todo : SUBSET Events, task : SUBSET Task]
Syncing == [pc : {"idle", "list", "item", "upsert", "save"},
            todo : SUBSET Events, writing : SUBSET Events]

Types ==
    /\ subs \subseteq Channels /\ mapping \subseteq Events /\ event \subseteq Events
    /\ over \subseteq Events /\ unsaved \subseteq Events
    /\ known \subseteq Channels /\ rows \subseteq Events
    /\ locked \in Requests \cup {Nobody}
    /\ req \in [Requests -> Request] /\ sync \in [Channels -> Syncing]
    /\ pass \in [pc : {"idle", "event", "task"}, todo : Seq(Task)]

Remembered(t) == (\E i \in DOMAIN pass.todo : pass.todo[i] = t) \/ \E r \in Requests : t \in req[r].task

(* An id that somebody remembers is not used again.                        *)
IdsKept == \A t \in Task, u \in tasks : Remembered(t) /\ t.id = u.id => t = u

RequestShape == \A r \in Requests :
    req[r].pc \in {"event", "task"} => \E t \in Task : req[r].task = {t}
SyncShape == \A c \in Channels :
    IF sync[c].pc \in {"upsert", "save"} THEN \E e \in Events : sync[c].writing = {e}
                                         ELSE sync[c].writing = {}
PassShape == /\ pass.pc = "idle" => pass.todo = <<>>
             /\ pass.pc = "task" => pass.todo # <<>>

Shape == Types /\ Store(tasks, order) /\ IdsKept /\ RequestShape /\ SyncShape /\ PassShape

LEMMA RememberedIsUsed ==
    ASSUME NEW t, Remembered(t)
    PROVE  t.id \in UsedIds
<1>1. CASE \E i \in DOMAIN pass.todo : pass.todo[i] = t
  BY <1>1 DEF UsedIds, Range
<1>2. CASE \E r \in Requests : t \in req[r].task
  BY <1>2 DEF UsedIds
<1>3. QED
  BY <1>1, <1>2 DEF Remembered

(* New tasks have new ids, and who remembers a task has seen it.           *)
LEMMA IdsStayKept ==
    ASSUME IdsKept, Store(tasks', order'),
           \A t \in tasks' : t \in tasks \/ t.id \notin UsedIds,
           \A t \in Task : Remembered(t)' => Remembered(t) \/ t \in tasks'
    PROVE  IdsKept'
<1> SUFFICES ASSUME NEW t \in Task, NEW u \in tasks', Remembered(t)', t.id = u.id PROVE t = u
  BY DEF IdsKept
<1>1. CASE t \in tasks'
  BY <1>1 DEF Store
<1>2. CASE Remembered(t)
  BY <1>2, RememberedIsUsed DEF IdsKept
<1>3. QED
  BY <1>1, <1>2

LEMMA IdleIs == IdleRequest \in Request /\ IdleSync \in Syncing
                /\ IdlePass \in [pc : {"idle", "event", "task"}, todo : Seq(Task)]
  BY CleanupAssumption DEF IdleRequest, Request, IdleSync, Syncing, IdlePass

LEMMA InitShape == Init => Shape
<1> SUFFICES ASSUME Init PROVE Shape
  OBVIOUS
<1>1. Types
  BY IdleIs DEF Init, Types
<1>2. Store(tasks, order) /\ IdsKept
  BY DEF Init, Store, IdsKept
<1>3. RequestShape /\ SyncShape /\ PassShape
  BY DEF Init, RequestShape, SyncShape, PassShape, IdleRequest, IdleSync, IdlePass
<1>4. QED
  BY <1>1, <1>2, <1>3 DEF Shape

-----------------------------------------------------------------------------
(* A step of one request, of one sync, or of neither.                      *)

LEMMA RequestMoves ==
    ASSUME Shape, NEW r \in Requests, NEW k \in Request, Goes(r, k), UNCHANGED pass,
           k.pc \in {"event", "task"} => \E t \in Task : k.task = {t},
           \A t \in k.task : t \in req[r].task \/ t \in tasks'
    PROVE  /\ req' \in [Requests -> Request] /\ RequestShape'
           /\ \A t \in Task : Remembered(t)' => Remembered(t) \/ t \in tasks'
<1>1. /\ req \in [Requests -> Request] /\ req' = [req EXCEPT ![r] = k]
      /\ \A q \in Requests : req'[q] = IF q = r THEN k ELSE req[q]
  BY DEF Shape, Types, Goes
<1>2. req' \in [Requests -> Request]
  BY <1>1
<1>3. RequestShape'
  BY <1>1 DEF Shape, RequestShape
<1>4. ASSUME NEW t \in Task, Remembered(t)' PROVE Remembered(t) \/ t \in tasks'
  BY <1>1, <1>4 DEF Remembered
<1>5. QED
  BY <1>2, <1>3, <1>4

LEMMA SyncMoves ==
    ASSUME Shape, NEW c \in Channels, NEW k \in Syncing, Syncs(c, k),
           IF k.pc \in {"upsert", "save"} THEN \E e \in Events : k.writing = {e} ELSE k.writing = {}
    PROVE  sync' \in [Channels -> Syncing] /\ SyncShape'
<1>1. /\ sync \in [Channels -> Syncing] /\ sync' = [sync EXCEPT ![c] = k]
      /\ \A d \in Channels : sync'[d] = IF d = c THEN k ELSE sync[d]
  BY DEF Shape, Types, Syncs
<1>2. sync' \in [Channels -> Syncing]
  BY <1>1
<1>3. SyncShape'
  BY <1>1 DEF Shape, SyncShape
<1>4. QED
  BY <1>2, <1>3

(* The tasks are left alone.                                               *)
LEMMA TasksAlone ==
    ASSUME Shape, UNCHANGED <<tasks, order>>,
           \A t \in Task : Remembered(t)' => Remembered(t) \/ t \in tasks'
    PROVE  Store(tasks', order') /\ IdsKept'
<1>1. Store(tasks', order') /\ IdsKept
  BY DEF Shape
<1>2. \A t \in tasks' : t \in tasks \/ t.id \notin UsedIds
  OBVIOUS
<1>3. QED
  BY <1>1, <1>2, IdsStayKept

LEMMA WorldShape ==
    ASSUME Shape,
           MaintainYouTubeData \/ (\E e \in Events : Ends(e)) \/ (\E c \in Channels : Resolve(c))
    PROVE  Shape'
<1>1. UNCHANGED <<req, sync, pass, locked>>
  BY DEF MaintainYouTubeData, Ends, Resolve
<1>2. RequestShape' /\ SyncShape' /\ PassShape' /\ \A t : Remembered(t)' <=> Remembered(t)
  BY <1>1 DEF Shape, RequestShape, SyncShape, PassShape, Remembered
<1>3. CASE MaintainYouTubeData
  <2>1. PICK expired \in SUBSET known, old \in SUBSET rows :
          LET gone == old \cup {e \in rows : Of[e] \in expired}
              unmapped == {e \in mapping : e \in gone \/ Orphaned(e)}
          IN  /\ mapping' = mapping \ unmapped
              /\ rows' = rows \ gone
              /\ subs' = subs \ expired
              /\ known' = known \ expired
              /\ QueueTasks(unmapped)
    BY <1>3 DEF MaintainYouTubeData
  <2> DEFINE gone == old \cup {e \in rows : Of[e] \in expired}
             unmapped == {e \in mapping : e \in gone \/ Orphaned(e)}
  <2>2. unmapped \in SUBSET Events
    BY DEF Shape, Types
  <2>3. /\ mapping' = mapping \ unmapped /\ rows' = rows \ gone
        /\ subs' = subs \ expired /\ known' = known \ expired /\ QueueTasks(unmapped)
    BY <2>1
  <2> HIDE DEF gone, unmapped
  <2>4. Store(tasks', order') /\ \A t \in tasks' : t \in tasks \/ t.id \notin UsedIds
    BY <2>2, <2>3, QueueTasksIs DEF Shape
  <2>5. IdsKept'
    BY <2>4, <1>2, IdsStayKept DEF Shape
  <2>6. Types'
    BY <1>1, <1>3, <2>3 DEF Shape, Types, MaintainYouTubeData
  <2>7. QED
    BY <1>2, <2>4, <2>5, <2>6 DEF Shape
<1>4. CASE (\E e \in Events : Ends(e)) \/ (\E c \in Channels : Resolve(c))
  <2>1. UNCHANGED <<tasks, order>>
    BY <1>4 DEF Ends, Resolve
  <2>2. Types'
    BY <1>4, <1>1 DEF Shape, Types, Ends, Resolve
  <2>3. QED
    BY <1>2, <2>1, <2>2, TasksAlone DEF Shape
<1>5. QED
  BY <1>3, <1>4

RequestNext(r) ==
    RequestStep(r) \/ RequestFails(r) \/ \E c \in Channels : Register(r, c) \/ RemoveChannel(r, c)

(* A request that does not touch the tasks.                                *)
LEMMA QuietRequest ==
    ASSUME Shape, NEW r \in Requests, NEW k \in Request, Goes(r, k), UNCHANGED <<pass, sync, tasks, order>>,
           k.pc \in {"event", "task"} => \E t \in Task : k.task = {t},
           k.task \subseteq req[r].task,
           subs' \subseteq Channels, event' \subseteq Events, unsaved' \subseteq Events,
           locked' \in Requests \cup {Nobody}, UNCHANGED <<mapping, over, known, rows>>
    PROVE  Shape'
<1>1. /\ req' \in [Requests -> Request] /\ RequestShape'
      /\ \A t \in Task : Remembered(t)' => Remembered(t) \/ t \in tasks'
  BY RequestMoves
<1>2. Store(tasks', order') /\ IdsKept'
  BY <1>1, TasksAlone
<1>3. Types'
  BY <1>1 DEF Shape, Types
<1>4. SyncShape' /\ PassShape'
  BY DEF Shape, SyncShape, PassShape
<1>5. QED
  BY <1>1, <1>2, <1>3, <1>4 DEF Shape

LEMMA RequestKeepsShape ==
    ASSUME Shape, NEW r \in Requests, RequestNext(r)
    PROVE  Shape'
<1>0. req[r] \in Request /\ IdleRequest \in Request /\ IdleRequest.task = {} /\ IdleRequest.pc = "idle"
  BY IdleIs DEF Shape, Types, IdleRequest
<1>1. ASSUME NEW c \in Channels, Register(r, c) PROVE Shape'
  <2> DEFINE k == [IdleRequest EXCEPT !.pc = "count", !.channel = c]
  <2>1. k \in Request /\ k.pc = "count" /\ k.task = {}
    BY <1>0 DEF Request
  <2>2. Goes(r, k) /\ UNCHANGED <<data, locked, sync, pass>>
    BY <1>1 DEF Register
  <2> HIDE DEF k
  <2>3. QED
    BY <2>1, <2>2, QuietRequest DEF Shape, Types, data
<1>2. ASSUME NEW c \in Channels, RemoveChannel(r, c) PROVE Shape'
  <2> DEFINE k == [IdleRequest EXCEPT !.pc = "next", !.channel = c, !.todo = {e \in mapping : Of[e] = c}]
  <2>1. k \in Request /\ k.pc = "next" /\ k.task = {}
    BY <1>0 DEF Request, Shape, Types
  <2>2. Goes(r, k) /\ UNCHANGED <<data, locked, sync, pass>>
    BY <1>2 DEF RemoveChannel
  <2> HIDE DEF k
  <2>3. QED
    BY <2>1, <2>2, QuietRequest DEF Shape, Types, data
<1>3. CASE RequestFails(r)
  BY <1>0, <1>3, QuietRequest DEF RequestFails, Shape, Types, data
<1>4. CASE Count(r)
  <2> DEFINE k == [req[r] EXCEPT !.pc = "create"]
  <2>1. k \in Request /\ k.pc = "create" /\ k.task = req[r].task
    BY <1>0 DEF Request
  <2>2. /\ (Goes(r, k) /\ locked' = r) \/ (Goes(r, IdleRequest) /\ locked' = locked)
        /\ UNCHANGED <<data, sync, pass>>
    BY <1>4 DEF Count
  <2> HIDE DEF k
  <2>3. CASE Goes(r, k) /\ locked' = r
    BY <2>1, <2>2, <2>3, QuietRequest DEF Shape, Types, data
  <2>4. CASE Goes(r, IdleRequest) /\ locked' = locked
    BY <1>0, <2>2, <2>4, QuietRequest DEF Shape, Types, data
  <2>5. QED
    BY <2>2, <2>3, <2>4
<1>5. CASE Create(r)
  BY <1>0, <1>5, QuietRequest DEF Create, Shape, Types
<1>6. CASE Queue(r)
  <2>1. PICK e \in req[r].todo :
          \/ /\ QueueTasks({e})
             /\ \E t \in tasks' : t.event = e
                   /\ Goes(r, [req[r] EXCEPT !.pc = "event", !.task = {t}, !.todo = req[r].todo \ {e}])
          \/ /\ Goes(r, [req[r] EXCEPT !.todo = req[r].todo \ {e}])
             /\ UNCHANGED <<tasks, order>>
    BY <1>6 DEF Queue
  <2>2. UNCHANGED <<subs, known, rows, mapping, event, over, unsaved, locked, sync, pass>>
    BY <1>6 DEF Queue
  <2>3. req[r].todo \ {e} \in SUBSET Events /\ {e} \in SUBSET Events
    BY <1>0 DEF Request
  <2>4. ASSUME QueueTasks({e}), NEW t \in tasks',
               Goes(r, [req[r] EXCEPT !.pc = "event", !.task = {t}, !.todo = req[r].todo \ {e}])
        PROVE  Shape'
    <3> DEFINE k == [req[r] EXCEPT !.pc = "event", !.task = {t}, !.todo = req[r].todo \ {e}]
    <3>1. Store(tasks', order') /\ \A u \in tasks' : u \in tasks \/ u.id \notin UsedIds
      BY <2>3, <2>4, QueueTasksIs DEF Shape
    <3>2. t \in Task
      BY <3>1 DEF Store
    <3>3. k \in Request /\ k.task = {t} /\ Goes(r, k)
      BY <1>0, <2>3, <2>4, <3>2 DEF Request
    <3> HIDE DEF k
    <3>4. /\ req' \in [Requests -> Request] /\ RequestShape'
          /\ \A u \in Task : Remembered(u)' => Remembered(u) \/ u \in tasks'
      BY <2>2, <3>2, <3>3, RequestMoves
    <3>5. IdsKept'
      BY <3>1, <3>4, IdsStayKept DEF Shape
    <3>6. Types' /\ SyncShape' /\ PassShape'
      BY <2>2, <3>4 DEF Shape, Types, SyncShape, PassShape
    <3>7. QED
      BY <3>1, <3>4, <3>5, <3>6 DEF Shape
  <2>5. ASSUME Goes(r, [req[r] EXCEPT !.todo = req[r].todo \ {e}]), UNCHANGED <<tasks, order>>
        PROVE  Shape'
    <3> DEFINE k == [req[r] EXCEPT !.todo = req[r].todo \ {e}]
    <3>1. k \in Request /\ k.task = req[r].task /\ k.pc = req[r].pc /\ Goes(r, k)
      BY <1>0, <2>3, <2>5 DEF Request
    <3>2. k.pc = "next"
      BY <1>6, <3>1 DEF Queue, At
    <3> HIDE DEF k
    <3>3. QED
      BY <2>2, <2>5, <3>1, <3>2, QuietRequest DEF Shape, Types
  <2>6. QED
    BY <2>1, <2>4, <2>5
<1>7. CASE RemoveEvent(r)
  <2> DEFINE k == [req[r] EXCEPT !.pc = "task"]
  <2>1. k \in Request /\ k.pc = "task" /\ k.task = req[r].task
    BY <1>0 DEF Request
  <2>2. /\ Goes(r, k) /\ \E t \in req[r].task : DeleteEvent(t.event)
        /\ UNCHANGED <<subs, known, rows, mapping, tasks, order, over, locked, sync, pass>>
    BY <1>7 DEF RemoveEvent
  <2>3. \E t \in Task : req[r].task = {t}
    BY <1>7 DEF RemoveEvent, At, Shape, RequestShape
  <2>4. event' \subseteq Events /\ unsaved' \subseteq Events
    BY <2>2 DEF DeleteEvent, Shape, Types
  <2> HIDE DEF k
  <2>5. QED
    BY <2>1, <2>2, <2>3, <2>4, QuietRequest DEF Shape, Types
<1>8. CASE RemoveTask(r)
  <2>1. PICK t \in req[r].task : DropTask(t)
    BY <1>8 DEF RemoveTask
  <2> DEFINE k == [req[r] EXCEPT !.pc = "next", !.task = {}]
  <2>2. k \in Request /\ k.pc = "next" /\ k.task = {}
    BY <1>0 DEF Request
  <2>3. Goes(r, k) /\ UNCHANGED <<subs, known, rows, event, over, unsaved, locked, sync, pass>>
    BY <1>8 DEF RemoveTask
  <2> HIDE DEF k
  <2>4. t \in Task /\ \A u \in tasks : u.id = t.id => u = t
    BY <1>0 DEF Request, Shape, IdsKept, Remembered
  <2>5. Store(tasks', order') /\ \A u \in tasks' : u \in tasks
    BY <2>1, <2>4, DropTaskIs DEF Shape
  <2>6. /\ req' \in [Requests -> Request] /\ RequestShape'
        /\ \A u \in Task : Remembered(u)' => Remembered(u) \/ u \in tasks'
    BY <2>2, <2>3, RequestMoves
  <2>7. IdsKept'
    BY <2>5, <2>6, IdsStayKept DEF Shape
  <2>8. mapping' \subseteq Events
    BY <2>1 DEF DropTask, Shape, Types
  <2>9. Types' /\ SyncShape' /\ PassShape'
    BY <2>3, <2>6, <2>8 DEF Shape, Types, SyncShape, PassShape
  <2>10. QED
    BY <2>5, <2>6, <2>7, <2>9 DEF Shape
<1>9. CASE RemoveSubscription(r)
  BY <1>0, <1>9, QuietRequest DEF RemoveSubscription, Shape, Types
<1>10. QED
  BY <1>1, <1>2, <1>3, <1>4, <1>5, <1>6, <1>7, <1>8, <1>9 DEF RequestNext, RequestStep

SyncNext(c) == StartSync(c) \/ SyncStep(c)

LEMMA SyncKeepsShape ==
    ASSUME Shape, NEW c \in Channels, SyncNext(c)
    PROVE  /\ Shape'
           /\ UNCHANGED <<tasks, order, subs, known, over, locked, req, pass>>
<1>0. /\ sync[c] \in Syncing /\ IdleSync \in Syncing /\ IdleSync.writing = {} /\ IdleSync.pc = "idle"
      /\ IF sync[c].pc \in {"upsert", "save"} THEN \E e \in Events : sync[c].writing = {e}
                                              ELSE sync[c].writing = {}
  BY IdleIs DEF Shape, Types, SyncShape, IdleSync
<1>1. UNCHANGED <<tasks, order, subs, known, over, locked, req, pass>>
  BY DEF SyncNext, StartSync, SyncStep, ListBroadcasts, Skip, Decide, Upsert, Save, EndSync, SyncFails, data
<1>2. Store(tasks', order') /\ IdsKept' /\ RequestShape' /\ PassShape'
  <2>1. \A t \in Task : Remembered(t)' => Remembered(t) \/ t \in tasks'
    BY <1>1 DEF Remembered
  <2>2. QED
    BY <1>1, <2>1, TasksAlone DEF Shape, RequestShape, PassShape
<1>3. mapping' \subseteq Events /\ event' \subseteq Events /\ unsaved' \subseteq Events /\ rows' \subseteq Events
  BY <1>0 DEF SyncNext, StartSync, SyncStep, ListBroadcasts, Skip, Decide, Upsert, Save, EndSync, SyncFails,
              data, Shape, Types, Syncing
<1>4. sync' \in [Channels -> Syncing] /\ SyncShape'
  <2>1. CASE StartSync(c)
    <3> DEFINE k == [IdleSync EXCEPT !.pc = "list"]
    <3>1. k \in Syncing /\ k.pc = "list" /\ k.writing = {} /\ Syncs(c, k)
      BY <1>0, <2>1 DEF Syncing, StartSync
    <3> HIDE DEF k
    <3>2. QED
      BY <3>1, SyncMoves
  <2>2. CASE ListBroadcasts(c)
    <3>1. PICK listed \in SUBSET {e \in rows : Of[e] = c} :
             Syncs(c, [sync[c] EXCEPT !.pc = "item", !.todo = listed])
      BY <2>2 DEF ListBroadcasts
    <3> DEFINE k == [sync[c] EXCEPT !.pc = "item", !.todo = listed]
    <3>2. k \in Syncing /\ k.pc = "item" /\ k.writing = {} /\ Syncs(c, k)
      BY <1>0, <2>2, <3>1 DEF Syncing, ListBroadcasts, Shape, Types
    <3> HIDE DEF k
    <3>3. QED
      BY <3>2, SyncMoves
  <2>3. CASE Skip(c)
    <3>1. PICK e \in sync[c].todo : Syncs(c, [sync[c] EXCEPT !.todo = sync[c].todo \ {e}])
      BY <2>3 DEF Skip
    <3> DEFINE k == [sync[c] EXCEPT !.todo = sync[c].todo \ {e}]
    <3>2. k \in Syncing /\ k.pc = "item" /\ k.writing = {} /\ Syncs(c, k)
      BY <1>0, <2>3, <3>1 DEF Syncing, Skip
    <3> HIDE DEF k
    <3>3. QED
      BY <3>2, SyncMoves
  <2>4. CASE Decide(c)
    <3>1. PICK e \in sync[c].todo :
             Syncs(c, [pc |-> "upsert", todo |-> sync[c].todo \ {e}, writing |-> {e}])
      BY <2>4 DEF Decide
    <3> DEFINE k == [pc |-> "upsert", todo |-> sync[c].todo \ {e}, writing |-> {e}]
    <3>2. e \in Events /\ k \in Syncing /\ k.pc = "upsert" /\ k.writing = {e} /\ Syncs(c, k)
      BY <1>0, <3>1 DEF Syncing
    <3> HIDE DEF k
    <3>3. QED
      BY <3>2, SyncMoves
  <2>5. CASE Upsert(c)
    <3> DEFINE k == [sync[c] EXCEPT !.pc = "save"]
    <3>1. k \in Syncing /\ k.pc = "save" /\ k.writing = sync[c].writing /\ Syncs(c, k)
      BY <1>0, <2>5 DEF Syncing, Upsert
    <3>2. \E e \in Events : sync[c].writing = {e}
      BY <1>0, <2>5 DEF Upsert
    <3> HIDE DEF k
    <3>3. QED
      BY <3>1, <3>2, SyncMoves
  <2>6. CASE Save(c)
    <3> DEFINE k == [sync[c] EXCEPT !.pc = "item", !.writing = {}]
    <3>1. k \in Syncing /\ k.pc = "item" /\ k.writing = {} /\ Syncs(c, k)
      BY <1>0, <2>6 DEF Syncing, Save
    <3> HIDE DEF k
    <3>2. QED
      BY <3>1, SyncMoves
  <2>7. CASE EndSync(c) \/ SyncFails(c)
    BY <1>0, <2>7, SyncMoves DEF EndSync, SyncFails
  <2>8. QED
    BY <2>1, <2>2, <2>3, <2>4, <2>5, <2>6, <2>7 DEF SyncNext, SyncStep
<1>5. Types'
  BY <1>1, <1>3, <1>4 DEF Shape, Types
<1>6. QED
  BY <1>1, <1>2, <1>4, <1>5 DEF Shape

-----------------------------------------------------------------------------
(* Steps of the pass. What it lists are tasks there are, and its list only *)
(* gets shorter.                                                           *)

LEMMA PassShrinks ==
    ASSUME Shape, UNCHANGED <<req, sync>>, pass' \in [pc : {"idle", "event", "task"}, todo : Seq(Task)],
           \A i \in DOMAIN pass'.todo : \E j \in DOMAIN pass.todo : pass.todo[j] = pass'.todo[i]
    PROVE  /\ \A t \in Task : Remembered(t)' => Remembered(t) \/ t \in tasks'
           /\ RequestShape' /\ SyncShape'
  BY DEF Shape, Remembered, RequestShape, SyncShape

LEMMA TailOf ==
    ASSUME NEW s \in Seq(Task), s # <<>>
    PROVE  /\ Tail(s) \in Seq(Task) /\ Head(s) \in Task
           /\ 1 \in DOMAIN s /\ s[1] = Head(s)
           /\ \A i \in DOMAIN Tail(s) : \E j \in DOMAIN s : s[j] = Tail(s)[i]
<1>1. Len(s) \in Nat \ {0} /\ DOMAIN s = 1 .. Len(s)
  BY LenProperties, EmptySeq
<1>2. /\ Head(s) \in Task /\ Tail(s) \in Seq(Task) /\ Len(Tail(s)) = Len(s) - 1
      /\ \A i \in 1 .. Len(Tail(s)) : Tail(s)[i] = s[i + 1]
  BY HeadTailProperties
<1>3. DOMAIN Tail(s) = 1 .. Len(s) - 1
  BY <1>2, LenProperties
<1>4. \A i \in 1 .. Len(s) - 1 : i + 1 \in DOMAIN s
  BY <1>1
<1>5. QED
  BY <1>1, <1>2, <1>3, <1>4

LEMMA PassKeepsShape ==
    ASSUME Shape, PassStep
    PROVE  /\ Shape'
           /\ UNCHANGED <<subs, known, rows, over, locked, req, sync>>
<1>0. pass \in [pc : {"idle", "event", "task"}, todo : Seq(Task)] /\ IdlePass.todo = <<>> /\ IdlePass.pc = "idle"
  BY DEF Shape, Types, IdlePass
<1>1. UNCHANGED <<subs, known, rows, over, locked, req, sync>>
  BY DEF PassStep, ListTasks, CleanEvent, CleanTask, CleanFails, PassEnds, data
<1>2. CASE ListTasks
  <2> DEFINE p == [i \in First(Batch) |-> TaskWith(order[i])]
  <2>1. pass' = [pc |-> "event", todo |-> p] /\ UNCHANGED data
    BY <1>2 DEF ListTasks
  <2>2. \A i \in DOMAIN order : TaskWith(order[i]) \in tasks
    BY DEF TaskWith, Shape, Store
  <2>3. Len(order) \in Nat /\ DOMAIN order = 1 .. Len(order)
    BY LenProperties DEF Shape, Store
  <2>4. \E n \in Nat : First(Batch) = 1 .. n
    <3>1. CASE Batch <= Len(order)
      BY <3>1, <2>3, CleanupAssumption DEF First
    <3>2. CASE Len(order) < Batch
      BY <3>2, <2>3, CleanupAssumption DEF First
    <3>3. QED
      BY <3>1, <3>2, <2>3, CleanupAssumption
  <2>5. p \in Seq(tasks) /\ \A i \in DOMAIN p : p[i] \in tasks
    <3>1. PICK n \in Nat : First(Batch) = 1 .. n
      BY <2>4
    <3>2. p \in [1 .. n -> tasks]
      BY <3>1, <2>2 DEF First
    <3>3. QED
      BY <3>2
  <2> HIDE DEF p
  <2>6. p \in Seq(Task) /\ pass'.todo = p /\ pass'.pc = "event"
    BY <2>1, <2>5 DEF Shape, Store
  <2>7. \A t \in Task : Remembered(t)' => Remembered(t) \/ t \in tasks'
    BY <1>1, <2>1, <2>5, <2>6 DEF Remembered, data
  <2>8. Store(tasks', order') /\ IdsKept'
    BY <2>1, <2>7, TasksAlone DEF data
  <2>9. Types' /\ RequestShape' /\ SyncShape' /\ PassShape'
    BY <1>1, <2>1, <2>6 DEF Shape, Types, RequestShape, SyncShape, PassShape, data
  <2>10. QED
    BY <1>1, <2>8, <2>9 DEF Shape
<1>3. CASE CleanEvent
  <2>1. /\ pass' = [pass EXCEPT !.pc = "task"] /\ pass.todo # <<>>
        /\ \E e \in Events \cup {Head(pass.todo).event} : DeleteEvent(e)
        /\ UNCHANGED <<mapping, tasks, order>>
    BY <1>3 DEF CleanEvent
  <2>2. pass'.todo = pass.todo /\ pass'.pc = "task" /\ pass' \in [pc : {"idle", "event", "task"}, todo : Seq(Task)]
    BY <1>0, <2>1
  <2>3. /\ \A t \in Task : Remembered(t)' => Remembered(t) \/ t \in tasks'
        /\ RequestShape' /\ SyncShape'
    BY <1>1, <2>2, PassShrinks
  <2>4. Store(tasks', order') /\ IdsKept'
    BY <2>1, <2>3, TasksAlone
  <2>5. Types' /\ PassShape'
    BY <1>1, <2>1, <2>2 DEF Shape, Types, PassShape, DeleteEvent
  <2>6. QED
    BY <1>1, <2>3, <2>4, <2>5 DEF Shape
<1>4. CASE CleanTask
  <2> DEFINE h == Head(pass.todo)
  <2>1. /\ DropTask(h) /\ pass' = [pc |-> "event", todo |-> Tail(pass.todo)] /\ pass.todo # <<>>
        /\ UNCHANGED <<event, unsaved>>
    BY <1>4 DEF CleanTask, Shape, PassShape
  <2>2. /\ Tail(pass.todo) \in Seq(Task) /\ h \in Task /\ 1 \in DOMAIN pass.todo /\ pass.todo[1] = h
        /\ \A i \in DOMAIN Tail(pass.todo) : \E j \in DOMAIN pass.todo : pass.todo[j] = Tail(pass.todo)[i]
    BY <1>0, <2>1, TailOf
  <2>3. \A t \in tasks : t.id = h.id => t = h
    BY <2>2 DEF Shape, IdsKept, Remembered
  <2> HIDE DEF h
  <2>4. Store(tasks', order') /\ \A t \in tasks' : t \in tasks
    BY <2>1, <2>2, <2>3, DropTaskIs DEF Shape
  <2>5. pass'.todo = Tail(pass.todo) /\ pass'.pc = "event" /\ pass' \in [pc : {"idle", "event", "task"}, todo : Seq(Task)]
    BY <2>1, <2>2
  <2>6. /\ \A t \in Task : Remembered(t)' => Remembered(t) \/ t \in tasks'
        /\ RequestShape' /\ SyncShape'
    BY <1>1, <2>2, <2>5, PassShrinks
  <2>7. IdsKept'
    BY <2>4, <2>6, IdsStayKept DEF Shape
  <2>8. Types' /\ PassShape'
    BY <1>1, <2>1, <2>5 DEF Shape, Types, PassShape, DropTask
  <2>9. QED
    BY <1>1, <2>4, <2>6, <2>7, <2>8 DEF Shape
<1>5. CASE CleanFails \/ PassEnds
  <2>1. UNCHANGED data /\ pass' \in [pc : {"idle", "event", "task"}, todo : Seq(Task)]
        /\ (\A i \in DOMAIN pass'.todo : \E j \in DOMAIN pass.todo : pass.todo[j] = pass'.todo[i])
        /\ PassShape'
    <3>1. CASE CleanFails
      <4>1. /\ pass.todo # <<>> /\ pass' = [pc |-> "event", todo |-> Tail(pass.todo)] /\ UNCHANGED data
        BY <3>1 DEF CleanFails
      <4>2. /\ Tail(pass.todo) \in Seq(Task)
            /\ \A i \in DOMAIN Tail(pass.todo) : \E j \in DOMAIN pass.todo : pass.todo[j] = Tail(pass.todo)[i]
        BY <1>0, <4>1, TailOf
      <4>3. pass'.todo = Tail(pass.todo) /\ pass'.pc = "event"
        BY <4>1
      <4>4. QED
        BY <4>1, <4>2, <4>3 DEF PassShape
    <3>2. CASE PassEnds
      <4>1. pass' = IdlePass /\ UNCHANGED data
        BY <3>2 DEF PassEnds
      <4>2. QED
        BY <4>1, IdleIs DEF IdlePass, PassShape
    <3>3. QED
      BY <1>5, <3>1, <3>2
  <2>2. /\ \A t \in Task : Remembered(t)' => Remembered(t) \/ t \in tasks'
        /\ RequestShape' /\ SyncShape'
    BY <1>1, <2>1, PassShrinks
  <2>3. Store(tasks', order') /\ IdsKept'
    BY <2>1, <2>2, TasksAlone DEF data
  <2>4. Types'
    BY <1>1, <2>1 DEF Shape, Types, data
  <2>5. QED
    BY <1>1, <2>1, <2>2, <2>3, <2>4 DEF Shape
<1>6. QED
  BY <1>2, <1>3, <1>4, <1>5 DEF PassStep

LEMMA NextCases ==
    ASSUME Next
    PROVE  \/ MaintainYouTubeData \/ (\E e \in Events : Ends(e)) \/ (\E c \in Channels : Resolve(c))
           \/ PassStep \/ (\E c \in Channels : SyncNext(c)) \/ (\E r \in Requests : RequestNext(r))
  BY DEF Next, SyncNext, RequestNext

LEMMA StepShape == Shape /\ [Next]_vars => Shape'
<1> SUFFICES ASSUME Shape, [Next]_vars PROVE Shape'
  OBVIOUS
<1>1. CASE UNCHANGED vars
  BY <1>1 DEF vars, Shape, Types, Store, IdsKept, Remembered, RequestShape, SyncShape, PassShape
<1>2. CASE Next
  <2>1. CASE MaintainYouTubeData \/ (\E e \in Events : Ends(e)) \/ (\E c \in Channels : Resolve(c))
    BY <2>1, WorldShape
  <2>2. CASE PassStep
    BY <2>2, PassKeepsShape
  <2>3. ASSUME NEW c \in Channels, SyncNext(c) PROVE Shape'
    BY <2>3, SyncKeepsShape
  <2>4. ASSUME NEW r \in Requests, RequestNext(r) PROVE Shape'
    BY <2>4, RequestKeepsShape
  <2>5. QED
    BY <1>2, <2>1, <2>2, <2>3, <2>4, NextCases
<1>3. QED
  BY <1>1, <1>2

(* Types of everything, one task for an event at most, and the order of    *)
(* the tasks has each of them once.                                        *)
THEOREM CleanupTypeOK == Spec => []TypeOK
<1>1. Shape => TypeOK
  <2> SUFFICES ASSUME Shape PROVE TypeOK
    OBVIOUS
  <2>1. Cardinality(tasks) = Cardinality(Tasked) /\ Cardinality(tasks) = Len(order)
    BY StoreCounts DEF Shape, Tasked
  <2>2. QED
    BY <2>1 DEF Shape, Types, Store, TypeOK, Request, Syncing
<1>2. QED
  BY <1>1, InitShape, StepShape, PTL DEF Spec

-----------------------------------------------------------------------------
(* Who answers for an event.                                               *)

(* A sync wrote the event and did not come to the mapping, or not yet.     *)
Justified(e) == e \in unsaved \/ \E c \in Channels : sync[c].pc = "save" /\ e \in sync[c].writing

(* The event of a task that is about to be dropped is not there, unless a  *)
(* sync has written it again.                                              *)
Gone(t) == t \in tasks /\ t.event \in event => Justified(t.event)

Owned ==
    /\ \A e \in event : e \in mapping \/ e \in Tasked \/ Justified(e)
    /\ \A r \in Requests : req[r].pc = "task" => \A t \in req[r].task : Gone(t)
    /\ pass.pc = "task" => Gone(Head(pass.todo))

(* Whoever is not a sync.                                                  *)
LEMMA OthersKeepOwned ==
    ASSUME Shape, Owned, UNCHANGED sync, event' \subseteq event,
           \A e \in event' : e \in unsaved => e \in unsaved',
           \A e \in event' : e \in mapping \/ e \in Tasked => e \in mapping' \/ e \in Tasked' \/ Justified(e),
           \A t \in tasks' : t \in tasks \/ t.id \notin UsedIds,
           \A r \in Requests : req'[r].pc = "task" => \A t \in req'[r].task :
              t.event \notin event' \/ (req[r].pc = "task" /\ t \in req[r].task),
           pass'.pc = "task" => \/ Head(pass'.todo).event \notin event'
                                \/ pass.pc = "task" /\ Head(pass'.todo) = Head(pass.todo)
    PROVE  Owned'
<1>1. \A e \in event' : Justified(e) => Justified(e)'
  BY DEF Justified
<1>2. \A e \in event' : e \in mapping' \/ e \in Tasked' \/ Justified(e)'
  BY <1>1 DEF Owned
<1>3. ASSUME NEW t, Remembered(t), Gone(t) PROVE Gone(t)'
  BY <1>1, <1>3, RememberedIsUsed DEF Gone
<1>4. ASSUME NEW r \in Requests, req'[r].pc = "task", NEW t \in req'[r].task PROVE Gone(t)'
  <2>1. CASE t.event \notin event'
    BY <2>1 DEF Gone
  <2>2. CASE req[r].pc = "task" /\ t \in req[r].task
    BY <2>2, <1>3 DEF Remembered, Owned
  <2>3. QED
    BY <1>4, <2>1, <2>2
<1>5. ASSUME pass'.pc = "task" PROVE Gone(Head(pass.todo))'
  <2>1. CASE Head(pass'.todo).event \notin event'
    BY <2>1 DEF Gone
  <2>2. CASE pass.pc = "task" /\ Head(pass'.todo) = Head(pass.todo)
    <3>1. pass.todo \in Seq(Task) /\ pass.todo # <<>>
      BY <2>2 DEF Shape, Types, PassShape
    <3>2. Remembered(Head(pass.todo)) /\ Gone(Head(pass.todo))
      BY <2>2, <3>1, TailOf DEF Remembered, Owned
    <3> DEFINE h == Head(pass.todo)
    <3>3. PICK t : t = Head(pass.todo)
      OBVIOUS
    <3>4. Gone(t)'
      BY <3>2, <3>3, <1>3
    <3>5. QED
      BY <2>2, <3>3, <3>4 DEF Gone
  <2>3. QED
    BY <1>5, <2>1, <2>2
<1>6. QED
  BY <1>2, <1>4, <1>5 DEF Owned

LEMMA SyncKeepsOwned ==
    ASSUME Shape, Owned, NEW c \in Channels, SyncNext(c)
    PROVE  Owned'
<1>1. UNCHANGED <<tasks, req, pass>>
  BY SyncKeepsShape
<1>2. /\ sync \in [Channels -> Syncing]
      /\ sync[c].pc \notin {"upsert", "save"} => sync[c].writing = {}
  BY DEF Shape, Types, SyncShape
<1>3. \A d \in Channels : d # c => sync'[d] = sync[d]
  BY <1>2 DEF SyncNext, StartSync, SyncStep, ListBroadcasts, Skip, Decide, Upsert, Save, EndSync, SyncFails, Syncs
<1>4. mapping \subseteq mapping' /\ \A e \in event' : e \in event \/ Justified(e)'
  <2>1. CASE Upsert(c)
    <3>1. sync' = [sync EXCEPT ![c] = [sync[c] EXCEPT !.pc = "save"]]
      BY <2>1 DEF Upsert, Syncs
    <3>2. sync'[c].writing = sync[c].writing /\ sync'[c].pc = "save"
      BY <1>2, <3>1 DEF Syncing
    <3>3. QED
      BY <2>1, <3>2 DEF Upsert, Justified
  <2>2. CASE SyncFails(c)
    BY <2>2 DEF SyncFails, Justified
  <2>3. CASE ~ Upsert(c) /\ ~ SyncFails(c)
    BY <2>3 DEF SyncNext, StartSync, SyncStep, ListBroadcasts, Skip, Decide, Save, EndSync, data
  <2>4. QED
    <3>1. mapping \subseteq mapping'
      BY DEF SyncNext, StartSync, SyncStep, ListBroadcasts, Skip, Decide, Upsert, Save, EndSync, SyncFails, data
    <3>2. QED
      BY <3>1, <2>1, <2>2, <2>3
<1>5. ASSUME NEW e \in event', Justified(e)
      PROVE  Justified(e)' \/ (e \in mapping' /\ e \notin Tasked)
  <2>1. CASE \E d \in Channels : d # c /\ sync[d].pc = "save" /\ e \in sync[d].writing
    BY <1>3, <2>1 DEF Justified
  <2>2. CASE e \in unsaved
    BY <2>2 DEF SyncNext, StartSync, SyncStep, ListBroadcasts, Skip, Decide, Upsert, Save, EndSync, SyncFails,
                data, Justified, Savable
  <2>3. CASE sync[c].pc = "save" /\ e \in sync[c].writing
    <3>1. CASE Save(c)
      BY <2>3, <3>1 DEF Save, Savable
    <3>2. CASE SyncFails(c)
      BY <2>3, <3>2 DEF SyncFails, Justified
    <3>3. QED
      BY <2>3, <3>1, <3>2 DEF SyncNext, StartSync, SyncStep, ListBroadcasts, Skip, Decide, Upsert, EndSync
  <2>4. QED
    BY <1>5, <2>1, <2>2, <2>3 DEF Justified
<1>6. ASSUME NEW e \in event' PROVE e \in mapping' \/ e \in Tasked' \/ Justified(e)'
  <2>1. e \in event => e \in mapping \/ e \in Tasked \/ Justified(e)
    BY DEF Owned
  <2>2. Tasked' = Tasked
    BY <1>1 DEF Tasked
  <2>3. QED
    BY <2>1, <2>2, <1>4, <1>5
<1>7. ASSUME NEW t, Gone(t) PROVE Gone(t)'
  <2>1. t \in tasks => t.event \in Tasked
    BY DEF Tasked
  <2>2. QED
    BY <1>1, <1>4, <1>5, <1>7, <2>1 DEF Gone
<1>8. pass.pc = "task" => Gone(Head(pass.todo))'
  <2>1. PICK t : t = Head(pass.todo)
    OBVIOUS
  <2>2. pass.pc = "task" => Gone(t)'
    BY <2>1, <1>7 DEF Owned
  <2>3. Head(pass.todo)' = t
    BY <1>1, <2>1
  <2>4. QED
    BY <2>2, <2>3 DEF Gone
<1>9. QED
  BY <1>1, <1>6, <1>7, <1>8 DEF Owned

LEMMA RequestKeepsOwned ==
    ASSUME Shape, Owned, NEW r \in Requests, RequestNext(r)
    PROVE  Owned'
<1>0. /\ req[r] \in Request /\ req \in [Requests -> Request]
      /\ req[r].pc \in {"event", "task"} => \E t \in Task : req[r].task = {t}
  BY DEF Shape, Types, RequestShape
<1>1. UNCHANGED <<sync, pass>>
  BY DEF RequestNext, RequestStep, RequestFails, Register, RemoveChannel, Count, Create, Queue, RemoveEvent,
         RemoveTask, RemoveSubscription
<1>2. \A q \in Requests : q # r => req'[q] = req[q]
  BY <1>0 DEF RequestNext, RequestStep, RequestFails, Register, RemoveChannel, Count, Create, Queue, RemoveEvent,
         RemoveTask, RemoveSubscription, Goes
<1>3. CASE RemoveEvent(r)
  <2>1. PICK t \in Task : req[r].task = {t}
    BY <1>0, <1>3 DEF RemoveEvent, At
  <2>2. DeleteEvent(t.event) /\ UNCHANGED <<mapping, tasks>>
    BY <1>3, <2>1 DEF RemoveEvent
  <2>3. req'[r].task = {t}
    BY <1>0, <1>3, <2>1 DEF RemoveEvent, Goes, Request
  <2>4. t.event \notin event' /\ event' \subseteq event /\ \A e \in event' : e \in unsaved => e \in unsaved'
    BY <2>2 DEF DeleteEvent
  <2>5. \A q \in Requests : req'[q].pc = "task" => \A u \in req'[q].task :
          u.event \notin event' \/ (req[q].pc = "task" /\ u \in req[q].task)
    BY <1>2, <2>3, <2>4
  <2>6. \A e \in event' : e \in mapping \/ e \in Tasked => e \in mapping' \/ e \in Tasked' \/ Justified(e)
    BY <2>2 DEF Tasked
  <2>7. QED
    BY <1>1, <2>2, <2>4, <2>5, <2>6, OthersKeepOwned
<1>4. CASE ~ RemoveEvent(r)
  <2>1. UNCHANGED <<event, unsaved>>
    BY <1>4 DEF RequestNext, RequestStep, RequestFails, Register, RemoveChannel, Count, Create, Queue,
         RemoveTask, RemoveSubscription, data
  <2>2. req'[r].pc # "task"
    <3>1. IdleRequest.pc = "idle" /\ IdleRequest \in Request
      BY IdleIs DEF IdleRequest
    <3>2. \A k : Goes(r, k) => req'[r] = k
      BY <1>0 DEF Goes
    <3>3. CASE Queue(r)
      <4>1. req[r].pc = "next"
        BY <3>3 DEF Queue, At
      <4>2. \E t, todo : \/ req'[r] = [req[r] EXCEPT !.pc = "event", !.task = t, !.todo = todo]
                        \/ req'[r] = [req[r] EXCEPT !.todo = todo]
        BY <3>2, <3>3 DEF Queue
      <4>3. QED
        BY <1>0, <4>1, <4>2 DEF Request
    <3>4. CASE Count(r)
      <4>1. req'[r] = [req[r] EXCEPT !.pc = "create"] \/ req'[r] = IdleRequest
        BY <3>2, <3>4 DEF Count
      <4>2. QED
        BY <1>0, <3>1, <4>1 DEF Request
    <3>5. CASE RemoveTask(r)
      <4>1. req'[r] = [req[r] EXCEPT !.pc = "next", !.task = {}]
        BY <3>2, <3>5 DEF RemoveTask
      <4>2. QED
        BY <1>0, <4>1 DEF Request
    <3>6. CASE RequestFails(r) \/ Create(r) \/ RemoveSubscription(r)
      BY <3>1, <3>2, <3>6 DEF RequestFails, Create, RemoveSubscription
    <3>7. ASSUME NEW c \in Channels, Register(r, c) \/ RemoveChannel(r, c) PROVE req'[r].pc # "task"
      <4>1. \E todo : \/ req'[r] = [IdleRequest EXCEPT !.pc = "count", !.channel = c]
                     \/ req'[r] = [IdleRequest EXCEPT !.pc = "next", !.channel = c, !.todo = todo]
        BY <3>2, <3>7 DEF Register, RemoveChannel
      <4>2. QED
        BY <3>1, <4>1 DEF Request
    <3>8. QED
      BY <1>4, <3>3, <3>4, <3>5, <3>6, <3>7 DEF RequestNext, RequestStep
  <2>3. /\ \A e \in event' : e \in mapping \/ e \in Tasked => e \in mapping' \/ e \in Tasked' \/ Justified(e)
        /\ \A t \in tasks' : t \in tasks \/ t.id \notin UsedIds
    <3>1. CASE RemoveTask(r)
      <4>1. PICK t \in req[r].task : DropTask(t)
        BY <3>1 DEF RemoveTask
      <4>2. Gone(t) /\ t \in Task /\ \A u \in tasks : u.id = t.id => u = t
        BY <1>0, <3>1 DEF RemoveTask, At, Owned, Request, Shape, IdsKept, Remembered
      <4>3. /\ tasks' = tasks \ {t}
            /\ Tasked' = IF t \in tasks THEN Tasked \ {t.event} ELSE Tasked
        BY <4>1, <4>2, DropTaskIs DEF Shape
      <4>4. mapping' = IF t \in tasks THEN mapping \ {t.event} ELSE mapping
        BY <4>1 DEF DropTask
      <4>5. QED
        BY <2>1, <4>2, <4>3, <4>4 DEF Gone
    <3>2. CASE Queue(r)
      <4>1. mapping' = mapping
        BY <3>2 DEF Queue
      <4>2. PICK e \in req[r].todo : QueueTasks({e}) \/ UNCHANGED <<tasks, order>>
        BY <3>2 DEF Queue
      <4>3. CASE QueueTasks({e})
        <5>1. {e} \in SUBSET Events
          BY <1>0 DEF Request
        <5>2. Tasked' = Tasked \cup {e} /\ \A t \in tasks' : t \in tasks \/ t.id \notin UsedIds
          BY <4>3, <5>1, QueueTasksIs DEF Shape
        <5>3. QED
          BY <4>1, <5>2
      <4>4. CASE UNCHANGED <<tasks, order>>
        BY <4>1, <4>4 DEF Tasked
      <4>5. QED
        BY <4>2, <4>3, <4>4
    <3>3. CASE ~ RemoveTask(r) /\ ~ Queue(r)
      <4>1. UNCHANGED <<mapping, tasks>>
        BY <1>4, <3>3 DEF RequestNext, RequestStep, RequestFails, Register, RemoveChannel, Count, Create,
           RemoveSubscription, data
      <4>2. QED
        BY <4>1 DEF Tasked
    <3>4. QED
      BY <3>1, <3>2, <3>3
  <2>4. \A q \in Requests : req'[q].pc = "task" => \A t \in req'[q].task :
          t.event \notin event' \/ (req[q].pc = "task" /\ t \in req[q].task)
    BY <1>2, <2>2
  <2>5. QED
    BY <1>1, <2>1, <2>3, <2>4, OthersKeepOwned
<1>5. QED
  BY <1>3, <1>4

LEMMA PassKeepsOwned ==
    ASSUME Shape, Owned, PassStep
    PROVE  Owned'
<1>0. UNCHANGED <<sync, req>>
  BY PassKeepsShape
<1>1. pass \in [pc : {"idle", "event", "task"}, todo : Seq(Task)] /\ IdlePass.pc = "idle"
  BY DEF Shape, Types, IdlePass
<1>2. \A q \in Requests : req'[q].pc = "task" => \A t \in req'[q].task :
          t.event \notin event' \/ (req[q].pc = "task" /\ t \in req[q].task)
  BY <1>0
<1>3. CASE CleanEvent
  <2>1. /\ pass' = [pass EXCEPT !.pc = "task"] /\ DeleteEvent(Head(pass.todo).event)
        /\ UNCHANGED <<mapping, tasks>>
    BY <1>3 DEF CleanEvent
  <2>2. pass'.todo = pass.todo
    BY <1>1, <2>1
  <2>3. Head(pass'.todo).event \notin event' /\ event' \subseteq event
        /\ \A e \in event' : e \in unsaved => e \in unsaved'
    BY <2>1, <2>2 DEF DeleteEvent
  <2>4. \A e \in event' : e \in mapping \/ e \in Tasked => e \in mapping' \/ e \in Tasked' \/ Justified(e)
    BY <2>1 DEF Tasked
  <2>5. QED
    BY <1>0, <1>2, <2>1, <2>3, <2>4, OthersKeepOwned
<1>4. CASE CleanTask
  <2> DEFINE h == Head(pass.todo)
  <2>1. /\ DropTask(h) /\ pass' = [pc |-> "event", todo |-> Tail(pass.todo)] /\ pass.todo # <<>>
        /\ UNCHANGED <<event, unsaved>>
    BY <1>4 DEF CleanTask, Shape, PassShape
  <2>2. Gone(h)
    BY <1>4 DEF CleanTask, Owned
  <2>3. h \in Task /\ \A t \in tasks : t.id = h.id => t = h
    BY <1>1, <2>1, TailOf DEF Shape, IdsKept, Remembered
  <2>4. pass'.pc = "event"
    BY <2>1
  <2> HIDE DEF h
  <2>5. /\ tasks' = tasks \ {h}
        /\ Tasked' = IF h \in tasks THEN Tasked \ {h.event} ELSE Tasked
    BY <2>1, <2>3, DropTaskIs DEF Shape
  <2>6. mapping' = IF h \in tasks THEN mapping \ {h.event} ELSE mapping
    BY <2>1 DEF DropTask
  <2>7. \A e \in event' : e \in mapping \/ e \in Tasked => e \in mapping' \/ e \in Tasked' \/ Justified(e)
    BY <2>1, <2>2, <2>5, <2>6 DEF Gone
  <2>8. \A t \in tasks' : t \in tasks \/ t.id \notin UsedIds
    BY <2>5
  <2>9. QED
    BY <1>0, <1>2, <2>1, <2>4, <2>7, <2>8, OthersKeepOwned
<1>5. CASE ListTasks \/ CleanFails \/ PassEnds
  <2>1. UNCHANGED data /\ pass'.pc # "task"
    BY <1>1, <1>5 DEF ListTasks, CleanFails, PassEnds
  <2>2. \A e \in event' : e \in mapping \/ e \in Tasked => e \in mapping' \/ e \in Tasked' \/ Justified(e)
    BY <2>1 DEF Tasked, data
  <2>3. /\ event' \subseteq event /\ \A e \in event' : e \in unsaved => e \in unsaved'
        /\ \A t \in tasks' : t \in tasks \/ t.id \notin UsedIds
    BY <2>1 DEF data
  <2>4. QED
    BY <1>0, <1>2, <2>1, <2>2, <2>3, OthersKeepOwned
<1>6. QED
  BY <1>3, <1>4, <1>5 DEF PassStep

LEMMA WorldKeepsOwned ==
    ASSUME Shape, Owned,
           MaintainYouTubeData \/ (\E e \in Events : Ends(e)) \/ (\E c \in Channels : Resolve(c))
    PROVE  Owned'
<1>1. UNCHANGED <<req, sync, pass, event, unsaved>>
  BY DEF MaintainYouTubeData, Ends, Resolve
<1>2. /\ \A e \in event' : e \in mapping \/ e \in Tasked => e \in mapping' \/ e \in Tasked' \/ Justified(e)
      /\ \A t \in tasks' : t \in tasks \/ t.id \notin UsedIds
  <2>1. CASE MaintainYouTubeData
    <3>1. PICK unmapped \in SUBSET mapping : mapping' = mapping \ unmapped /\ QueueTasks(unmapped)
      <4>1. PICK expired \in SUBSET known, old \in SUBSET rows :
              LET gone == old \cup {e \in rows : Of[e] \in expired}
                  unmapped == {e \in mapping : e \in gone \/ Orphaned(e)}
              IN  mapping' = mapping \ unmapped /\ QueueTasks(unmapped)
        BY <2>1 DEF MaintainYouTubeData
      <4> DEFINE gone == old \cup {e \in rows : Of[e] \in expired}
                 unmapped == {e \in mapping : e \in gone \/ Orphaned(e)}
      <4>2. unmapped \in SUBSET mapping /\ mapping' = mapping \ unmapped /\ QueueTasks(unmapped)
        BY <4>1
      <4> HIDE DEF unmapped
      <4>3. QED
        BY <4>2
    <3>2. unmapped \in SUBSET Events
      BY DEF Shape, Types
    <3>3. Tasked' = Tasked \cup unmapped /\ \A t \in tasks' : t \in tasks \/ t.id \notin UsedIds
      BY <3>1, <3>2, QueueTasksIs DEF Shape
    <3>4. QED
      BY <3>1, <3>3
  <2>2. CASE (\E e \in Events : Ends(e)) \/ (\E c \in Channels : Resolve(c))
    BY <2>2 DEF Ends, Resolve, Tasked
  <2>3. QED
    BY <2>1, <2>2
<1>3. QED
  BY <1>1, <1>2, OthersKeepOwned

(* Whoever takes a mapping or a task away leaves the other, or no event,   *)
(* for any number of channels, broadcasts, requests and any batch.         *)
THEOREM CleanupEventOwned == Spec => []EventOwned
<1>1. Init => Owned
  BY DEF Init, Owned, IdleRequest, IdlePass
<1>2. Shape /\ Owned /\ [Next]_vars => Owned'
  <2> SUFFICES ASSUME Shape, Owned, [Next]_vars PROVE Owned'
    OBVIOUS
  <2>1. CASE UNCHANGED vars
    BY <2>1 DEF vars, Owned, Tasked, Justified, Gone
  <2>2. ASSUME NEW c \in Channels, SyncNext(c) PROVE Owned'
    BY <2>2, SyncKeepsOwned
  <2>3. ASSUME NEW r \in Requests, RequestNext(r) PROVE Owned'
    BY <2>3, RequestKeepsOwned
  <2>4. QED
    BY <2>1, <2>2, <2>3, NextCases, WorldKeepsOwned, PassKeepsOwned
<1>3. Owned => EventOwned
  BY DEF Owned, EventOwned, Justified
<1>4. QED
  BY <1>1, <1>2, <1>3, InitShape, StepShape, PTL DEF Spec

-----------------------------------------------------------------------------
(* Who is about to insert a subscription holds the lock, and there is room *)
(* for it.                                                                 *)
Room ==
    /\ WithinLimit
    /\ \A r \in Requests : req[r].pc = "create" => locked = r /\ Cardinality(subs) < Limit

LEMMA FewerSubs ==
    ASSUME Shape
    PROVE  /\ IsFiniteSet(subs) /\ Cardinality(subs) \in Nat
           /\ \A s \in SUBSET subs : Cardinality(s) \in Nat /\ Cardinality(s) <= Cardinality(subs)
  BY CleanupAssumption, FS_Subset, FS_CardinalityType DEF Shape, Types

LEMMA RoomStays ==
    ASSUME Shape, Room, subs' \subseteq subs,
           \A r \in Requests : req'[r].pc = "create" => req[r].pc = "create" /\ locked' = locked
    PROVE  Room'
<1>1. Cardinality(subs') \in Nat /\ Cardinality(subs) \in Nat /\ Cardinality(subs') <= Cardinality(subs)
  BY FewerSubs
<1>2. QED
  BY <1>1, CleanupAssumption DEF Room, WithinLimit

(* How a request comes to the insertion.                                   *)
LEMMA ToCreate ==
    ASSUME Shape, NEW r \in Requests, RequestNext(r)
    PROVE  /\ \A q \in Requests \ {r} : req'[q] = req[q]
           /\ req'[r].pc = "create" =>
                 Count(r) /\ locked = Nobody /\ locked' = r /\ Cardinality(subs) < Limit
<1>0. /\ req[r] \in Request /\ req \in [Requests -> Request]
      /\ IdleRequest.pc = "idle" /\ IdleRequest \in Request
  BY IdleIs DEF Shape, Types, IdleRequest
<1>1. \A q \in Requests \ {r} : req'[q] = req[q]
  BY <1>0 DEF RequestNext, RequestStep, RequestFails, Register, RemoveChannel, Count, Create, Queue, RemoveEvent,
         RemoveTask, RemoveSubscription, Goes
<1>2. \A k : Goes(r, k) => req'[r] = k
  BY <1>0 DEF Goes
<1>3. CASE Queue(r)
  <2>1. req[r].pc = "next"
    BY <1>3 DEF Queue, At
  <2>2. \E t, todo : \/ req'[r] = [req[r] EXCEPT !.pc = "event", !.task = t, !.todo = todo]
                    \/ req'[r] = [req[r] EXCEPT !.todo = todo]
    BY <1>2, <1>3 DEF Queue
  <2>3. QED
    BY <1>0, <1>1, <2>1, <2>2 DEF Request
<1>4. CASE Count(r)
  <2>1. IF Cardinality(subs) < Limit THEN locked' = r ELSE req'[r] = IdleRequest
    BY <1>2, <1>4 DEF Count
  <2>2. QED
    BY <1>0, <1>1, <1>4, <2>1 DEF Count
<1>5. CASE RemoveTask(r)
  <2>1. req'[r] = [req[r] EXCEPT !.pc = "next", !.task = {}]
    BY <1>2, <1>5 DEF RemoveTask
  <2>2. QED
    BY <1>0, <1>1, <2>1 DEF Request
<1>6. CASE RemoveEvent(r)
  <2>1. req'[r] = [req[r] EXCEPT !.pc = "task"]
    BY <1>2, <1>6 DEF RemoveEvent
  <2>2. QED
    BY <1>0, <1>1, <2>1 DEF Request
<1>7. CASE RequestFails(r) \/ Create(r) \/ RemoveSubscription(r)
  BY <1>0, <1>1, <1>2, <1>7 DEF RequestFails, Create, RemoveSubscription
<1>8. ASSUME NEW c \in Channels, Register(r, c) \/ RemoveChannel(r, c) PROVE req'[r].pc # "create"
  <2>1. \E todo : \/ req'[r] = [IdleRequest EXCEPT !.pc = "count", !.channel = c]
                 \/ req'[r] = [IdleRequest EXCEPT !.pc = "next", !.channel = c, !.todo = todo]
    BY <1>2, <1>8 DEF Register, RemoveChannel
  <2>2. QED
    BY <1>0, <2>1 DEF Request
<1>9. QED
  BY <1>1, <1>3, <1>4, <1>5, <1>6, <1>7, <1>8 DEF RequestNext, RequestStep

LEMMA RequestKeepsRoom ==
    ASSUME Shape, Room, NEW r \in Requests, RequestNext(r)
    PROVE  Room'
<1>1. CASE Create(r)
  <2>1. /\ At(r, "create") /\ subs' = subs \cup ({req[r].channel} \cap known)
    BY <1>1 DEF Create
  <2>2. \A q \in Requests : req'[q].pc # "create"
    <3>1. \A q \in Requests : req[q].pc = "create" => q = r
      BY <2>1 DEF Room, At
    <3>2. req'[r].pc # "create"
      BY <1>1, ToCreate DEF Count, At, Create
    <3>3. QED
      BY <3>1, <3>2, ToCreate
  <2>3. Cardinality(subs') <= Limit
    <3>1. IsFiniteSet(subs) /\ Cardinality(subs) \in Nat /\ Cardinality(subs) < Limit
      BY <2>1, FewerSubs DEF Room, At
    <3>2. subs' = subs \/ subs' = subs \cup {req[r].channel}
      BY <2>1
    <3>3. Cardinality(subs \cup {req[r].channel}) <= Cardinality(subs) + 1
      BY <3>1, FS_AddElement
    <3>4. CASE subs' = subs
      BY <3>1, <3>4, CleanupAssumption
    <3>5. CASE subs' = subs \cup {req[r].channel}
      <4>1. Cardinality(subs') = Cardinality(subs) \/ Cardinality(subs') = Cardinality(subs) + 1
        BY <3>1, <3>5, FS_AddElement
      <4>2. QED
        BY <3>1, <4>1, CleanupAssumption
    <3>6. QED
      BY <3>2, <3>4, <3>5
  <2>4. QED
    BY <2>2, <2>3 DEF Room, WithinLimit
<1>2. CASE Count(r)
  <2>1. subs' = subs /\ locked = Nobody
    BY <1>2 DEF Count, data
  <2>2. \A q \in Requests : req[q].pc # "create"
    BY <2>1, CleanupAssumption DEF Room
  <2>3. \A q \in Requests : req'[q].pc = "create" => locked' = q /\ Cardinality(subs) < Limit
    BY <2>2, ToCreate
  <2>4. QED
    BY <2>1, <2>3 DEF Room, WithinLimit
<1>3. CASE ~ Create(r) /\ ~ Count(r)
  <2>1. subs' \subseteq subs
    BY <1>3 DEF RequestNext, RequestStep, RequestFails, Register, RemoveChannel, Queue, RemoveEvent,
         RemoveTask, RemoveSubscription, data
  <2>2. req'[r].pc # "create" /\ \A q \in Requests \ {r} : req'[q] = req[q]
    BY <1>3, ToCreate
  <2>3. locked' = locked \/ locked = r
    BY <1>3 DEF RequestNext, RequestStep, RequestFails, Register, RemoveChannel, Queue, RemoveEvent,
         RemoveTask, RemoveSubscription
  <2>4. \A q \in Requests : req'[q].pc = "create" => req[q].pc = "create" /\ locked' = locked
    BY <2>2, <2>3 DEF Room
  <2>5. QED
    BY <2>1, <2>4, RoomStays
<1>4. QED
  BY <1>1, <1>2, <1>3

LEMMA StepRoom == Shape /\ Room /\ [Next]_vars => Room'
<1> SUFFICES ASSUME Shape, Room, [Next]_vars PROVE Room'
  OBVIOUS
<1>1. CASE UNCHANGED vars
  BY <1>1, RoomStays DEF vars
<1>2. CASE MaintainYouTubeData \/ (\E e \in Events : Ends(e)) \/ (\E c \in Channels : Resolve(c))
  <2>1. subs' \subseteq subs /\ UNCHANGED <<req, locked>>
    BY <1>2 DEF MaintainYouTubeData, Ends, Resolve
  <2>2. QED
    BY <2>1, RoomStays
<1>3. CASE PassStep
  BY <1>3, PassKeepsShape, RoomStays
<1>4. ASSUME NEW c \in Channels, SyncNext(c) PROVE Room'
  BY <1>4, SyncKeepsShape, RoomStays
<1>5. ASSUME NEW r \in Requests, RequestNext(r) PROVE Room'
  BY <1>5, RequestKeepsRoom
<1>6. QED
  BY <1>1, <1>2, <1>3, <1>4, <1>5, NextCases

LEMMA InitRoom == Init => Room
<1> SUFFICES ASSUME Init PROVE Room
  OBVIOUS
<1>1. Cardinality(subs) = 0
  BY FS_EmptySet DEF Init
<1>2. QED
  BY <1>1, CleanupAssumption DEF Init, Room, WithinLimit, IdleRequest

(* Any number of concurrent registrations keep to any limit.               *)
THEOREM CleanupWithinLimit == Spec => []WithinLimit
<1>1. Room => WithinLimit
  BY DEF Room
<1>2. QED
  BY <1>1, InitRoom, StepRoom, InitShape, StepShape, PTL DEF Spec

-----------------------------------------------------------------------------
(* Every step is one operation of CalendarRegistry, or none.               *)

rvars == <<subs, known, rows, mapping, Tasked>>

(* The cardinality that CalendarRegistry means is this one.                *)
LEMMA SameCardinality == \A S : Registry!Cardinality(S) = Cardinality(S)
  BY DEF Registry!Cardinality, Cardinality

LEMMA QueueIsOne ==
    ASSUME Shape, NEW e \in Events, QueueTasks({e}), UNCHANGED <<subs, known, rows, mapping>>
    PROVE  Registry!QueueCleanup(e)
<1>1. {e} \in SUBSET Events
  OBVIOUS
<1>2. Tasked' = Tasked \cup {e}
  BY <1>1, QueueTasksIs DEF Shape
<1>3. QED
  BY <1>2 DEF Registry!QueueCleanup

LEMMA DropIsOne ==
    ASSUME Shape, NEW t \in Task, DropTask(t), \A u \in tasks : u.id = t.id => u = t,
           UNCHANGED <<subs, known, rows>>
    PROVE  Registry!DeleteTask(t.event) \/ UNCHANGED rvars
<1>1. Tasked' = IF t \in tasks THEN Tasked \ {t.event} ELSE Tasked
  BY DropTaskIs DEF Shape
<1>2. mapping' = IF t \in tasks THEN mapping \ {t.event} ELSE mapping
  BY DEF DropTask
<1>3. CASE t \in tasks
  BY <1>1, <1>2, <1>3 DEF Registry!DeleteTask, Tasked
<1>4. CASE t \notin tasks
  BY <1>1, <1>2, <1>4 DEF rvars
<1>5. QED
  BY <1>3, <1>4

LEMMA StepIsOne == Shape /\ Room /\ [Next]_vars => [Registry!Next]_rvars
<1> SUFFICES ASSUME Shape, Room, [Next]_vars PROVE Registry!Next \/ UNCHANGED rvars
  OBVIOUS
<1>1. CASE UNCHANGED vars
  BY <1>1 DEF vars, rvars, Tasked
<1>2. CASE MaintainYouTubeData
  <2>1. PICK expired \in SUBSET known, old \in SUBSET rows :
          LET gone == old \cup {e \in rows : Of[e] \in expired}
              unmapped == {e \in mapping : e \in gone \/ Orphaned(e)}
          IN  /\ mapping' = mapping \ unmapped
              /\ rows' = rows \ gone
              /\ subs' = subs \ expired
              /\ known' = known \ expired
              /\ QueueTasks(unmapped)
    BY <1>2 DEF MaintainYouTubeData
  <2> DEFINE gone == old \cup {e \in rows : Of[e] \in expired}
             unmapped == {e \in mapping : e \in gone \/ Orphaned(e)}
  <2>2. unmapped \in SUBSET Events
    BY DEF Shape, Types
  <2>3. QueueTasks(unmapped)
    BY <2>1
  <2>4. Tasked' = Tasked \cup unmapped
    <3> HIDE DEF unmapped
    <3>1. QED
      BY <2>2, <2>3, QueueTasksIs DEF Shape
  <2>5. unmapped = {e \in mapping : Registry!Unwanted(e, gone)}
    BY DEF Registry!Unwanted, Orphaned
  <2>6. Registry!MaintainYouTubeData(expired, old)
    BY <2>1, <2>4, <2>5 DEF Registry!MaintainYouTubeData
  <2>7. QED
    BY <2>6 DEF Registry!Next
<1>3. CASE \E e \in Events : Ends(e)
  BY <1>3 DEF Ends, rvars, Tasked
<1>4. CASE \E c \in Channels : Resolve(c)
  BY <1>4 DEF Resolve, Registry!UpsertChannel, Registry!Next, Tasked
<1>5. CASE PassStep
  <2>1. UNCHANGED <<subs, known, rows>>
    BY <1>5, PassKeepsShape
  <2>2. CASE CleanTask
    <3> DEFINE h == Head(pass.todo)
    <3>1. DropTask(h) /\ pass.todo \in Seq(Task) /\ pass.todo # <<>>
      BY <2>2 DEF CleanTask, Shape, Types, PassShape
    <3>2. h \in Task /\ \A t \in tasks : t.id = h.id => t = h
      BY <3>1, TailOf DEF Shape, IdsKept, Remembered
    <3> HIDE DEF h
    <3>3. Registry!DeleteTask(h.event) \/ UNCHANGED rvars
      BY <2>1, <3>1, <3>2, DropIsOne
    <3>4. h.event \in Events
      BY <3>2 DEF Task
    <3>5. QED
      BY <3>3, <3>4 DEF Registry!Next
  <2>3. CASE ListTasks \/ CleanEvent \/ CleanFails \/ PassEnds
    BY <2>3 DEF ListTasks, CleanEvent, CleanFails, PassEnds, data, rvars, Tasked
  <2>4. QED
    BY <1>5, <2>2, <2>3 DEF PassStep
<1>6. ASSUME NEW c \in Channels, SyncNext(c) PROVE Registry!Next \/ UNCHANGED rvars
  <2>1. UNCHANGED <<tasks, subs, known>>
    BY <1>6, SyncKeepsShape
  <2>2. CASE StartSync(c)
    <3>1. PICK found \in SUBSET {e \in Events : Of[e] = c} : rows' = rows \cup found
      BY <2>2 DEF StartSync
    <3>2. found \in SUBSET Events /\ UNCHANGED mapping
      BY <2>2 DEF StartSync
    <3>3. Registry!UpsertBroadcasts(found)
      BY <2>1, <3>1, <3>2 DEF Registry!UpsertBroadcasts, Tasked
    <3>4. QED
      BY <3>2, <3>3 DEF Registry!Next
  <2>3. CASE Save(c)
    <3>1. PICK e \in Events : sync[c].writing = {e}
      BY <2>3 DEF Save, Shape, SyncShape
    <3>2. Registry!SaveMapping(e)
      BY <2>1, <2>3, <3>1 DEF Save, Savable, Registry!SaveMapping, Tasked
    <3>3. QED
      BY <3>2 DEF Registry!Next
  <2>4. CASE ListBroadcasts(c) \/ Skip(c) \/ Decide(c) \/ Upsert(c) \/ EndSync(c) \/ SyncFails(c)
    BY <2>1, <2>4 DEF ListBroadcasts, Skip, Decide, Upsert, EndSync, SyncFails, data, rvars, Tasked
  <2>5. QED
    BY <1>6, <2>2, <2>3, <2>4 DEF SyncNext, SyncStep
<1>7. ASSUME NEW r \in Requests, RequestNext(r) PROVE Registry!Next \/ UNCHANGED rvars
  <2>0. /\ req[r] \in Request
        /\ req[r].pc \in {"event", "task"} => \E t \in Task : req[r].task = {t}
    BY DEF Shape, Types, RequestShape
  <2>1. CASE Create(r)
    <3>1. /\ subs' = subs \cup ({req[r].channel} \cap known) /\ UNCHANGED <<known, rows, mapping, tasks>>
          /\ Cardinality(subs) < Limit
      BY <2>1 DEF Create, Room, At
    <3>2. CASE req[r].channel \in known \ subs
      <4>0. subs' = subs \cup {req[r].channel}
        BY <3>1, <3>2
      <4>1. Registry!CreateSubscription(req[r].channel)
        BY <3>1, <3>2, <4>0, SameCardinality DEF Registry!CreateSubscription, Tasked
      <4>2. QED
        BY <2>0, <4>1 DEF Registry!Next, Request
    <3>3. CASE req[r].channel \notin known \ subs
      BY <3>1, <3>3 DEF rvars, Tasked
    <3>4. QED
      BY <3>2, <3>3
  <2>2. CASE Queue(r)
    <3>1. UNCHANGED <<subs, known, rows, mapping>>
      BY <2>2 DEF Queue
    <3>2. PICK e \in req[r].todo : QueueTasks({e}) \/ UNCHANGED <<tasks, order>>
      BY <2>2 DEF Queue
    <3>3. e \in Events
      BY <2>0 DEF Request
    <3>4. CASE QueueTasks({e})
      BY <3>1, <3>3, <3>4, QueueIsOne DEF Registry!Next
    <3>5. CASE UNCHANGED <<tasks, order>>
      BY <3>1, <3>5 DEF rvars, Tasked
    <3>6. QED
      BY <3>2, <3>4, <3>5
  <2>3. CASE RemoveTask(r)
    <3>1. PICK t \in req[r].task : DropTask(t)
      BY <2>3 DEF RemoveTask
    <3>2. t \in Task /\ \A u \in tasks : u.id = t.id => u = t
      BY <2>0 DEF Request, Shape, IdsKept, Remembered
    <3>3. UNCHANGED <<subs, known, rows>>
      BY <2>3 DEF RemoveTask
    <3>4. Registry!DeleteTask(t.event) \/ UNCHANGED rvars
      BY <3>1, <3>2, <3>3, DropIsOne
    <3>5. t.event \in Events
      BY <3>2 DEF Task
    <3>6. QED
      BY <3>4, <3>5 DEF Registry!Next
  <2>4. CASE RemoveSubscription(r)
    <3>1. Registry!DeleteSubscription(req[r].channel)
      BY <2>4 DEF RemoveSubscription, Registry!DeleteSubscription, Tasked
    <3>2. QED
      BY <2>0, <3>1 DEF Registry!Next, Request
  <2>5. CASE RequestFails(r) \/ Count(r) \/ RemoveEvent(r)
    BY <2>5 DEF RequestFails, Count, RemoveEvent, data, rvars, Tasked
  <2>6. CASE \E c \in Channels : Register(r, c) \/ RemoveChannel(r, c)
    BY <2>6 DEF Register, RemoveChannel, data, rvars, Tasked
  <2>7. QED
    BY <1>7, <2>1, <2>2, <2>3, <2>4, <2>5, <2>6 DEF RequestNext, RequestStep
<1>8. QED
  BY <1>1, <1>2, <1>3, <1>4, <1>5, <1>6, <1>7, NextCases

(* The count and the insertion, the task and its id, the mapping and its   *)
(* row: for its callers each operation of the store is a single step.      *)
THEOREM CleanupImplementsRegistry == Spec => ImplementsRegistry
<1>1. Init => Registry!Init
  BY DEF Init, Registry!Init, Tasked
<1>2. QED
  BY <1>1, StepIsOne, InitRoom, StepRoom, InitShape, StepShape, PTL
     DEF Spec, ImplementsRegistry, Registry!Spec, rvars
=============================================================================
