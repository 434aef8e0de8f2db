------------------------ MODULE ContentWorkersProofs ------------------------
(* Theorems about ContentWorkers, for any jobs, rows, runs and faults.     *)
EXTENDS ContentWorkers, FiniteSetTheorems, SequenceTheorems, TLAPS

(* Whose list a job is on, and how far it has come: no job is pushed to    *)
(* two lists, and a process's job, and every job with an outcome, was      *)
(* popped.                                                                 *)
JobsSound ==
    /\ \A l, m \in Lists : \A j \in Range(pushed[l]) \cap Range(pushed[m]) : l = m
    /\ \A l \in Lists : process[l].job # None => process[l].job \in Range(popped[l])
    /\ \A j \in Jobs : outcome[j] # "none" => \E l \in Lists : j \in Range(popped[l])

(* A worker has a row of its table, does its own kind of work, and marks   *)
(* only what was made.                                                     *)
WorkersSound ==
    \A w \in Workers : workers[w].at # "idle" =>
        /\ table[workers[w].row] = Serves(w)
        /\ workers[w].at = "upload" => w # "generator"
        /\ workers[w].at \in {"voice", "render"} => w = "generator"
        /\ workers[w].at = "mark" => made[workers[w].row] > 0

Staff(t) == {w \in Workers : Serves(w) = t}

Making(r) == {w \in Workers : workers[w].row = r /\ workers[w].at \in {"upload", "voice", "render"}}

Marking(r) == {w \in Workers : workers[w].row = r /\ workers[w].at = "mark"}

Times(f, n) == f * n

Size(r) == Cardinality(Staff(table[r]))

(* While the row is pending, what was made of it is about to be marked or  *)
(* was stopped by a fault.  Once it is done, only the workers that had it  *)
(* at hand may make it again.                                              *)
Account(r) ==
    /\ status[r] = "pending" => made[r] <= Times(faults, Size(r)) + Cardinality(Marking(r))
    /\ status[r] = "done" =>
          made[r] + Cardinality(Making(r)) <= Times(faults, Size(r)) + Size(r)

Accounts == \A r \in Rows : Account(r)

ListInv == ListTypeOK /\ ServedInOrder /\ CrawlsWhole /\ JobsSound

RowInv == RowTypeOK /\ VideosExist /\ WorkersSound /\ Accounts

IInv == ListInv /\ RowInv /\ faults \in 0..MaxFaults

-----------------------------------------------------------------------------
LEMMA Concatenated ==
    ASSUME NEW S, NEW a \in Seq(S), NEW b \in Seq(S)
    PROVE  /\ a \o b \in Seq(S) /\ Len(a \o b) = Len(a) + Len(b)
           /\ \A i \in 1..Len(a) + Len(b) :
                 (a \o b)[i] = IF i <= Len(a) THEN a[i] ELSE b[i - Len(a)]
OBVIOUS

(* A push at the head of a list reads, last element first, as an append.   *)
LEMMA ServedPush ==
    ASSUME NEW S, NEW p \in Seq(S), NEW q \in Seq(S), NEW j \in S
    PROVE  <<j>> \o q \in Seq(S) /\ p \o Reverse(<<j>> \o q) = Append(p \o Reverse(q), j)
<1>1. /\ <<j>> \in Seq(S) /\ Len(<<j>>) = 1 /\ <<j>>[1] = j
      /\ Len(q) \in Nat /\ \A i \in 1..Len(q) : q[i] \in S
  OBVIOUS
<1> DEFINE h == <<j>> \o q
<1>2. /\ h \in Seq(S) /\ Len(h) = Len(q) + 1
      /\ \A i \in 1..Len(q) + 1 : h[i] = IF i = 1 THEN j ELSE q[i - 1]
  BY <1>1
<1>3. /\ Reverse(q) \in Seq(S) /\ Len(Reverse(q)) = Len(q)
      /\ \A i \in 1..Len(q) : Reverse(q)[i] = q[(Len(q) - i) + 1]
  BY <1>1 DEF Reverse
<1>4. Reverse(h) = Append(Reverse(q), j)
  BY <1>1, <1>2, <1>3 DEF Reverse
<1>5. p \o Append(Reverse(q), j) = Append(p \o Reverse(q), j)
  BY <1>3
<1> QED
  BY <1>2, <1>4, <1>5

(* A pop at the tail of a list moves a job to the end of what was popped.  *)
LEMMA ServedPop ==
    ASSUME NEW S, NEW p \in Seq(S), NEW q \in Seq(S), q # <<>>
    PROVE  /\ Front(q) \in Seq(S) /\ Last(q) \in S
           /\ Append(p, Last(q)) \o Reverse(Front(q)) = p \o Reverse(q)
<1>1. Len(q) \in Nat \ {0} /\ \A i \in 1..Len(q) : q[i] \in S
  OBVIOUS
<1>2. /\ Front(q) \in Seq(S) /\ Len(Front(q)) = Len(q) - 1
      /\ \A i \in 1..Len(q) - 1 : Front(q)[i] = q[i]
  <2> DEFINE n == Len(q) - 1
  <2>1. n \in Int /\ 1 \in Int /\ \A i \in 1..n : q[i] \in S
    BY <1>1
  <2>2. /\ SubSeq(q, 1, n) \in Seq(S)
        /\ Len(SubSeq(q, 1, n)) = IF 1 <= n THEN n - 1 + 1 ELSE 0
        /\ \A i \in 1..n - 1 + 1 : SubSeq(q, 1, n)[i] = q[1 + i - 1]
    <3> HIDE DEF n
    <3> QED
      BY <2>1, SubSeqProperties
  <2>3. Front(q) = SubSeq(q, 1, n)
    BY DEF Front
  <2>4. n \in Nat
    BY <1>1
  <2> HIDE DEF n
  <2>5. Len(Front(q)) = n
    BY <2>2, <2>3, <2>4
  <2>6. \A i \in 1..n : Front(q)[i] = q[i]
    BY <2>2, <2>3, <2>4
  <2> QED
    BY <2>2, <2>3, <2>5, <2>6 DEF n
<1>3. Last(q) = q[Len(q)] /\ Last(q) \in S
  BY <1>1 DEF Last
<1>4. /\ Reverse(q) \in Seq(S) /\ Len(Reverse(q)) = Len(q)
      /\ \A i \in 1..Len(q) : Reverse(q)[i] = q[(Len(q) - i) + 1]
  BY <1>1 DEF Reverse
<1>5. /\ Reverse(Front(q)) \in Seq(S) /\ Len(Reverse(Front(q))) = Len(q) - 1
      /\ \A i \in 1..Len(q) - 1 : Reverse(Front(q))[i] = q[Len(q) - i]
  BY <1>1, <1>2 DEF Reverse
<1> DEFINE h == Append(p, Last(q))
           t == Reverse(Front(q))
           r == Reverse(q)
<1>6. /\ Len(p) \in Nat /\ h \in Seq(S) /\ Len(h) = Len(p) + 1 /\ h[Len(p) + 1] = q[Len(q)]
      /\ \A i \in 1..Len(p) : h[i] = p[i]
  BY <1>3
<1>7. r[1] = q[Len(q)] /\ \A i \in 1..Len(q) - 1 : t[i] = r[i + 1]
  BY <1>1, <1>4, <1>5
<1>8. /\ Len(t) = Len(q) - 1 /\ t \in Seq(S) /\ Len(r) = Len(q) /\ r \in Seq(S)
  BY <1>4, <1>5
<1>9. h \o t = p \o r
  <2> HIDE DEF h, t, r
  <2>0. Len(h) \in Nat /\ Len(t) \in Nat /\ h \in Seq(S) /\ t \in Seq(S)
    BY <1>1, <1>6, <1>8
  <2>1. /\ h \o t \in Seq(S) /\ Len(h \o t) = Len(h) + Len(t)
        /\ \A i \in 1..Len(h) + Len(t) :
              (h \o t)[i] = IF i <= Len(h) THEN h[i] ELSE t[i - Len(h)]
    BY <2>0, Concatenated
  <2>2. /\ p \o r \in Seq(S) /\ Len(p \o r) = Len(p) + Len(r)
        /\ \A i \in 1..Len(p) + Len(r) :
              (p \o r)[i] = IF i <= Len(p) THEN p[i] ELSE r[i - Len(p)]
    <3>1. p \in Seq(S) /\ r \in Seq(S)
      BY <1>8
    <3> QED
      BY <3>1, Concatenated
  <2>3. Len(q) \in Nat \ {0} /\ Len(h \o t) = Len(p \o r) /\ Len(h \o t) = Len(p) + Len(q)
    BY <1>1, <1>6, <1>8, <2>1, <2>2
  <2>4. ASSUME NEW i \in 1..Len(p) + Len(q) PROVE (h \o t)[i] = (p \o r)[i]
    <3>0. i \in 1..Len(h) + Len(t) /\ i \in 1..Len(p) + Len(r)
      BY <1>6, <1>8, <2>3
    <3>1. CASE i <= Len(p)
      <4>1. (h \o t)[i] = h[i] /\ (p \o r)[i] = p[i] /\ i \in 1..Len(p)
        BY <1>6, <2>1, <2>2, <3>0, <3>1
      <4> QED
        BY <1>6, <4>1
    <3>2. CASE i = Len(p) + 1
      <4>1. (h \o t)[i] = h[i] /\ (p \o r)[i] = r[1]
        BY <1>6, <2>1, <2>2, <3>0, <3>2
      <4> QED
        BY <1>6, <1>7, <3>2, <4>1
    <3>3. CASE i > Len(p) + 1
      <4>1. /\ i - Len(h) \in 1..Len(q) - 1 /\ i - Len(p) = (i - Len(h)) + 1
            /\ ~(i <= Len(h)) /\ ~(i <= Len(p))
        BY <1>6, <2>3, <3>3
      <4>2. (h \o t)[i] = t[i - Len(h)] /\ (p \o r)[i] = r[i - Len(p)]
        BY <2>1, <2>2, <3>0, <4>1
      <4>3. t[i - Len(h)] = r[(i - Len(h)) + 1]
        BY <1>7, <4>1
      <4> QED
        BY <4>1, <4>2, <4>3
    <3>4. i <= Len(p) \/ i = Len(p) + 1 \/ i > Len(p) + 1
      <4>1. i \in Nat /\ Len(p) \in Nat
        BY <1>6, <2>3
      <4> QED
        BY <4>1
    <3> QED
      BY <3>1, <3>2, <3>3, <3>4, Zenon
  <2> QED
    <3> DEFINE x == h \o t
               y == p \o r
    <3>1. x \in Seq(S) /\ y \in Seq(S) /\ Len(x) = Len(y) /\ \A i \in 1..Len(x) : x[i] = y[i]
      BY <2>1, <2>2, <2>3, <2>4
    <3> HIDE DEF x, y
    <3>2. x = y
      BY <3>1, SeqEqual
    <3> QED
      BY <3>2 DEF x, y
<1> QED
  BY <1>2, <1>3, <1>9

LEMMA RangeAppend ==
    ASSUME NEW S, NEW s \in Seq(S), NEW e \in S
    PROVE  Range(Append(s, e)) = Range(s) \cup {e}
<1>1. Len(s) \in Nat /\ DOMAIN s = 1..Len(s) /\ DOMAIN Append(s, e) = 1..Len(s) + 1
  OBVIOUS
<1>2. /\ \A i \in 1..Len(s) : Append(s, e)[i] = s[i]
      /\ Append(s, e)[Len(s) + 1] = e
  OBVIOUS
<1>3. Range(Append(s, e)) \subseteq Range(s) \cup {e}
  BY <1>1, <1>2 DEF Range
<1>4. Range(s) \subseteq Range(Append(s, e))
  BY <1>1, <1>2 DEF Range
<1>5. e \in Range(Append(s, e))
  BY <1>1, <1>2 DEF Range
<1> QED
  BY <1>3, <1>4, <1>5

LEMMA RangePrefix ==
    ASSUME NEW S, NEW s \in Seq(S), NEW t \in Seq(S)
    PROVE  Range(s) \subseteq Range(s \o t)
<1>1. /\ Len(s) \in Nat /\ DOMAIN s = 1..Len(s) /\ Len(t) \in Nat
      /\ DOMAIN (s \o t) = 1..Len(s) + Len(t)
  OBVIOUS
<1>2. \A i \in 1..Len(s) : (s \o t)[i] = s[i]
  OBVIOUS
<1> QED
  BY <1>1, <1>2 DEF Range

LEMMA ReverseType == ASSUME NEW S, NEW q \in Seq(S) PROVE Reverse(q) \in Seq(S)
<1>1. Len(q) \in Nat /\ \A i \in 1..Len(q) : q[i] \in S
  OBVIOUS
<1> QED
  BY <1>1 DEF Reverse

(* What was popped was pushed.                                             *)
LEMMA PoppedPushed ==
    ListTypeOK /\ ServedInOrder => \A l \in Lists : Range(popped[l]) \subseteq Range(pushed[l])
<1> SUFFICES ASSUME ListTypeOK, ServedInOrder, NEW l \in Lists
             PROVE  Range(popped[l]) \subseteq Range(pushed[l])
  OBVIOUS
<1>1. popped[l] \in Seq(Jobs) /\ queue[l] \in Seq(Jobs)
  BY DEF ListTypeOK
<1>2. pushed[l] = popped[l] \o Reverse(queue[l])
  BY DEF ServedInOrder
<1> QED
  BY <1>1, <1>2, RangePrefix, ReverseType

-----------------------------------------------------------------------------
(* The two halves of a step.                                               *)
ListMoves ==
    \E l \in Lists :
        ListWorker(l) \/ PopFails(l) \/ Abandon(l) \/ Die(l) \/ \E j \in Jobs : Push(l, j)

RowMoves ==
    \/ \E w \in Workers : RowWorker(w) \/ SelectNothing(w) \/ WorkerFails(w)
    \/ \E w \in Runs : FarmRun(w)
    \/ GenerateFails
    \/ \E t \in Tables : ProcessDies(t) \/ \E r \in Rows : Insert(r, t)

LEMMA Halves ==
    Next => \/ ListMoves /\ UNCHANGED rowVars
            \/ RowMoves /\ UNCHANGED listVars
<1>1. ASSUME NEW l \in Lists, ListWorker(l) PROVE UNCHANGED rowVars
  BY <1>1 DEF ListWorker, Pop, Lookup, StoreProduct, StoreRefused, Finish, Restart
<1>2. ASSUME NEW l \in Lists, PopFails(l) \/ Abandon(l) \/ Die(l) \/ \E j \in Jobs : Push(l, j)
      PROVE  UNCHANGED rowVars
  BY <1>2 DEF PopFails, Abandon, Die, Push
<1>3. ASSUME NEW w \in Workers, RowWorker(w) PROVE UNCHANGED listVars
  BY <1>3 DEF RowWorker, Select, Upload, WriteVoice, Render, Mark
<1>4. RowMoves => UNCHANGED listVars
  BY <1>3 DEF RowMoves, SelectNothing, WorkerFails, FarmRun, GenerateFails, ProcessDies, Insert
<1>5. Next => ListMoves \/ RowMoves
  BY DEF Next, ListMoves, RowMoves
<1>6. ListMoves => UNCHANGED rowVars
  BY <1>1, <1>2 DEF ListMoves
<1> QED
  BY <1>4, <1>5, <1>6

LEMMA FaultsGrow == TypeOK /\ [Next]_vars => faults' \in 0..MaxFaults /\ faults' >= faults
<1> SUFFICES ASSUME TypeOK, [Next]_vars PROVE faults' \in 0..MaxFaults /\ faults' >= faults
  OBVIOUS
<1>1. faults \in 0..MaxFaults /\ MaxFaults \in Nat
  BY WorkersAssumption DEF TypeOK, WorkersAssumption
<1>2. Fault => faults' \in 0..MaxFaults /\ faults' >= faults
  BY <1>1 DEF Fault
<1>3. ASSUME NEW l \in Lists, ListWorker(l) PROVE UNCHANGED faults
  BY <1>3 DEF ListWorker, Pop, Lookup, StoreProduct, StoreRefused, Finish, Restart
<1>4. ListMoves => UNCHANGED faults \/ Fault
  BY <1>3 DEF ListMoves, PopFails, Abandon, Die, Push
<1>5. ASSUME NEW w \in Workers, RowWorker(w) PROVE UNCHANGED faults
  BY <1>5 DEF RowWorker, Select, Upload, WriteVoice, Render, Mark
<1>6. RowMoves => UNCHANGED faults \/ Fault
  BY <1>5 DEF RowMoves, SelectNothing, WorkerFails, FarmRun, GenerateFails, ProcessDies, Insert
<1>7. Next => ListMoves \/ RowMoves
  BY DEF Next, ListMoves, RowMoves
<1>8. UNCHANGED vars => UNCHANGED faults
  BY DEF vars
<1> QED
  BY <1>1, <1>2, <1>4, <1>6, <1>7, <1>8

-----------------------------------------------------------------------------
(* The lists.                                                              *)
Process == [at : {"idle", "down"}, job : {None}] \cup [at : {"lookup", "handling"}, job : Jobs]

LEMMA JobHeld ==
    ASSUME ListTypeOK, NEW l \in Lists
    PROVE  /\ process[l] \in Process
           /\ process[l].at \in {"lookup", "handling"} <=> process[l].job # None
           /\ process[l].job # None => process[l].job \in Jobs
BY WorkersAssumption DEF ListTypeOK, Process, WorkersAssumption

(* The three ways in which the process of a list changes what it does.     *)
LEMMA Becoming ==
    ASSUME ListTypeOK, NEW l \in Lists, NEW s \in Process, Becomes(l, s)
    PROVE  /\ process' \in [Lists -> Process]
           /\ process'[l] = s /\ \A m \in Lists \ {l} : process'[m] = process[m]
BY DEF ListTypeOK, Process, Becomes

LEMMA Removing ==
    ASSUME ListTypeOK, ServedInOrder, NEW l \in Lists, NEW j \in Jobs, Removed(l, j),
           UNCHANGED pushed
    PROVE  /\ queue' \in [Lists -> Seq(Jobs)] /\ popped' \in [Lists -> Seq(Jobs)]
           /\ ServedInOrder' /\ j \in Range(pushed[l])
           /\ Range(popped'[l]) = Range(popped[l]) \cup {j}
           /\ \A m \in Lists \ {l} : popped'[m] = popped[m]
<1>1. queue[l] \in Seq(Jobs) /\ popped[l] \in Seq(Jobs) /\ queue[l] # <<>> /\ j = Last(queue[l])
  BY DEF ListTypeOK, Removed
<1>2. /\ Front(queue[l]) \in Seq(Jobs) /\ Append(popped[l], j) \in Seq(Jobs)
      /\ Append(popped[l], j) \o Reverse(Front(queue[l])) = popped[l] \o Reverse(queue[l])
  <2> DEFINE p == popped[l]
             q == queue[l]
  <2>1. p \in Seq(Jobs) /\ q \in Seq(Jobs) /\ q # <<>> /\ j = Last(q)
    BY <1>1
  <2> HIDE DEF p, q
  <2>2. Front(q) \in Seq(Jobs) /\ Append(p, Last(q)) \o Reverse(Front(q)) = p \o Reverse(q)
    BY <2>1, ServedPop
  <2> QED
    BY <2>1, <2>2 DEF p, q
<1>3. /\ queue' = [queue EXCEPT ![l] = Front(queue[l])]
      /\ popped' = [popped EXCEPT ![l] = Append(popped[l], j)]
  BY DEF Removed
<1>4. queue' \in [Lists -> Seq(Jobs)] /\ popped' \in [Lists -> Seq(Jobs)]
  BY <1>2, <1>3 DEF ListTypeOK
<1>5. /\ queue'[l] = Front(queue[l]) /\ popped'[l] = Append(popped[l], j)
      /\ \A m \in Lists \ {l} : queue'[m] = queue[m] /\ popped'[m] = popped[m]
  BY <1>3 DEF ListTypeOK
<1>6. \A m \in Lists : pushed'[m] = popped'[m] \o Reverse(queue'[m])
  BY <1>2, <1>5 DEF ServedInOrder
<1>7. Range(popped'[l]) = Range(popped[l]) \cup {j}
  BY <1>1, <1>5, RangeAppend
<1>8. pushed[l] = popped'[l] \o Reverse(queue'[l])
  BY <1>6
<1>9. popped'[l] \in Seq(Jobs) /\ Reverse(queue'[l]) \in Seq(Jobs)
  BY <1>4, ReverseType
<1>10. Range(popped'[l]) \subseteq Range(pushed[l])
  BY <1>8, <1>9, RangePrefix
<1> QED
  BY <1>4, <1>5, <1>6, <1>7, <1>10 DEF ServedInOrder

(* A job that ends does so in the process that popped it.                  *)
LEMMA Ending ==
    ASSUME ListTypeOK, NEW l \in Lists, process[l].job # None,
           NEW how \in {"done", "failed", "lost"}, Ends(l, how)
    PROVE  /\ outcome' \in [Jobs -> {"none", "done", "failed", "lost"}]
           /\ outcome'[process[l].job] = how
           /\ \A j \in Jobs \ {process[l].job} : outcome'[j] = outcome[j]
BY JobHeld DEF ListTypeOK, Ends

LEMMA PushStep ==
    ASSUME ListInv, NEW l \in Lists, NEW j \in Jobs, Push(l, j) PROVE ListInv'
<1>1. queue[l] \in Seq(Jobs) /\ pushed[l] \in Seq(Jobs) /\ popped[l] \in Seq(Jobs)
  BY DEF ListInv, ListTypeOK
<1>2. /\ queue' = [queue EXCEPT ![l] = <<j>> \o queue[l]]
      /\ pushed' = [pushed EXCEPT ![l] = Append(pushed[l], j)]
      /\ UNCHANGED <<popped, process, outcome, products>>
  BY DEF Push
<1>3. /\ <<j>> \o queue[l] \in Seq(Jobs) /\ Append(pushed[l], j) \in Seq(Jobs)
      /\ popped[l] \o Reverse(<<j>> \o queue[l]) = Append(popped[l] \o Reverse(queue[l]), j)
  <2> DEFINE p == popped[l]
             q == queue[l]
  <2>1. p \in Seq(Jobs) /\ q \in Seq(Jobs)
    BY <1>1
  <2> HIDE DEF p, q
  <2>2. <<j>> \o q \in Seq(Jobs) /\ p \o Reverse(<<j>> \o q) = Append(p \o Reverse(q), j)
    BY <2>1, ServedPush
  <2>3. Append(pushed[l], j) \in Seq(Jobs)
    BY <1>1
  <2>4. <<j>> \o queue[l] \in Seq(Jobs)
    BY <2>2 DEF q
  <2> QED
    BY <2>2, <2>3, <2>4 DEF p, q
<1>4. ListTypeOK'
  BY <1>2, <1>3 DEF ListInv, ListTypeOK
<1>5. /\ queue'[l] = <<j>> \o queue[l] /\ pushed'[l] = Append(pushed[l], j)
      /\ \A m \in Lists \ {l} : queue'[m] = queue[m] /\ pushed'[m] = pushed[m]
  BY <1>2 DEF ListInv, ListTypeOK
<1>6. ServedInOrder'
  <2>1. /\ pushed'[l] = popped'[l] \o Reverse(queue'[l])
        /\ \A m \in Lists \ {l} : pushed'[m] = popped'[m] \o Reverse(queue'[m])
    BY <1>2, <1>3, <1>5 DEF ListInv, ServedInOrder
  <2> QED
    BY <2>1 DEF ServedInOrder
<1>7. CrawlsWhole'
  BY <1>2 DEF ListInv, CrawlsWhole
<1>8. Range(pushed'[l]) = Range(pushed[l]) \cup {j}
  BY <1>1, <1>5, RangeAppend
<1>9. \A m \in Lists : j \notin Range(pushed[m])
  BY DEF Push, Pushed
<1>10. \A k, m \in Lists : \A i \in Range(pushed'[k]) \cap Range(pushed'[m]) : k = m
  <2>1. \A k, m \in Lists : \A i \in Range(pushed[k]) \cap Range(pushed[m]) : k = m
    BY DEF ListInv, JobsSound
  <2>2. \A m \in Lists \ {l} : Range(pushed'[m]) = Range(pushed[m])
    BY <1>5
  <2> QED
    BY <1>8, <1>9, <2>1, <2>2
<1>11. JobsSound'
  BY <1>2, <1>10 DEF ListInv, JobsSound
<1> QED
  BY <1>4, <1>6, <1>7, <1>11 DEF ListInv

(* A pop, in which the process takes the job or the job is lost.           *)
LEMMA PopStep ==
    ASSUME ListInv, NEW l \in Lists, NEW j \in Jobs, Removed(l, j), UNCHANGED <<pushed, products>>,
           \/ /\ Becomes(l, [at |-> IF l = "video_jobs" THEN "lookup" ELSE "handling", job |-> j])
              /\ UNCHANGED outcome
           \/ Becomes(l, Down) /\ outcome' = [outcome EXCEPT ![j] = "lost"]
    PROVE  ListInv'
<1>1. ListTypeOK /\ ServedInOrder
  BY DEF ListInv
<1>2. /\ queue' \in [Lists -> Seq(Jobs)] /\ popped' \in [Lists -> Seq(Jobs)]
      /\ ServedInOrder' /\ j \in Range(pushed[l])
      /\ Range(popped'[l]) = Range(popped[l]) \cup {j}
      /\ \A m \in Lists \ {l} : popped'[m] = popped[m]
  BY <1>1, Removing
<1>3. \A m \in Lists : Range(popped[m]) \subseteq Range(popped'[m])
  BY <1>2
<1>4. /\ process' \in [Lists -> Process]
      /\ process'[l].job \in {j, None}
      /\ \A m \in Lists \ {l} : process'[m] = process[m]
  <2> DEFINE s == [at |-> IF l = "video_jobs" THEN "lookup" ELSE "handling", job |-> j]
  <2>1. s \in Process /\ s.job = j /\ Down \in Process /\ Down.job = None
    BY DEF Process, Down
  <2> HIDE DEF s
  <2>2. Becomes(l, s) \/ Becomes(l, Down)
    BY DEF s
  <2> QED
    BY <1>1, <2>1, <2>2, Becoming
<1>5. /\ outcome' \in [Jobs -> {"none", "done", "failed", "lost"}]
      /\ \A i \in Jobs : outcome'[i] = outcome[i] \/ (i = j /\ outcome'[i] = "lost")
  BY <1>1 DEF ListTypeOK
<1>6. ListTypeOK'
  BY <1>1, <1>2, <1>4, <1>5 DEF ListTypeOK, Process
<1>7. CrawlsWhole'
  <2>1. SUFFICES ASSUME NEW i \in Range(popped'["crawl_jobs"]), outcome'[i] = "done"
                 PROVE  products[i] = NumProducts /\ i \notin Texts
    BY DEF CrawlsWhole
  <2>2. popped'["crawl_jobs"] \in Seq(Jobs) /\ "crawl_jobs" \in Lists
    BY <1>2 DEF Lists
  <2>3. i \in Jobs
    BY <2>2 DEF Range
  <2>4. outcome[i] = "done"
    BY <1>5, <2>1, <2>3
  <2>5. PICK m \in Lists : i \in Range(popped[m])
    BY <2>3, <2>4 DEF ListInv, JobsSound
  <2>6. i \in Range(pushed[m])
    BY <1>1, <2>5, PoppedPushed
  <2>7. i \in Range(popped["crawl_jobs"]) \/ (l = "crawl_jobs" /\ i = j)
    BY <1>2, <2>2
  <2>8. i \in Range(popped["crawl_jobs"])
    BY <1>2, <2>5, <2>6, <2>7 DEF ListInv, JobsSound
  <2> QED
    BY <2>4, <2>8 DEF ListInv, CrawlsWhole
<1>8. JobsSound'
  <2>1. \A m \in Lists : process'[m].job # None => process'[m].job \in Range(popped'[m])
    BY <1>2, <1>3, <1>4 DEF ListInv, JobsSound
  <2>2. \A i \in Jobs : outcome'[i] # "none" => \E m \in Lists : i \in Range(popped'[m])
    BY <1>2, <1>3, <1>5 DEF ListInv, JobsSound
  <2> QED
    BY <2>1, <2>2 DEF ListInv, JobsSound
<1> QED
  BY <1>2, <1>6, <1>7, <1>8 DEF ListInv

(* The end of a job, in whatever way.                                      *)
LEMMA EndStep ==
    ASSUME ListInv, NEW l \in Lists, process[l].job # None,
           NEW how \in {"done", "failed", "lost"}, how = "done" => Handled(l),
           Ends(l, how), Becomes(l, Idle) \/ Becomes(l, Down),
           UNCHANGED <<queue, pushed, popped, products>>
    PROVE  ListInv'
<1> DEFINE j == process[l].job
<1>1. ListTypeOK /\ ServedInOrder
  BY DEF ListInv
<1>2. j \in Jobs /\ j \in Range(popped[l])
  BY <1>1, JobHeld DEF ListInv, JobsSound
<1>3. /\ outcome' \in [Jobs -> {"none", "done", "failed", "lost"}]
      /\ outcome'[j] = how /\ \A i \in Jobs \ {j} : outcome'[i] = outcome[i]
  BY <1>1, Ending
<1>4. /\ process' \in [Lists -> Process] /\ process'[l].job = None
      /\ \A m \in Lists \ {l} : process'[m] = process[m]
  <2>1. Idle \in Process /\ Down \in Process /\ Idle.job = None /\ Down.job = None
    BY DEF Process, Idle, Down
  <2> QED
    BY <1>1, <2>1, Becoming
<1>5. ListTypeOK'
  BY <1>1, <1>3, <1>4 DEF ListTypeOK, Process
<1>6. CrawlsWhole'
  <2>1. SUFFICES ASSUME NEW i \in Range(popped["crawl_jobs"]), outcome'[i] = "done"
                 PROVE  products[i] = NumProducts /\ i \notin Texts
    BY DEF CrawlsWhole
  <2>2. popped["crawl_jobs"] \in Seq(Jobs) /\ "crawl_jobs" \in Lists
    BY <1>1 DEF Lists, ListTypeOK
  <2>3. i \in Jobs
    BY <2>2 DEF Range
  <2>4. CASE i # j
    BY <1>3, <2>1, <2>3, <2>4 DEF ListInv, CrawlsWhole
  <2>5. CASE i = j
    <3>1. j \in Range(pushed[l]) /\ j \in Range(pushed["crawl_jobs"])
      BY <1>1, <1>2, <2>2, <2>5, PoppedPushed
    <3>2. l = "crawl_jobs"
      BY <2>2, <3>1 DEF ListInv, JobsSound
    <3>3. Handled(l)
      BY <1>3, <2>1, <2>5
    <3> QED
      BY <2>5, <3>2, <3>3 DEF Handled
  <2> QED
    BY <2>4, <2>5
<1>7. JobsSound'
  <2> HIDE DEF j
  <2>1. \A m \in Lists : process'[m].job # None => process'[m].job \in Range(popped[m])
    BY <1>4 DEF ListInv, JobsSound
  <2>2. \A i \in Jobs : outcome'[i] # "none" => \E m \in Lists : i \in Range(popped[m])
    BY <1>2, <1>3 DEF ListInv, JobsSound
  <2> QED
    BY <2>1, <2>2 DEF ListInv, JobsSound
<1>8. ServedInOrder'
  BY <1>1 DEF ServedInOrder
<1> QED
  BY <1>5, <1>6, <1>7, <1>8 DEF ListInv

(* Steps that only change what a process does with the job it has.         *)
LEMMA KeepStep ==
    ASSUME ListInv, NEW l \in Lists, NEW s \in Process, s.job = process[l].job, Becomes(l, s),
           UNCHANGED <<queue, pushed, popped, outcome, products>>
    PROVE  ListInv'
<1>1. ListTypeOK
  BY DEF ListInv
<1>2. /\ process' \in [Lists -> Process]
      /\ process'[l] = s /\ \A m \in Lists \ {l} : process'[m] = process[m]
  BY <1>1, Becoming
<1>3. \A m \in Lists : process'[m].job = process[m].job
  BY <1>2
<1>4. ListTypeOK'
  BY <1>1, <1>2 DEF ListTypeOK, Process
<1>5. ServedInOrder' /\ CrawlsWhole' /\ JobsSound'
  BY <1>3 DEF ListInv, ServedInOrder, CrawlsWhole, JobsSound
<1> QED
  BY <1>4, <1>5 DEF ListInv

LEMMA StoreProductStep ==
    ASSUME ListInv, NEW l \in Lists, StoreProduct(l) PROVE ListInv'
<1> DEFINE j == process[l].job
<1>1. ListTypeOK
  BY DEF ListInv
<1>2. j \in Jobs /\ j \in Range(popped[l]) /\ l = "crawl_jobs"
  BY <1>1, JobHeld DEF StoreProduct, At, ListInv, JobsSound
<1>3. /\ products[j] < NumProducts /\ products' = [products EXCEPT ![j] = products[j] + 1]
      /\ UNCHANGED <<queue, pushed, popped, process, outcome>>
  BY DEF StoreProduct
<1>4. products[j] + 1 \in 0..NumProducts /\ products[j] # NumProducts
  BY <1>1, <1>2, <1>3, WorkersAssumption DEF ListTypeOK, WorkersAssumption
<1>5. outcome[j] # "done"
  BY <1>2, <1>4 DEF ListInv, CrawlsWhole
<1> HIDE DEF j
<1>6. ListTypeOK'
  BY <1>1, <1>3, <1>4 DEF ListTypeOK
<1>7. CrawlsWhole'
  <2>1. SUFFICES ASSUME NEW i \in Range(popped["crawl_jobs"]), outcome[i] = "done"
                 PROVE  products'[i] = NumProducts /\ i \notin Texts
    BY <1>3 DEF CrawlsWhole
  <2>2. products[i] = NumProducts /\ i \notin Texts /\ i # j
    BY <1>5, <2>1 DEF ListInv, CrawlsWhole
  <2>3. popped["crawl_jobs"] \in Seq(Jobs)
    BY <1>1 DEF Lists, ListTypeOK
  <2>4. i \in Jobs
    BY <2>3 DEF Range
  <2> QED
    BY <1>1, <1>3, <2>2, <2>4 DEF ListTypeOK
<1>8. ServedInOrder' /\ JobsSound'
  BY <1>3 DEF ListInv, ServedInOrder, JobsSound
<1> QED
  BY <1>6, <1>7, <1>8 DEF ListInv

LEMMA ListStep == ListInv /\ ListMoves => ListInv'
<1> SUFFICES ASSUME ListInv, NEW l \in Lists,
                    \/ ListWorker(l) \/ PopFails(l) \/ Abandon(l) \/ Die(l)
                    \/ \E j \in Jobs : Push(l, j)
             PROVE  ListInv'
  BY DEF ListMoves
<1>1. ListTypeOK /\ process[l] \in Process
  BY JobHeld DEF ListInv
<1>2. CASE Pop(l)
  <2>1. PICK j \in Jobs :
          /\ Removed(l, j)
          /\ Becomes(l, [at |-> IF l = "video_jobs" THEN "lookup" ELSE "handling", job |-> j])
    BY <1>2 DEF Pop
  <2>2. UNCHANGED <<pushed, outcome, products>>
    BY <1>2 DEF Pop
  <2> QED
    BY <2>1, <2>2, PopStep
<1>3. CASE Lookup(l)
  <2> DEFINE s == [process[l] EXCEPT !.at = "handling"]
  <2>1. s \in Process /\ s.job = process[l].job
    BY <1>1, <1>3 DEF Lookup, At, Process
  <2>2. Becomes(l, s) /\ UNCHANGED <<queue, pushed, popped, outcome, products>>
    BY <1>3 DEF Lookup
  <2> HIDE DEF s
  <2> QED
    BY <2>1, <2>2, KeepStep
<1>4. CASE StoreProduct(l)
  BY <1>4, StoreProductStep
<1>5. CASE StoreRefused(l)
  <2>1. process[l].job # None
    BY <1>1, <1>5, JobHeld DEF StoreRefused, At
  <2>2. /\ Ends(l, "failed") /\ Becomes(l, Idle)
        /\ UNCHANGED <<queue, pushed, popped, products>>
    BY <1>5 DEF StoreRefused
  <2> QED
    BY <2>1, <2>2, EndStep
<1>6. CASE Finish(l)
  <2>1. process[l].job # None
    BY <1>1, <1>6, JobHeld DEF Finish, At
  <2>2. /\ Ends(l, "done") /\ Becomes(l, Idle) /\ Handled(l)
        /\ UNCHANGED <<queue, pushed, popped, products>>
    BY <1>6 DEF Finish
  <2> QED
    BY <2>1, <2>2, EndStep
<1>7. CASE Restart(l)
  <2>1. process[l].job = None
    BY <1>1, <1>7, JobHeld DEF Restart, At
  <2>2. Idle \in Process /\ Idle.job = None
    BY DEF Idle, Process
  <2>3. Becomes(l, Idle) /\ UNCHANGED <<queue, pushed, popped, outcome, products>>
    BY <1>7 DEF Restart
  <2> QED
    BY <2>1, <2>2, <2>3, KeepStep
<1>8. CASE PopFails(l)
  <2>1. Becomes(l, Down) /\ UNCHANGED <<pushed, products>>
    BY <1>8 DEF PopFails
  <2>2. CASE UNCHANGED <<queue, popped, outcome>>
    <3>1. process[l].job = None
      BY <1>1, <1>8, JobHeld DEF PopFails, At
    <3>2. Down \in Process /\ Down.job = None
      BY DEF Down, Process
    <3> QED
      BY <2>1, <2>2, <3>1, <3>2, KeepStep
  <2>3. CASE \E j \in Jobs : Removed(l, j) /\ outcome' = [outcome EXCEPT ![j] = "lost"]
    BY <2>1, <2>3, PopStep
  <2> QED
    BY <1>8, <2>2, <2>3 DEF PopFails
<1>9. CASE Abandon(l)
  <2>1. process[l].job # None
    BY <1>1, <1>9, JobHeld DEF Abandon, At
  <2>2. /\ Ends(l, "failed") /\ Becomes(l, Idle)
        /\ UNCHANGED <<queue, pushed, popped, products>>
    BY <1>9 DEF Abandon
  <2> QED
    BY <2>1, <2>2, EndStep
<1>10. CASE Die(l)
  <2>1. /\ process[l].job # None /\ Ends(l, "lost") /\ Becomes(l, Down)
        /\ UNCHANGED <<queue, pushed, popped, products>>
    BY <1>10 DEF Die
  <2> QED
    BY <2>1, EndStep
<1>11. CASE \E j \in Jobs : Push(l, j)
  BY <1>11, PushStep
<1> QED
  BY <1>2, <1>3, <1>4, <1>5, <1>6, <1>7, <1>8, <1>9, <1>10, <1>11 DEF ListWorker

-----------------------------------------------------------------------------
(* How many workers a table has, and how many of them have a row.          *)
LEMMA StaffSize ==
    /\ IsFiniteSet(Workers) /\ None \notin Tables
    /\ \A w \in Workers : Serves(w) \in Tables
    /\ Staff(None) = {}
    /\ \A t : IsFiniteSet(Staff(t)) /\ Cardinality(Staff(t)) \in Nat
<1>1. IsFiniteSet(Runs) /\ IsFiniteSet(Loops) /\ None \notin Tables
  <2>1. IsFiniteSet({"uploader"}) /\ IsFiniteSet({"generator"})
    BY FS_Singleton
  <2>2. Loops = {"uploader"} \cup {"generator"}
    BY DEF Loops
  <2>3. IsFiniteSet(Loops)
    BY <2>1, <2>2, FS_Union
  <2> QED
    BY <2>3, WorkersAssumption DEF WorkersAssumption
<1>2. IsFiniteSet(Workers)
  BY <1>1, FS_Union DEF Workers
<1>3. \A w \in Workers : Serves(w) \in Tables
  BY DEF Serves, Tables
<1>4. \A t : Staff(t) \subseteq Workers
  BY DEF Staff
<1> QED
  BY <1>1, <1>2, <1>3, <1>4, FS_Subset, FS_CardinalityType DEF Staff

LEMMA TimesFacts ==
    ASSUME NEW f \in Nat, NEW n \in Nat
    PROVE  /\ Times(f, n) \in Nat /\ Times(f, 0) = 0
           /\ Times(f + 1, n) = Times(f, n) + n
BY DEF Times

LEMMA TimesGrow ==
    ASSUME NEW f \in Nat, NEW g \in Nat, NEW n \in Nat, f <= g
    PROVE  Times(f, n) <= Times(g, n)
BY DEF Times

(* What one element adds to a set's size, or takes from it.                *)
LEMMA OneMore ==
    ASSUME NEW A, NEW w, IsFiniteSet(A), w \notin A
    PROVE  /\ IsFiniteSet(A \cup {w}) /\ Cardinality(A) \in Nat
           /\ Cardinality(A \cup {w}) = Cardinality(A) + 1
<1>1. Cardinality(A \cup {w}) = IF w \in A THEN Cardinality(A) ELSE Cardinality(A) + 1
  BY FS_AddElement
<1>2. IsFiniteSet(A \cup {w})
  BY FS_AddElement
<1>3. Cardinality(A) \in Nat
  BY FS_CardinalityType
<1> QED
  BY <1>1, <1>2, <1>3

(* The workers at a row are of its table's staff, and each is making or    *)
(* marking it.                                                             *)
LEMMA AtRow ==
    ASSUME RowTypeOK, WorkersSound, NEW r \in Rows
    PROVE  /\ IsFiniteSet(Making(r)) /\ IsFiniteSet(Marking(r))
           /\ Cardinality(Making(r)) \in Nat /\ Cardinality(Marking(r)) \in Nat
           /\ Size(r) \in Nat
           /\ Cardinality(Making(r)) + Cardinality(Marking(r)) <= Size(r)
           /\ \A w \in Making(r) \cup Marking(r) : Serves(w) = table[r]
<1>1. Making(r) \subseteq Staff(table[r]) /\ Marking(r) \subseteq Staff(table[r])
  BY DEF WorkersSound, Making, Marking, Staff
<1>2. Making(r) \cap Marking(r) = {}
  BY DEF Making, Marking
<1>3. IsFiniteSet(Staff(table[r])) /\ Size(r) \in Nat
  BY StaffSize DEF Size
<1>4. IsFiniteSet(Making(r)) /\ IsFiniteSet(Marking(r))
  BY <1>1, <1>3, FS_Subset
<1>5. Cardinality(Making(r)) \in Nat /\ Cardinality(Marking(r)) \in Nat
  BY <1>4, FS_CardinalityType
<1> DEFINE U == Making(r) \cup Marking(r)
           c == Cardinality(Making(r))
           d == Cardinality(Marking(r))
<1>6. IsFiniteSet(U) /\ Cardinality(U) = c + d
  <2>1. IsFiniteSet(U) /\ Cardinality(U) = c + d - Cardinality(Making(r) \cap Marking(r))
    BY <1>4, FS_Union
  <2>2. Cardinality(Making(r) \cap Marking(r)) = 0
    BY <1>2, FS_EmptySet
  <2> QED
    BY <1>5, <2>1, <2>2
<1>7. Cardinality(U) <= Size(r)
  BY <1>1, <1>3, FS_Subset DEF Size
<1>8. \A w \in U : Serves(w) = table[r]
  BY <1>1 DEF Staff
<1> HIDE DEF U, c, d
<1>9. c + d <= Size(r)
  BY <1>6, <1>7
<1> QED
  BY <1>3, <1>4, <1>5, <1>8, <1>9 DEF U, c, d

-----------------------------------------------------------------------------
(* The rows.  What a worker does to its row, in seven ways.                *)
Post == [at : {"idle"}, row : {None}] \cup [at : {"upload", "voice", "render", "mark"}, row : Rows]

Work == {"upload", "voice", "render"}

Takes(w, r) ==
    /\ workers[w].at = "idle" /\ workers'[w].row = r /\ workers'[w].at \in Work
    /\ status[r] = "pending" /\ table[r] = Serves(w)
    /\ workers'[w].at = IF w = "generator" THEN "voice" ELSE "upload"
    /\ UNCHANGED <<made, status, faults>>

Makes(w, r) ==
    /\ workers[w].at \in {"upload", "render"} /\ workers'[w] = [at |-> "mark", row |-> r]
    /\ made' = [made EXCEPT ![r] = made[r] + 1] /\ UNCHANGED <<status, faults>>

Voices(w, r) ==
    /\ workers[w].at = "voice" /\ workers'[w] = [at |-> "render", row |-> r]
    /\ UNCHANGED <<made, status, faults>>

GivesUp(w, r) ==
    /\ workers[w].at \in Work /\ workers'[w] = Free
    /\ UNCHANGED <<made, status>> /\ (UNCHANGED faults \/ Fault)

MakesAndFails(w, r) ==
    /\ workers[w].at \in Work /\ workers'[w] = Free
    /\ made' = [made EXCEPT ![r] = made[r] + 1] /\ UNCHANGED status /\ Fault

Marks(w, r) ==
    /\ workers[w].at = "mark" /\ workers'[w] = Free
    /\ status' = [status EXCEPT ![r] = "done"] /\ UNCHANGED made
    /\ (UNCHANGED faults \/ Fault)

LosesMark(w, r) ==
    /\ workers[w].at = "mark" /\ workers'[w] = Free
    /\ UNCHANGED <<made, status>> /\ Fault

Acts(w, r) ==
    /\ workers' \in [Workers -> Post] /\ \A x \in Workers \ {w} : workers'[x] = workers[x]
    /\ workers[w].at # "idle" => workers[w].row = r
    /\ table' = table
    /\ \/ Takes(w, r) \/ Makes(w, r) \/ Voices(w, r) \/ GivesUp(w, r)
       \/ MakesAndFails(w, r) \/ Marks(w, r) \/ LosesMark(w, r)

LEMMA RowHeld ==
    ASSUME RowTypeOK, NEW w \in Workers
    PROVE  /\ workers[w] \in Post
           /\ workers[w].at # "idle" => workers[w].row \in Rows
           /\ workers[w].at = "idle" => workers[w].row = None
BY DEF RowTypeOK, Post

LEMMA Going ==
    ASSUME RowTypeOK, NEW w \in Workers, workers[w].at # "idle",
           NEW step \in {"render", "mark"}, Goes(w, step)
    PROVE  /\ workers' \in [Workers -> Post] /\ \A x \in Workers \ {w} : workers'[x] = workers[x]
           /\ workers'[w] = [at |-> step, row |-> workers[w].row]
<1>1. workers[w].row \in Rows /\ workers[w] \in Post
  BY RowHeld
<1> DEFINE s == [workers[w] EXCEPT !.at = step]
<1>2. s = [at |-> step, row |-> workers[w].row] /\ s \in Post
  BY <1>1 DEF Post
<1>3. workers' = [workers EXCEPT ![w] = s]
  BY DEF Goes, RowTypeOK
<1> HIDE DEF s
<1> QED
  BY <1>2, <1>3 DEF RowTypeOK, Post

LEMMA Leaving ==
    ASSUME RowTypeOK, NEW w \in Workers, Leaves(w)
    PROVE  /\ workers' \in [Workers -> Post] /\ \A x \in Workers \ {w} : workers'[x] = workers[x]
           /\ workers'[w] = Free
BY DEF RowTypeOK, Post, Leaves, Free

LEMMA WorkersAct ==
    ASSUME RowTypeOK, NEW w \in Workers,
           \/ RowWorker(w) \/ WorkerFails(w)
           \/ GenerateFails /\ Leaves(w) /\ workers[w].at \in {"voice", "render"}
    PROVE  \E r \in Rows : Acts(w, r)
<1>1. workers[w] \in Post /\ (workers[w].at # "idle" => workers[w].row \in Rows)
  BY RowHeld
<1>2. CASE Select(w)
  <2>1. PICK r \in PendingOf(w) :
          workers' = [workers EXCEPT ![w] =
              [at |-> IF w = "generator" THEN "voice" ELSE "upload", row |-> r]]
    BY <1>2 DEF Select
  <2>2. r \in Rows /\ table[r] = Serves(w) /\ status[r] = "pending"
    BY DEF PendingOf
  <2> DEFINE s == [at |-> IF w = "generator" THEN "voice" ELSE "upload", row |-> r]
  <2>3. s \in Post /\ s.row = r /\ s.at \in Work /\ s.at = IF w = "generator" THEN "voice" ELSE "upload"
    BY <2>2 DEF Post, Work
  <2> HIDE DEF s
  <2>4. workers' = [workers EXCEPT ![w] = s]
    BY <2>1 DEF s
  <2>5. workers' \in [Workers -> Post] /\ workers'[w] = s
        /\ \A x \in Workers \ {w} : workers'[x] = workers[x]
    BY <2>3, <2>4 DEF RowTypeOK, Post
  <2>6. workers[w].at = "idle" /\ UNCHANGED <<made, status, faults>> /\ table' = table
    BY <1>2 DEF Select, Iterates, In
  <2>7. Takes(w, r)
    BY <2>2, <2>3, <2>5, <2>6 DEF Takes
  <2> QED
    BY <2>2, <2>5, <2>6, <2>7 DEF Acts
<1> DEFINE r == workers[w].row
<1>3. CASE Upload(w) \/ Render(w)
  <2>1. /\ workers[w].at \in {"upload", "render"} /\ Goes(w, "mark") /\ table' = table
        /\ made' = [made EXCEPT ![r] = made[r] + 1] /\ UNCHANGED <<status, faults>>
    BY <1>3 DEF Upload, Render, In, Row
  <2>2. r \in Rows
    BY <1>1, <2>1
  <2> HIDE DEF r
  <2>3. Makes(w, r) /\ Acts(w, r)
    BY <2>1, Going DEF Makes, Acts, r
  <2> QED
    BY <2>2, <2>3
<1>4. CASE WriteVoice(w)
  <2>1. /\ workers[w].at = "voice" /\ Goes(w, "render") /\ table' = table
        /\ UNCHANGED <<made, status, faults>>
    BY <1>4 DEF WriteVoice, In
  <2>2. r \in Rows
    BY <1>1, <2>1
  <2>3. Voices(w, r) /\ Acts(w, r)
    BY <2>1, Going DEF Voices, Acts
  <2> QED
    BY <2>2, <2>3
<1>5. CASE Mark(w)
  <2>1. /\ workers[w].at = "mark" /\ Leaves(w) /\ table' = table
        /\ status' = [status EXCEPT ![r] = "done"] /\ UNCHANGED <<made, faults>>
    BY <1>5 DEF Mark, In, Row
  <2>2. r \in Rows
    BY <1>1, <2>1
  <2>3. Marks(w, r) /\ Acts(w, r)
    BY <2>1, Leaving DEF Marks, Acts
  <2> QED
    BY <2>2, <2>3
<1>6. CASE GenerateFails /\ Leaves(w) /\ workers[w].at \in {"voice", "render"}
  <2>1. table' = table /\ UNCHANGED <<made, status, faults>>
    BY <1>6 DEF GenerateFails
  <2>2. r \in Rows
    BY <1>1, <1>6
  <2>3. GivesUp(w, r) /\ Acts(w, r)
    BY <1>6, <2>1, Leaving DEF GivesUp, Acts, Work
  <2> QED
    BY <2>2, <2>3
<1>7. CASE WorkerFails(w)
  <2>1. /\ workers[w].at # "idle" /\ Fault /\ Leaves(w) /\ table' = table
        /\ \/ UNCHANGED <<status, made>>
           \/ /\ workers[w].at \in {"upload", "render"} /\ UNCHANGED status
              /\ made' = [made EXCEPT ![r] = made[r] + 1]
           \/ /\ workers[w].at = "mark" /\ UNCHANGED made
              /\ status' = [status EXCEPT ![r] = "done"]
    BY <1>7 DEF WorkerFails, In, Row
  <2>2. r \in Rows /\ workers[w].at \in Work \cup {"mark"}
    BY <1>1, <2>1 DEF Post, Work
  <2>3. GivesUp(w, r) \/ MakesAndFails(w, r) \/ Marks(w, r) \/ LosesMark(w, r)
    BY <2>1, <2>2, Leaving DEF GivesUp, MakesAndFails, Marks, LosesMark, Work
  <2>4. Acts(w, r)
    BY <2>1, <2>3, Leaving DEF Acts
  <2> QED
    BY <2>2, <2>4
<1> QED
  BY <1>2, <1>3, <1>4, <1>5, <1>6, <1>7 DEF RowWorker

LEMMA Counting ==
    ASSUME NEW A, NEW B, NEW w, IsFiniteSet(A), A \ {w} = B \ {w}
    PROVE  /\ IsFiniteSet(B) /\ Cardinality(A) \in Nat /\ Cardinality(B) \in Nat
           /\ (w \in A <=> w \in B) => Cardinality(B) = Cardinality(A)
           /\ w \in A /\ w \notin B => Cardinality(A) = Cardinality(B) + 1
           /\ w \notin A /\ w \in B => Cardinality(B) = Cardinality(A) + 1
<1> DEFINE C == A \ {w}
<1>1. IsFiniteSet(C) /\ w \notin C
  BY FS_Subset
<1>2. /\ IsFiniteSet(C \cup {w}) /\ Cardinality(C) \in Nat
      /\ Cardinality(C \cup {w}) = Cardinality(C) + 1
  BY <1>1, OneMore
<1>3. A \in {C, C \cup {w}} /\ B \in {C, C \cup {w}}
  OBVIOUS
<1>4. (w \in A <=> A = C \cup {w}) /\ (w \in B <=> B = C \cup {w})
      /\ (w \notin A <=> A = C) /\ (w \notin B <=> B = C)
  BY <1>1, <1>3
<1>5. IsFiniteSet(B)
  BY <1>1, <1>2, <1>3
<1>6. /\ Cardinality(A) = IF w \in A THEN Cardinality(C) + 1 ELSE Cardinality(C)
      /\ Cardinality(B) = IF w \in B THEN Cardinality(C) + 1 ELSE Cardinality(C)
  <2> HIDE DEF C
  <2> QED
    BY <1>2, <1>4
<1> DEFINE k == Cardinality(C)
           a == Cardinality(A)
           b == Cardinality(B)
<1>7. k \in Nat /\ a \in {k, k + 1} /\ b \in {k, k + 1}
  BY <1>2, <1>6
<1> HIDE DEF C, k, a, b
<1>8. a \in Nat /\ b \in Nat
  BY <1>7
<1> QED
  BY <1>5, <1>6, <1>8 DEF k, a, b

(* An act leaves the workers at other rows where they were.                *)
LEMMA Elsewhere ==
    ASSUME RowTypeOK, NEW w \in Workers, NEW r \in Rows, Acts(w, r), NEW s \in Rows
    PROVE  /\ Making(s) \ {w} = Making(s)' \ {w} /\ Marking(s) \ {w} = Marking(s)' \ {w}
           /\ s # r => /\ Making(s)' = Making(s) /\ Marking(s)' = Marking(s)
                       /\ made'[s] = made[s] /\ status'[s] = status[s]
<1>1. /\ \A x \in Workers \ {w} : workers'[x] = workers[x]
      /\ workers[w].at # "idle" => workers[w].row = r
      /\ workers[w].at = "idle" => workers[w].row = None
      /\ workers'[w].row \in {r, None}
  BY RowHeld DEF Acts, Takes, Makes, Voices, GivesUp, MakesAndFails, Marks, LosesMark, Free
<1>2. Making(s) \ {w} = Making(s)' \ {w} /\ Marking(s) \ {w} = Marking(s)' \ {w}
  BY <1>1 DEF Making, Marking
<1>3. s # None
  BY WorkersAssumption DEF WorkersAssumption
<1>4. s # r => w \notin Making(s) \cup Making(s)' \cup Marking(s) \cup Marking(s)'
  BY <1>1, <1>3 DEF Making, Marking
<1>5. s # r => made'[s] = made[s] /\ status'[s] = status[s]
  BY DEF Acts, Takes, Makes, Voices, GivesUp, MakesAndFails, Marks, LosesMark, RowTypeOK
<1> QED
  BY <1>2, <1>4, <1>5

LEMMA ActSound ==
    ASSUME RowTypeOK, VideosExist, WorkersSound, NEW w \in Workers, NEW r \in Rows, Acts(w, r)
    PROVE  /\ made' \in [Rows -> Nat] /\ status' \in [Rows -> {"pending", "done"}]
           /\ VideosExist' /\ WorkersSound'
<1>1. made \in [Rows -> Nat] /\ status \in [Rows -> {"pending", "done"}]
  BY DEF RowTypeOK
<1>2. made' = made \/ made' = [made EXCEPT ![r] = made[r] + 1]
  BY DEF Acts, Takes, Makes, Voices, GivesUp, MakesAndFails, Marks, LosesMark
<1>3. made' \in [Rows -> Nat] /\ \A s \in Rows : made'[s] >= made[s]
  BY <1>1, <1>2
<1>4. status' = status \/ (workers[w].at = "mark" /\ status' = [status EXCEPT ![r] = "done"])
  BY DEF Acts, Takes, Makes, Voices, GivesUp, MakesAndFails, Marks, LosesMark
<1>5. status' \in [Rows -> {"pending", "done"}]
  BY <1>1, <1>4
<1>6. VideosExist'
  <2>1. ASSUME NEW s \in Rows, status'[s] = "done" PROVE made[s] > 0
    <3>1. CASE status[s] = "done"
      BY <3>1 DEF VideosExist
    <3>2. CASE s = r /\ workers[w].at = "mark"
      BY <3>2 DEF WorkersSound, Acts
    <3> QED
      BY <1>1, <1>4, <2>1, <3>1, <3>2
  <2>2. ASSUME NEW s \in Rows, status'[s] = "done" PROVE made'[s] > 0
    BY <1>1, <1>3, <2>1, <2>2
  <2> QED
    BY <2>2 DEF VideosExist
<1>7. WorkersSound'
  <2>1. SUFFICES ASSUME NEW x \in Workers, workers'[x].at # "idle"
                 PROVE  /\ table[workers'[x].row] = Serves(x)
                        /\ workers'[x].at = "upload" => x # "generator"
                        /\ workers'[x].at \in {"voice", "render"} => x = "generator"
                        /\ workers'[x].at = "mark" => made'[workers'[x].row] > 0
    BY DEF WorkersSound, Acts
  <2>2. CASE x # w
    <3>1. workers'[x] = workers[x] /\ workers[x].row \in Rows
      BY <2>1, <2>2, RowHeld DEF Acts
    <3>2. workers'[x].at = "mark" => made'[workers'[x].row] > 0
      BY <1>1, <1>3, <2>1, <3>1 DEF WorkersSound
    <3> QED
      BY <2>1, <3>1, <3>2 DEF WorkersSound
  <2>3. CASE x = w
    <3>1. Takes(w, r) \/ Makes(w, r) \/ Voices(w, r)
      BY <2>1, <2>3 DEF Acts, GivesUp, MakesAndFails, Marks, LosesMark, Free
    <3>2. CASE Takes(w, r)
      BY <2>3, <3>2 DEF Takes
    <3>3. CASE Makes(w, r)
      <4>1. /\ workers[w].row = r /\ table[r] = Serves(w)
            /\ workers'[w].at = "mark" /\ workers'[w].row = r
        BY <3>3 DEF Makes, Acts, WorkersSound
      <4>2. made'[r] > 0
        BY <1>1, <3>3 DEF Makes
      <4> QED
        BY <2>3, <4>1, <4>2
    <3>4. CASE Voices(w, r)
      BY <2>3, <3>4 DEF Voices, Acts, WorkersSound
    <3> QED
      BY <3>1, <3>2, <3>3, <3>4
  <2> QED
    BY <2>2, <2>3
<1> QED
  BY <1>3, <1>5, <1>6, <1>7

(* Rows nothing happens to keep their account, whatever faults there were. *)
LEMMA QuietAccount ==
    ASSUME faults \in Nat, faults' \in Nat, faults <= faults', RowTypeOK, WorkersSound,
           NEW r \in Rows, Account(r), table'[r] = table[r],
           made'[r] = made[r], status'[r] = status[r],
           Making(r)' = Making(r), Marking(r)' = Marking(r)
    PROVE  Account(r)'
<1> DEFINE n == Size(r)
           a == Cardinality(Making(r))
           b == Cardinality(Marking(r))
<1>1. n \in Nat /\ a \in Nat /\ b \in Nat /\ made[r] \in Nat
  BY AtRow DEF RowTypeOK
<1>2. Size(r)' = n /\ Cardinality(Making(r))' = a /\ Cardinality(Marking(r))' = b
  BY DEF Size
<1>3. /\ status[r] = "pending" => made[r] <= Times(faults, n) + b
      /\ status[r] = "done" => made[r] + a <= Times(faults, n) + n
  BY DEF Account
<1> HIDE DEF n, a, b
<1>4. Times(faults, n) <= Times(faults', n) /\ Times(faults, n) \in Nat /\ Times(faults', n) \in Nat
  BY <1>1, TimesFacts, TimesGrow
<1>5. /\ status[r] = "pending" => made[r] <= Times(faults', n) + b
      /\ status[r] = "done" => made[r] + a <= Times(faults', n) + n
  BY <1>1, <1>3, <1>4
<1> QED
  BY <1>2, <1>5 DEF Account

LEMMA ActAccount ==
    ASSUME faults \in Nat, faults' \in Nat, RowTypeOK, WorkersSound,
           NEW w \in Workers, NEW r \in Rows, Account(r), Acts(w, r)
    PROVE  Account(r)'
<1> DEFINE n == Size(r)
           a == Cardinality(Making(r))
           b == Cardinality(Marking(r))
           c == Cardinality(Making(r)')
           d == Cardinality(Marking(r)')
           m == made[r]
           q == made'[r]
           t == Times(faults, n)
           u == Times(faults', n)
<1>1. n \in Nat /\ a \in Nat /\ b \in Nat /\ m \in Nat /\ a + b <= n
  BY AtRow DEF RowTypeOK
<1>2. Size(r)' = n
  BY DEF Size, Acts
<1>3. /\ status[r] = "pending" => m <= t + b
      /\ status[r] = "done" => m + a <= t + n
  BY DEF Account
<1>4. /\ c \in Nat /\ d \in Nat
      /\ (w \in Making(r) <=> w \in Making(r)') => c = a
      /\ w \in Making(r) /\ w \notin Making(r)' => a = c + 1
      /\ w \notin Making(r) /\ w \in Making(r)' => c = a + 1
      /\ (w \in Marking(r) <=> w \in Marking(r)') => d = b
      /\ w \in Marking(r) /\ w \notin Marking(r)' => b = d + 1
      /\ w \notin Marking(r) /\ w \in Marking(r)' => d = b + 1
  <2>1. IsFiniteSet(Making(r)) /\ IsFiniteSet(Marking(r))
    BY AtRow
  <2>2. Making(r) \ {w} = Making(r)' \ {w} /\ Marking(r) \ {w} = Marking(r)' \ {w}
    BY Elsewhere
  <2> QED
    BY <2>1, <2>2, Counting
<1>5. t \in Nat /\ (UNCHANGED faults => u = t) /\ (Fault => u = t + n)
  <2> HIDE DEF n
  <2>1. t \in Nat /\ Times(faults + 1, n) = t + n
    BY <1>1, TimesFacts
  <2> QED
    BY <2>1 DEF Fault
<1>6. status[r] \in {"pending", "done"}
  BY DEF RowTypeOK
<1>7. r # None /\ (workers[w].at = "idle" => workers[w].row # r)
  BY RowHeld, WorkersAssumption DEF WorkersAssumption
<1>8. SUFFICES /\ status'[r] = "pending" => q <= u + d
               /\ status'[r] = "done" => q + c <= u + n
  BY <1>2 DEF Account
<1>9. CASE Takes(w, r)
  <2>1. c = a + 1 /\ d = b /\ q = m /\ status'[r] = "pending" /\ status[r] = "pending" /\ u = t
    <3>1. w \notin Making(r) /\ w \in Making(r)' /\ w \notin Marking(r) /\ w \notin Marking(r)'
      BY <1>7, <1>9 DEF Takes, Making, Marking, Work
    <3> QED
      BY <1>4, <1>5, <1>9, <3>1 DEF Takes
  <2> HIDE DEF a, b, c, d, m, q, n, t, u
  <2> QED
    BY <1>1, <1>3, <1>5, <2>1
<1>10. CASE Makes(w, r)
  <2>1. a = c + 1 /\ d = b + 1 /\ q = m + 1 /\ status'[r] = status[r] /\ u = t
    <3>1. w \in Making(r) /\ w \notin Making(r)' /\ w \notin Marking(r) /\ w \in Marking(r)'
      BY <1>10 DEF Makes, Making, Marking, Acts
    <3>2. q = m + 1
      BY <1>10 DEF Makes, RowTypeOK
    <3> QED
      BY <1>4, <1>5, <1>10, <3>1, <3>2 DEF Makes
  <2> HIDE DEF a, b, c, d, m, q, n, t, u
  <2> QED
    BY <1>1, <1>3, <1>4, <1>5, <2>1
<1>11. CASE Voices(w, r)
  <2>1. c = a /\ d = b /\ q = m /\ status'[r] = status[r] /\ u = t
    <3>1. w \in Making(r) /\ w \in Making(r)' /\ w \notin Marking(r) /\ w \notin Marking(r)'
      BY <1>11 DEF Voices, Making, Marking, Acts
    <3> QED
      BY <1>4, <1>5, <1>11, <3>1 DEF Voices
  <2> HIDE DEF a, b, c, d, m, q, n, t, u
  <2> QED
    BY <1>1, <1>3, <1>5, <2>1
<1>12. CASE GivesUp(w, r) \/ MakesAndFails(w, r)
  <2>1. a = c + 1 /\ d = b /\ status'[r] = status[r]
    <3>1. w \in Making(r) /\ w \notin Making(r)' /\ w \notin Marking(r) /\ w \notin Marking(r)'
      BY <1>7, <1>12 DEF GivesUp, MakesAndFails, Making, Marking, Acts, Free, Work
    <3> QED
      BY <1>4, <1>12, <3>1 DEF GivesUp, MakesAndFails
  <2>2. (q = m /\ u \in {t, t + n}) \/ (q = m + 1 /\ u = t + n)
    <3>1. q = m \/ q = m + 1
      BY <1>12 DEF GivesUp, MakesAndFails, RowTypeOK
    <3> QED
      BY <1>5, <1>12, <3>1 DEF GivesUp, MakesAndFails, RowTypeOK
  <2> HIDE DEF a, b, c, d, m, q, n, t, u
  <2> QED
    BY <1>1, <1>3, <1>4, <1>5, <1>6, <2>1, <2>2
<1>13. CASE Marks(w, r)
  <2>1. c = a /\ b = d + 1 /\ q = m /\ status'[r] = "done" /\ u \in {t, t + n}
    <3>1. w \notin Making(r) /\ w \notin Making(r)' /\ w \in Marking(r) /\ w \notin Marking(r)'
      BY <1>7, <1>13 DEF Marks, Making, Marking, Acts, Free
    <3> QED
      BY <1>4, <1>5, <1>13, <3>1 DEF Marks, RowTypeOK
  <2> HIDE DEF a, b, c, d, m, q, n, t, u
  <2> QED
    BY <1>1, <1>3, <1>5, <1>6, <2>1
<1>14. CASE LosesMark(w, r)
  <2>1. c = a /\ b = d + 1 /\ q = m /\ status'[r] = status[r] /\ u = t + n
    <3>1. w \notin Making(r) /\ w \notin Making(r)' /\ w \in Marking(r) /\ w \notin Marking(r)'
      BY <1>7, <1>14 DEF LosesMark, Making, Marking, Acts, Free
    <3> QED
      BY <1>4, <1>5, <1>14, <3>1 DEF LosesMark
  <2> HIDE DEF a, b, c, d, m, q, n, t, u
  <2> QED
    BY <1>1, <1>3, <1>4, <1>5, <2>1
<1> QED
  BY <1>9, <1>10, <1>11, <1>12, <1>13, <1>14 DEF Acts

(* The workers of a table stop together: what each may have made costs the *)
(* fault.                                                                  *)
LEMMA DeathStep ==
    ASSUME faults \in Nat, RowTypeOK, VideosExist, WorkersSound, Accounts,
           NEW t \in Tables, ProcessDies(t)
    PROVE  workers' \in [Workers -> Post] /\ VideosExist' /\ WorkersSound' /\ Accounts'
<1>1. /\ workers' = [w \in Workers |-> IF Serves(w) = t THEN Free ELSE workers[w]]
      /\ faults' = faults + 1 /\ UNCHANGED <<table, status, made>>
  BY DEF ProcessDies, Fault
<1>2. \A w \in Workers : workers'[w] = IF Serves(w) = t THEN Free ELSE workers[w]
  BY <1>1
<1>3. workers' \in [Workers -> Post]
  <2>1. Free \in Post /\ \A w \in Workers : workers[w] \in Post
    BY RowHeld DEF Free, Post
  <2> QED
    BY <1>1, <2>1
<1>4. VideosExist' /\ WorkersSound'
  BY <1>1, <1>2 DEF VideosExist, WorkersSound, Free
<1>5. ASSUME NEW r \in Rows, table[r] # t PROVE Account(r)'
  <2>1. \A w \in Making(r) \cup Marking(r) : Serves(w) # t
    BY <1>5, AtRow
  <2>2. r # None
    BY WorkersAssumption DEF WorkersAssumption
  <2>3. Making(r)' = Making(r) /\ Marking(r)' = Marking(r)
    BY <1>2, <2>1, <2>2 DEF Making, Marking, Free
  <2>4. Account(r) /\ faults' \in Nat /\ faults <= faults'
    BY <1>1 DEF Accounts
  <2> QED
    BY <1>1, <2>3, <2>4, QuietAccount
<1>6. ASSUME NEW r \in Rows, table[r] = t PROVE Account(r)'
  <2> DEFINE n == Size(r)
             a == Cardinality(Making(r))
             b == Cardinality(Marking(r))
             m == made[r]
             k == Times(faults, n)
             u == Times(faults', n)
  <2>1. n \in Nat /\ a \in Nat /\ b \in Nat /\ m \in Nat /\ a + b <= n
    BY AtRow DEF RowTypeOK
  <2>2. /\ status[r] = "pending" => m <= k + b
        /\ status[r] = "done" => m + a <= k + n
    BY DEF Accounts, Account
  <2>3. k \in Nat /\ u = k + n
    <3> HIDE DEF n
    <3> QED
      BY <1>1, <2>1, TimesFacts
  <2>4. Making(r)' = {} /\ Marking(r)' = {}
    <3>1. \A w \in Workers : workers'[w].row = r => Serves(w) # t
      BY <1>2, WorkersAssumption DEF WorkersAssumption, Free
    <3>2. \A w \in Workers : workers'[w].row = r => workers'[w] = workers[w]
      BY <1>2, <3>1
    <3>3. \A w \in Workers : workers[w].row = r => Serves(w) = t
      BY <1>6, RowHeld, WorkersAssumption DEF WorkersSound, WorkersAssumption
    <3> QED
      BY <3>1, <3>2, <3>3 DEF Making, Marking
  <2>5. Cardinality(Making(r)') = 0 /\ Cardinality(Marking(r)') = 0
    BY <2>4, FS_EmptySet
  <2>6. Size(r)' = n /\ UNCHANGED <<made, status>>
    BY <1>1 DEF Size
  <2>7. /\ status[r] = "pending" => m <= u + 0
        /\ status[r] = "done" => m + 0 <= u + n
    <3> HIDE DEF n, a, b, m, k, u
    <3> QED
      BY <2>1, <2>2, <2>3
  <2> QED
    BY <2>5, <2>6, <2>7 DEF Account
<1>7. Accounts'
  BY <1>5, <1>6 DEF Accounts
<1> QED
  BY <1>3, <1>4, <1>7

(* A row that is in no table yet has no video and no worker.               *)
LEMMA InsertStep ==
    ASSUME faults \in Nat, RowTypeOK, VideosExist, WorkersSound, Accounts,
           NEW r \in Rows, NEW t \in Tables, Insert(r, t)
    PROVE  VideosExist' /\ WorkersSound' /\ Accounts'
<1>1. /\ table[r] = None /\ table' = [table EXCEPT ![r] = t]
      /\ UNCHANGED <<status, made, workers, faults>>
  BY DEF Insert
<1>2. ASSUME NEW s \in Rows, s # r PROVE Account(s)'
  <2>1. Making(s)' = Making(s) /\ Marking(s)' = Marking(s) /\ Account(s) /\ table'[s] = table[s]
    BY <1>1, <1>2 DEF Making, Marking, Accounts, RowTypeOK
  <2> QED
    BY <1>1, <2>1, QuietAccount
<1>3. \A w \in Workers : workers[w].at # "idle" => workers[w].row # r
  BY <1>1, StaffSize DEF WorkersSound
<1>4. Account(r)'
  <2>1. Making(r) = {} /\ Marking(r) = {}
    BY <1>3 DEF Making, Marking
  <2>2. Cardinality(Making(r)) = 0 /\ Cardinality(Marking(r)) = 0
    BY <2>1, FS_EmptySet
  <2>3. Size(r) = 0 /\ Times(faults, 0) = 0
    BY <1>1, StaffSize, FS_EmptySet, TimesFacts DEF Size
  <2>4. made[r] \in Nat /\ status[r] \in {"pending", "done"}
    BY DEF RowTypeOK
  <2>5. status[r] = "pending" => made[r] = 0
    BY <2>2, <2>3, <2>4 DEF Accounts, Account
  <2>6. status[r] # "done"
    BY <2>2, <2>3, <2>4 DEF Accounts, Account, VideosExist
  <2>7. Making(r)' = {} /\ Marking(r)' = {}
    BY <1>1, <2>1 DEF Making, Marking
  <2> DEFINE n == Size(r)'
             b == Cardinality(Marking(r)')
             k == Times(faults, n)
  <2>8. n \in Nat /\ b = 0
    BY <2>7, StaffSize, FS_EmptySet DEF Size
  <2>9. k \in Nat
    <3> HIDE DEF n
    <3> QED
      BY <2>8, TimesFacts
  <2>10. 0 <= k + b
    <3> HIDE DEF k, b
    <3> QED
      BY <2>8, <2>9
  <2> QED
    BY <1>1, <2>4, <2>5, <2>6, <2>10 DEF Account
<1>5. VideosExist'
  BY <1>1 DEF VideosExist
<1>6. WorkersSound'
  <2>1. SUFFICES ASSUME NEW w \in Workers, workers[w].at # "idle"
                 PROVE  table'[workers[w].row] = Serves(w)
    BY <1>1 DEF WorkersSound
  <2>2. workers[w].row \in Rows \ {r}
    BY <1>3, <2>1, RowHeld
  <2> QED
    BY <1>1, <2>1, <2>2 DEF WorkersSound, RowTypeOK
<1> QED
  BY <1>2, <1>4, <1>5, <1>6 DEF Accounts

(* The rows' columns that no account is about.                             *)
LEMMA RowTypes ==
    ASSUME RowTypeOK, [Next]_vars
    PROVE  /\ table' \in [Rows -> Tables \cup {None}]
           /\ voice' \subseteq Rows /\ voiceHere' \in BOOLEAN
           /\ left' \in [Runs -> 0..Iterations] /\ runs' \in 0..MaxRuns
<1>1. /\ table \in [Rows -> Tables \cup {None}] /\ voice \subseteq Rows /\ voiceHere \in BOOLEAN
      /\ left \in [Runs -> 0..Iterations] /\ runs \in 0..MaxRuns
      /\ Iterations \in Nat /\ MaxRuns \in Nat
  BY WorkersAssumption DEF RowTypeOK, WorkersAssumption
<1>2. UNCHANGED rowVars => UNCHANGED <<table, voice, voiceHere, left, runs>>
  BY DEF rowVars
<1>3. ASSUME NEW w \in Workers, Iterates(w) PROVE left' \in [Runs -> 0..Iterations]
  <2>1. CASE w \in Runs
    <3>1. left[w] - 1 \in 0..Iterations
      BY <1>1, <1>3, <2>1 DEF Iterates
    <3>2. left' = [left EXCEPT ![w] = left[w] - 1]
      BY <1>3, <2>1 DEF Iterates
    <3> QED
      BY <1>1, <3>1, <3>2
  <2>2. CASE w \notin Runs
    BY <1>1, <1>3, <2>2 DEF Iterates
  <2> QED
    BY <2>1, <2>2
<1>4. ASSUME NEW w \in Workers, RowWorker(w)
      PROVE  /\ UNCHANGED <<table, voiceHere, runs>> /\ left' \in [Runs -> 0..Iterations]
             /\ voice' = voice \/ (voice' = voice \cup {workers[w].row} /\ workers[w].at = "voice")
  BY <1>1, <1>3, <1>4 DEF RowWorker, Select, Upload, WriteVoice, Render, Mark, Row, In
<1>5. ASSUME NEW w \in Workers, WorkerFails(w)
      PROVE  /\ UNCHANGED <<table, voiceHere, runs, left>>
             /\ voice' = voice \/ (voice' = voice \cup {workers[w].row} /\ workers[w].at = "voice")
  BY <1>5 DEF WorkerFails, Row, In
<1>6. ASSUME NEW w \in Workers,
             voice' = voice \/ (voice' = voice \cup {workers[w].row} /\ workers[w].at = "voice")
      PROVE  voice' \subseteq Rows
  BY <1>1, <1>6, RowHeld
<1>7. ASSUME NEW w \in Workers, SelectNothing(w)
      PROVE  UNCHANGED <<table, voice, voiceHere, runs>> /\ left' \in [Runs -> 0..Iterations]
  BY <1>3, <1>7 DEF SelectNothing
<1>8. ASSUME NEW w \in Runs, FarmRun(w)
      PROVE  /\ UNCHANGED <<table, voice, voiceHere>> /\ runs' \in 0..MaxRuns
             /\ left' \in [Runs -> 0..Iterations]
  <2>1. runs < MaxRuns /\ runs' = runs + 1 /\ left' = [left EXCEPT ![w] = Iterations]
        /\ UNCHANGED <<table, voice, voiceHere>>
    BY <1>8 DEF FarmRun
  <2> QED
    BY <1>1, <2>1
<1>9. GenerateFails => UNCHANGED <<table, voice, voiceHere, left, runs>>
  BY DEF GenerateFails
<1>10. ASSUME NEW t \in Tables, ProcessDies(t)
       PROVE  UNCHANGED <<table, voice, voiceHere, runs>> /\ left' \in [Runs -> 0..Iterations]
  <2>1. left' = [w \in Runs |-> IF t = "jobs" THEN 0 ELSE left[w]]
        /\ UNCHANGED <<table, voice, voiceHere, runs>>
    BY <1>10 DEF ProcessDies
  <2> QED
    BY <1>1, <2>1
<1>11. ASSUME NEW t \in Tables, NEW r \in Rows, Insert(r, t)
       PROVE  /\ UNCHANGED <<voice, voiceHere, left, runs>>
              /\ table' \in [Rows -> Tables \cup {None}]
  BY <1>1, <1>11 DEF Insert
<1>12. CASE UNCHANGED vars \/ UNCHANGED rowVars
  BY <1>1, <1>12 DEF vars, rowVars
<1>13. CASE RowMoves
  BY <1>1, <1>4, <1>5, <1>6, <1>7, <1>8, <1>9, <1>10, <1>11, <1>13 DEF RowMoves
<1> QED
  BY <1>12, <1>13, Halves

LEMMA RowStep == RowInv /\ faults \in Nat /\ faults' \in Nat /\ faults <= faults' /\ [Next]_vars => RowInv'
<1> SUFFICES ASSUME RowInv, faults \in Nat, faults' \in Nat, faults <= faults', [Next]_vars
             PROVE  RowInv'
  OBVIOUS
<1>1. RowTypeOK /\ VideosExist /\ WorkersSound /\ Accounts
  BY DEF RowInv
<1>2. ASSUME made' \in [Rows -> Nat], status' \in [Rows -> {"pending", "done"}],
             workers' \in [Workers -> Post]
      PROVE  RowTypeOK'
  BY <1>1, <1>2, RowTypes DEF RowTypeOK, Post
<1>3. ASSUME NEW w \in Workers, NEW r \in Rows, Acts(w, r) PROVE RowInv'
  <2>1. ASSUME NEW s \in Rows PROVE Account(s)'
    <3>1. Account(s) /\ table'[s] = table[s]
      BY <1>1, <1>3 DEF Accounts, Acts
    <3>2. CASE s = r
      BY <1>1, <1>3, <3>1, <3>2, ActAccount
    <3>3. CASE s # r
      BY <1>1, <1>3, <3>1, <3>3, Elsewhere, QuietAccount
    <3> QED
      BY <3>2, <3>3
  <2>2. /\ made' \in [Rows -> Nat] /\ status' \in [Rows -> {"pending", "done"}]
        /\ VideosExist' /\ WorkersSound' /\ workers' \in [Workers -> Post]
    BY <1>1, <1>3, ActSound DEF Acts
  <2> QED
    BY <1>2, <2>1, <2>2 DEF RowInv, Accounts
<1>4. CASE UNCHANGED <<table, status, made, workers>>
  <2>1. /\ made' \in [Rows -> Nat] /\ status' \in [Rows -> {"pending", "done"}]
        /\ workers' \in [Workers -> Post]
    BY <1>1, <1>4 DEF RowTypeOK, Post
  <2>2. VideosExist' /\ WorkersSound'
    BY <1>1, <1>4 DEF VideosExist, WorkersSound
  <2>3. ASSUME NEW r \in Rows PROVE Account(r)'
    <3>1. Making(r)' = Making(r) /\ Marking(r)' = Marking(r) /\ Account(r)
      BY <1>1, <1>4 DEF Making, Marking, Accounts
    <3> QED
      BY <1>1, <1>4, <3>1, QuietAccount
  <2> QED
    BY <1>2, <2>1, <2>2, <2>3 DEF RowInv, Accounts
<1>5. ASSUME NEW w \in Workers, RowWorker(w) \/ WorkerFails(w) PROVE RowInv'
  BY <1>1, <1>3, <1>5, WorkersAct
<1>6. ASSUME GenerateFails PROVE RowInv'
  <2>1. PICK w \in Workers : Leaves(w) /\ workers[w].at \in {"voice", "render"}
    BY <1>6 DEF GenerateFails, Generates, In
  <2> QED
    BY <1>1, <1>3, <1>6, <2>1, WorkersAct
<1>7. ASSUME NEW t \in Tables, ProcessDies(t) PROVE RowInv'
  <2>1. workers' \in [Workers -> Post] /\ VideosExist' /\ WorkersSound' /\ Accounts'
    BY <1>1, <1>7, DeathStep
  <2>2. made' \in [Rows -> Nat] /\ status' \in [Rows -> {"pending", "done"}]
    BY <1>1, <1>7 DEF ProcessDies, RowTypeOK
  <2> QED
    BY <1>2, <2>1, <2>2 DEF RowInv
<1>8. ASSUME NEW t \in Tables, NEW r \in Rows, Insert(r, t) PROVE RowInv'
  <2>1. VideosExist' /\ WorkersSound' /\ Accounts'
    BY <1>1, <1>8, InsertStep
  <2>2. /\ made' \in [Rows -> Nat] /\ status' \in [Rows -> {"pending", "done"}]
        /\ workers' \in [Workers -> Post]
    BY <1>1, <1>8 DEF Insert, RowTypeOK, Post
  <2> QED
    BY <1>2, <2>1, <2>2 DEF RowInv
<1>9. ASSUME NEW w \in Workers, SelectNothing(w) PROVE UNCHANGED <<table, status, made, workers>>
  BY <1>9 DEF SelectNothing
<1>10. ASSUME NEW w \in Runs, FarmRun(w) PROVE UNCHANGED <<table, status, made, workers>>
  BY <1>10 DEF FarmRun
<1>11. UNCHANGED rowVars \/ UNCHANGED vars => UNCHANGED <<table, status, made, workers>>
  BY DEF rowVars, vars
<1>12. CASE RowMoves
  BY <1>4, <1>5, <1>6, <1>7, <1>8, <1>9, <1>10, <1>12 DEF RowMoves
<1> QED
  BY <1>4, <1>11, <1>12, Halves

-----------------------------------------------------------------------------
(* The lists and the tables together.                                      *)
LEMMA Starts == Init => IInv
<1> SUFFICES ASSUME Init PROVE IInv
  OBVIOUS
<1>1. NumProducts \in Nat /\ Iterations \in Nat /\ MaxRuns \in Nat /\ MaxFaults \in Nat
  BY WorkersAssumption DEF WorkersAssumption
<1>2. ListTypeOK
  <2>1. <<>> \in Seq(Jobs) /\ Idle \in [at : {"idle", "down"}, job : {None}]
    BY DEF Idle
  <2> QED
    BY <1>1, <2>1 DEF Init, ListTypeOK
<1>3. RowTypeOK /\ faults \in 0..MaxFaults
  BY <1>1 DEF Init, RowTypeOK, Free
<1>4. ServedInOrder
  <2>1. <<>> \o Reverse(<<>>) = <<>>
    BY DEF Reverse
  <2> QED
    BY <2>1 DEF Init, ServedInOrder
<1>5. CrawlsWhole /\ JobsSound
  <2>1. Range(<<>>) = {}
    BY DEF Range
  <2>2. \A l \in Lists : pushed[l] = <<>> /\ popped[l] = <<>> /\ process[l].job = None
    BY DEF Init, Idle
  <2> QED
    BY <2>1, <2>2 DEF Init, CrawlsWhole, JobsSound, Lists
<1>6. VideosExist /\ WorkersSound
  BY DEF Init, VideosExist, WorkersSound, Free
<1>7. ASSUME NEW r \in Rows PROVE Account(r)
  <2>1. made[r] = 0 /\ status[r] = "pending" /\ faults = 0
    BY DEF Init
  <2> DEFINE n == Size(r)
             b == Cardinality(Marking(r))
  <2>2. n \in Nat /\ b \in Nat
    BY <1>3, <1>6, AtRow
  <2>3. Times(faults, n) \in Nat
    <3> HIDE DEF n
    <3>1. faults \in Nat
      BY <2>1
    <3> QED
      BY <2>2, <3>1, TimesFacts
  <2>4. 0 <= Times(faults, n) + b
    BY <2>2, <2>3
  <2> QED
    BY <2>1, <2>4 DEF Account
<1> QED
  BY <1>2, <1>3, <1>4, <1>5, <1>6, <1>7 DEF IInv, ListInv, RowInv, Accounts

LEMMA Step == IInv /\ [Next]_vars => IInv'
<1> SUFFICES ASSUME IInv, [Next]_vars PROVE IInv'
  OBVIOUS
<1>1. ListInv /\ RowInv /\ TypeOK /\ MaxFaults \in Nat
  BY WorkersAssumption DEF IInv, ListInv, RowInv, TypeOK, WorkersAssumption
<1>2. faults' \in 0..MaxFaults /\ faults' >= faults
  BY <1>1, FaultsGrow
<1>3. faults \in Nat /\ faults' \in Nat /\ faults <= faults'
  BY <1>1, <1>2 DEF TypeOK
<1>4. RowInv'
  BY <1>1, <1>3, RowStep
<1>5. UNCHANGED listVars => ListInv'
  BY <1>1 DEF listVars, ListInv, ListTypeOK, ServedInOrder, CrawlsWhole, JobsSound
<1>6. ListInv'
  BY <1>1, <1>5, Halves, ListStep DEF vars
<1> QED
  BY <1>2, <1>4, <1>6 DEF IInv

LEMMA Accounted == RowInv /\ faults \in Nat => RepeatsAccounted
<1> SUFFICES ASSUME RowInv, faults \in Nat, NEW r \in Rows
             PROVE  made[r] <= (faults + 1) * Cardinality(Staff(table[r]))
  BY DEF RepeatsAccounted, Staff
<1> DEFINE n == Size(r)
           a == Cardinality(Making(r))
           b == Cardinality(Marking(r))
           k == Times(faults, n)
<1>1. RowTypeOK /\ WorkersSound /\ Account(r)
  BY DEF RowInv, Accounts
<1>2. n \in Nat /\ a \in Nat /\ b \in Nat /\ made[r] \in Nat /\ a + b <= n
  BY <1>1, AtRow DEF RowTypeOK
<1>3. made[r] <= k + b \/ made[r] + a <= k + n
  BY <1>1 DEF Account, RowTypeOK
<1>4. k \in Nat /\ Times(faults + 1, n) = k + n
  <2> HIDE DEF n
  <2> QED
    BY <1>2, TimesFacts
<1>5. made[r] <= k + n
  <2> HIDE DEF n, a, b, k
  <2> QED
    BY <1>2, <1>3, <1>4
<1> QED
  BY <1>4, <1>5 DEF Times, Size

(* For any jobs, rows, runs and faults: every list hands its jobs out once *)
(* and in the order they came, whatever dies; a crawl reported done stored *)
(* all it found and a row marked done has its video; and each row's video  *)
(* was made at most once by each worker of its table, and once more by     *)
(* each for every fault.                                                   *)
THEOREM WorkersCorrect == Spec => []WorkersInv
<1>1. IInv => WorkersInv
  <2>1. IInv => faults \in Nat
    BY WorkersAssumption DEF IInv, WorkersAssumption
  <2> QED
    BY <2>1, Accounted DEF IInv, ListInv, RowInv, WorkersInv, TypeOK, DoneIsWhole
<1> QED
  BY <1>1, Starts, Step, PTL DEF Spec

LEMMA StuckStep == IInv /\ [Next]_vars => \A r \in Rows : Stuck(r) => Stuck(r)'
<1> SUFFICES ASSUME IInv, [Next]_vars, NEW r \in Rows, Stuck(r) PROVE Stuck(r)'
  OBVIOUS
<1>1. RowTypeOK /\ WorkersSound
  BY DEF IInv, RowInv
<1>2. /\ table[r] = "scripts" /\ status[r] = "pending" /\ r \in voice
      /\ \A w \in Workers : workers[w].row = r => workers[w].at \notin {"render", "mark"}
  BY DEF Stuck, Row
<1>3. \A w \in Workers : workers[w].row = r => workers[w].at \in {"idle", "voice"}
  <2>1. ASSUME NEW w \in Workers, workers[w].row = r, workers[w].at = "upload" PROVE FALSE
    <3>1. w # "generator" /\ Serves(w) = "scripts"
      BY <1>1, <1>2, <2>1 DEF WorkersSound
    <3> QED
      BY <3>1 DEF Serves
  <2> QED
    BY <1>1, <1>2, <2>1, RowHeld DEF Post
<1>4. SUFFICES /\ table'[r] = "scripts" /\ status'[r] = "pending" /\ r \in voice'
               /\ \A w \in Workers : workers'[w].row = r => workers'[w].at \notin {"render", "mark"}
  BY DEF Stuck, Row
<1>5. CASE UNCHANGED <<table, status, voice, workers>>
  BY <1>2, <1>5
<1>6. ASSUME NEW w \in Workers, NEW s \in Rows, Acts(w, s), voice \subseteq voice',
             workers[w].at = "voice" /\ s = r => workers'[w] = Free
      PROVE  /\ table'[r] = "scripts" /\ status'[r] = "pending" /\ r \in voice'
             /\ \A x \in Workers : workers'[x].row = r => workers'[x].at \notin {"render", "mark"}
  <2>1. status'[r] = "pending"
    <3>1. s = r => workers[w].at # "mark"
      BY <1>3, <1>6 DEF Acts
    <3>2. status' = status \/ (workers[w].at = "mark" /\ status' = [status EXCEPT ![s] = "done"])
      BY <1>6 DEF Acts, Takes, Makes, Voices, GivesUp, MakesAndFails, Marks, LosesMark
    <3> QED
      BY <1>1, <1>2, <3>1, <3>2 DEF RowTypeOK
  <2>2. workers'[w].row = r => workers'[w].at \notin {"render", "mark"}
    <3>1. s = r => workers[w].at \in {"idle", "voice"}
      BY <1>3, <1>6 DEF Acts
    <3>2. r # None
      BY WorkersAssumption DEF WorkersAssumption
    <3> QED
      BY <1>6, <3>1, <3>2
         DEF Acts, Takes, Makes, Voices, GivesUp, MakesAndFails, Marks, LosesMark, Free
  <2> QED
    BY <1>2, <1>6, <2>1, <2>2 DEF Acts
<1>7. ASSUME NEW w \in Workers, RowWorker(w) \/ WorkerFails(w)
      PROVE  /\ voice \subseteq voice'
             /\ workers[w].at = "voice" /\ workers[w].row = r => workers'[w] = Free
  <2>1. voice \subseteq voice'
    BY <1>7 DEF RowWorker, Select, Upload, WriteVoice, Render, Mark, WorkerFails
  <2>2. workers[w].at = "voice" /\ workers[w].row = r => ~RowWorker(w)
    BY <1>2
       DEF RowWorker, Select, Iterates, Upload, WriteVoice, MayWriteVoice, Render, Mark, In, Row
  <2>3. WorkerFails(w) => Leaves(w)
    BY DEF WorkerFails
  <2> QED
    BY <1>1, <1>7, <2>1, <2>2, <2>3, Leaving
<1>8. ASSUME NEW w \in Workers, RowWorker(w) \/ WorkerFails(w)
      PROVE  /\ table'[r] = "scripts" /\ status'[r] = "pending" /\ r \in voice'
             /\ \A x \in Workers : workers'[x].row = r => workers'[x].at \notin {"render", "mark"}
  <2>1. PICK s \in Rows : Acts(w, s)
    BY <1>1, <1>8, WorkersAct
  <2>2. workers[w].at = "voice" /\ s = r => workers'[w] = Free
    BY <1>7, <1>8, <2>1 DEF Acts
  <2> QED
    BY <1>6, <1>7, <1>8, <2>1, <2>2
<1>9. ASSUME GenerateFails
      PROVE  /\ table'[r] = "scripts" /\ status'[r] = "pending" /\ r \in voice'
             /\ \A x \in Workers : workers'[x].row = r => workers'[x].at \notin {"render", "mark"}
  <2>1. PICK w \in Workers : Leaves(w) /\ workers[w].at \in {"voice", "render"}
    BY <1>9 DEF GenerateFails, Generates, In
  <2>2. PICK s \in Rows : Acts(w, s)
    BY <1>1, <1>9, <2>1, WorkersAct
  <2>3. workers'[w] = Free /\ voice' = voice
    BY <1>1, <1>9, <2>1, Leaving DEF GenerateFails
  <2> QED
    BY <1>6, <2>2, <2>3
<1>10. ASSUME NEW t \in Tables, ProcessDies(t)
       PROVE  /\ table'[r] = "scripts" /\ status'[r] = "pending" /\ r \in voice'
              /\ \A x \in Workers : workers'[x].row = r => workers'[x].at \notin {"render", "mark"}
  <2>1. UNCHANGED <<table, status, voice>>
    BY <1>10 DEF ProcessDies
  <2>2. \A x \in Workers : workers'[x] \in {Free, workers[x]}
    BY <1>10 DEF ProcessDies
  <2> QED
    BY <1>2, <2>1, <2>2 DEF Free
<1>11. ASSUME NEW t \in Tables, NEW s \in Rows, Insert(s, t)
       PROVE  /\ table'[r] = "scripts" /\ status'[r] = "pending" /\ r \in voice'
              /\ \A x \in Workers : workers'[x].row = r => workers'[x].at \notin {"render", "mark"}
  <2>1. s # r
    BY <1>2, <1>11, StaffSize DEF Insert, Tables
  <2> QED
    BY <1>1, <1>2, <1>11, <2>1 DEF Insert, RowTypeOK
<1>12. ASSUME NEW w \in Workers, SelectNothing(w)
       PROVE  UNCHANGED <<table, status, voice, workers>>
  BY <1>12 DEF SelectNothing
<1>13. ASSUME NEW w \in Runs, FarmRun(w) PROVE UNCHANGED <<table, status, voice, workers>>
  BY <1>13 DEF FarmRun
<1>14. UNCHANGED rowVars \/ UNCHANGED vars => UNCHANGED <<table, status, voice, workers>>
  BY DEF rowVars, vars
<1>15. CASE RowMoves
  BY <1>5, <1>8, <1>9, <1>10, <1>11, <1>12, <1>13, <1>15 DEF RowMoves
<1> QED
  BY <1>5, <1>14, <1>15, Halves

(* For any rows, runs and faults: a script that failed after its voice     *)
(* file was written is never rendered or marked done again, whatever the   *)
(* other workers do.                                                       *)
THEOREM StuckStays == Spec => StuckForGood
<1> QED
  BY Starts, Step, StuckStep, PTL DEF Spec, StuckForGood
=============================================================================
