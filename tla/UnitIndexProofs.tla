-------------------------- MODULE UnitIndexProofs --------------------------
(***************************************************************************)
(* Proofs about UnitIndex, for any units, any size of the batches and any  *)
(* judgement of what might throw: each symbol that the tables should list  *)
(* is followed on its way from clang through the rows collected, the       *)
(* statements made and the statements sent to the tables, and nothing else *)
(* gets there.                                                             *)
(***************************************************************************)
EXTENDS UnitIndex, NatSets, SequenceTheorems, FunctionTheorems

IsSequence(s) == s \in Seq(ToSet(s))

\* The types, and what is left over from a unit: nothing.
Typed ==
  /\ source \in Sources /\ n \in 0 .. Len(source)
  /\ pos \in Nat /\ (pos > 0 => n > 0 /\ pos <= Len(Unit) + 1)
  /\ cached \in BOOLEAN
  /\ origin \in Seq(Nat \X Nat) /\ next_call_id = Len(origin) + 1
  /\ IsSequence(func_defs) /\ IsSequence(func_calls) /\ IsSequence(stmts) /\ IsSequence(queue)
  /\ fd_start \in 1 .. Len(func_defs) + 1 /\ fc_start \in 1 .. Len(func_calls) + 1
  /\ pos = 0 => func_defs = <<>> /\ func_calls = <<>> /\ stmts = <<>>
  /\ fd_start # 1 \/ fc_start # 1 => Through
  /\ fd_start = 1 /\ fc_start = 1 => stmts = <<>>
  /\ failed \in SUBSET (1 .. n) /\ missed \in SUBSET (1 .. n) /\ (n \in failed => pos = 0)

\* The units clang is through with, and those of them whose rows are sent.
Done(u) == u \in 1 .. n /\ (u = n => pos = 0)
Sent(u) == Done(u) /\ u \notin failed

\* A statement has at least one row and at most BatchSize.
Sized(st) == DOMAIN st.rows \in SUBSET Nat /\ Cardinality(DOMAIN st.rows) \in 1 .. BatchSize
StatementsSized == \A st \in ToSet(stmts) \cup ToSet(queue) : Sized(st)

\* A call id is given to one symbol, which clang has reported.
Reported(o) ==
  /\ o[1] \in 1 .. n /\ o[2] \in DOMAIN source[o[1]]
  /\ o[1] = n /\ pos > 0 => o[2] < pos

Origins ==
  /\ \A i \in DOMAIN origin : Reported(origin[i])
  /\ \A i, j \in DOMAIN origin : origin[i] = origin[j] => i = j

\* A row of func_calls says what the symbol says that its id was given to.
FromSymbol(r) ==
  /\ r.id \in DOMAIN origin
  /\ LET s == source[origin[r.id][1]][origin[r.id][2]]
     IN  /\ r.usr = s.usr /\ r.caller = (IF s.kind = "call" THEN s.caller ELSE NoCaller)
         /\ r.file # NoFile => s.loc # Outside

FromSent(r) ==
  FromSymbol(r) /\ r.file # NoFile /\ r.caller # NoCaller /\ Sent(origin[r.id][1])

CallRows ==
  /\ \A r \in ToSet(func_calls) : FromSymbol(r) /\ origin[r.id][1] = n
  /\ \A st \in ToSet(stmts) : st.table = "calls" =>
       \A m \in DOMAIN st.rows : m \in ValidCalls /\ st.rows[m] = func_calls[m]
  /\ \A st \in ToSet(queue) : st.table = "calls" => \A m \in DOMAIN st.rows : FromSent(st.rows[m])
  /\ \A i \in DOMAIN calls : calls[i].id = i
  /\ \A r \in Range(calls) : FromSent(r)

\* No call is lost: the row of a call that was reported is collected, and in a statement
\* once the batches have passed it; the call of a unit that was sent is stored, or in the
\* queue.
Listed(o) ==
  \/ \E i \in DOMAIN calls : origin[i] = o
  \/ \E st \in ToSet(queue) : st.table = "calls" /\ \E m \in DOMAIN st.rows : origin[st.rows[m].id] = o

CollectedCalls ==
  pos > 0 /\ n \notin missed =>
    \A k \in 1 .. pos - 1 : InProject(Unit[k], {"call"}) =>
      \E m \in ValidCalls : origin[func_calls[m].id] = <<n, k>>

BatchedCalls ==
  \A m \in ValidCalls : m < fc_start =>
    \E st \in ToSet(stmts) : st.table = "calls" /\ m \in DOMAIN st.rows

ListedCalls ==
  \A u \in DOMAIN source \ missed : Sent(u) =>
    \A k \in DOMAIN source[u] : InProject(source[u][k], {"call"}) => Listed(<<u, k>>)

CallsKept == CollectedCalls /\ BatchedCalls /\ ListedCalls

\* The same of definitions, whose key is their USR.
DefinedIn(u, f) ==
  \E k \in DOMAIN source[u] : InProject(source[u][k], {"def", "macro"}) /\ source[u][k].usr = f

DefinedInSent(f) == \E u \in DOMAIN source : Sent(u) /\ DefinedIn(u, f)

DefRows ==
  /\ \A m \in ValidDefs : DefinedIn(n, func_defs[m].usr)
  /\ \A st \in ToSet(stmts) : st.table = "defs" =>
       \A m \in DOMAIN st.rows : m \in ValidDefs /\ st.rows[m] = func_defs[m]
  /\ \A st \in ToSet(queue) : st.table = "defs" =>
       \A m \in DOMAIN st.rows : DefinedInSent(st.rows[m].usr)
  /\ \A f \in DOMAIN defs : DefinedInSent(f)

Defined(f) ==
  \/ f \in DOMAIN defs
  \/ \E st \in ToSet(queue) : st.table = "defs" /\ \E m \in DOMAIN st.rows : st.rows[m].usr = f

CollectedDefs ==
  pos > 0 /\ n \notin missed =>
    \A k \in 1 .. pos - 1 : InProject(Unit[k], {"def", "macro"}) =>
      \E m \in ValidDefs : func_defs[m].usr = Unit[k].usr

BatchedDefs ==
  \A m \in ValidDefs : m < fd_start =>
    \E st \in ToSet(stmts) : st.table = "defs" /\ m \in DOMAIN st.rows

ListedDefs ==
  \A u \in DOMAIN source \ missed : Sent(u) => \A f \in Usrs : DefinedIn(u, f) => Defined(f)

DefsKept == CollectedDefs /\ BatchedDefs /\ ListedDefs

\* The units sent are the units with a row, now or when the queue is empty.
PathsOfSent ==
  /\ \A st \in ToSet(stmts) : st.table \in {"defs", "calls"}
  /\ \A u \in paths : Sent(u)
  /\ \A st \in ToSet(queue) : st.table = "paths" => \A row \in Range(st.rows) : Sent(row.unit)
  /\ \A u \in DOMAIN source : Sent(u) =>
       u \in paths \/ \E st \in ToSet(queue) : st.table = "paths" /\ \E row \in Range(st.rows) : row.unit = u

UnitInv == /\ Typed /\ StatementsSized /\ Origins /\ CallRows /\ CallsKept
           /\ DefRows /\ DefsKept /\ PathsOfSent

-----------------------------------------------------------------------------
(* Sequences                                                                *)

LEMMA EmptyIsSequence == IsSequence(<<>>) /\ ToSet(<<>>) = {} /\ DOMAIN <<>> = {} /\ Len(<<>>) = 0
BY DEF IsSequence, ToSet

LEMMA SequenceUses ==
  ASSUME NEW s, IsSequence(s)
  PROVE  /\ Len(s) \in Nat /\ DOMAIN s = 1 .. Len(s)
         /\ \A i \in 1 .. Len(s) : s[i] \in ToSet(s)
         /\ \A x \in ToSet(s) : \E i \in 1 .. Len(s) : x = s[i]
BY DEF IsSequence, ToSet

LEMMA SequenceOf ==
  ASSUME NEW S, NEW s \in Seq(S)
  PROVE  IsSequence(s)
<1>1. s \in [1 .. Len(s) -> ToSet(s)] /\ Len(s) \in Nat
  BY DEF ToSet
<1>2. [1 .. Len(s) -> ToSet(s)] \subseteq Seq(ToSet(s))
  BY <1>1, SeqDef
<1> QED BY <1>1, <1>2 DEF IsSequence

LEMMA AppendToSequence ==
  ASSUME NEW s, IsSequence(s), NEW e
  PROVE  /\ IsSequence(Append(s, e)) /\ Len(Append(s, e)) = Len(s) + 1
         /\ DOMAIN Append(s, e) = 1 .. Len(s) + 1
         /\ \A i \in 1 .. Len(s) : Append(s, e)[i] = s[i]
         /\ Append(s, e)[Len(s) + 1] = e
         /\ ToSet(Append(s, e)) = ToSet(s) \cup {e}
<1> DEFINE S == ToSet(s) \cup {e}
<1>1. s \in Seq(S)
  BY SeqMonotonic DEF IsSequence
<1>2. Append(s, e) \in Seq(S)
  BY <1>1
<1> HIDE DEF S
<1>3. /\ Len(s) \in Nat /\ Len(Append(s, e)) = Len(s) + 1
      /\ \A i \in 1 .. Len(s) : Append(s, e)[i] = s[i]
      /\ Append(s, e)[Len(s) + 1] = e
  BY <1>1
<1>4. DOMAIN Append(s, e) = 1 .. Len(s) + 1 /\ DOMAIN s = 1 .. Len(s)
  BY <1>1, <1>2, <1>3
<1>5. ToSet(Append(s, e)) = ToSet(s) \cup {e}
  BY <1>3, <1>4 DEF ToSet
<1> QED BY <1>2, <1>3, <1>4, <1>5, SequenceOf

LEMMA ConcatSequences ==
  ASSUME NEW s, NEW t, IsSequence(s), IsSequence(t)
  PROVE  IsSequence(s \o t) /\ ToSet(s \o t) = ToSet(s) \cup ToSet(t)
<1> DEFINE S == ToSet(s) \cup ToSet(t)
<1>1. s \in Seq(S) /\ t \in Seq(S)
  BY SeqMonotonic DEF IsSequence
<1> HIDE DEF S
<1>2. /\ s \o t \in Seq(S) /\ Len(s \o t) = Len(s) + Len(t)
      /\ \A i \in 1 .. Len(s) + Len(t) :
           (s \o t)[i] = IF i <= Len(s) THEN s[i] ELSE t[i - Len(s)]
  BY <1>1, ConcatProperties
<1>3. Len(s) \in Nat /\ Len(t) \in Nat /\ DOMAIN s = 1 .. Len(s) /\ DOMAIN t = 1 .. Len(t)
      /\ DOMAIN (s \o t) = 1 .. Len(s) + Len(t)
  BY <1>1, <1>2
<1>4. \A i \in 1 .. Len(s) : i \in DOMAIN (s \o t) /\ (s \o t)[i] = s[i]
  BY <1>2, <1>3
<1>5. \A i \in 1 .. Len(t) : i + Len(s) \in DOMAIN (s \o t) /\ (s \o t)[i + Len(s)] = t[i]
  <2> TAKE i \in 1 .. Len(t)
  <2>1. i + Len(s) \in 1 .. Len(s) + Len(t) /\ ~(i + Len(s) <= Len(s)) /\ (i + Len(s)) - Len(s) = i
    BY <1>3
  <2> QED BY <1>2, <1>3, <2>1
<1>6. \A i \in DOMAIN (s \o t) : (s \o t)[i] \in ToSet(s) \cup ToSet(t)
  <2> TAKE i \in DOMAIN (s \o t)
  <2>1. CASE i <= Len(s)
    BY <1>2, <1>3, <2>1 DEF ToSet
  <2>2. CASE ~(i <= Len(s))
    <3>1. i - Len(s) \in 1 .. Len(t)
      BY <1>3, <2>2
    <3> QED BY <1>2, <1>3, <2>2, <3>1 DEF ToSet
  <2> QED BY <2>1, <2>2
<1>7. ToSet(s \o t) = ToSet(s) \cup ToSet(t)
  <2>1. ToSet(s \o t) \subseteq ToSet(s) \cup ToSet(t)
    BY <1>6 DEF ToSet
  <2>2. ToSet(s) \subseteq ToSet(s \o t)
    BY <1>3, <1>4 DEF ToSet
  <2>3. ToSet(t) \subseteq ToSet(s \o t)
    BY <1>3, <1>5 DEF ToSet
  <2> QED BY <2>1, <2>2, <2>3
<1> QED BY <1>2, <1>7, SequenceOf

LEMMA TailOfSequence ==
  ASSUME NEW s, IsSequence(s), s # <<>>
  PROVE  IsSequence(Tail(s)) /\ ToSet(s) = {Head(s)} \cup ToSet(Tail(s))
<1>1. s \in Seq(ToSet(s)) /\ DOMAIN s = 1 .. Len(s)
  BY DEF IsSequence
<1>2. Len(s) \in Nat \ {0} /\ Tail(s) \in Seq(ToSet(s)) /\ Len(Tail(s)) = Len(s) - 1
      /\ (\A i \in 1 .. Len(Tail(s)) : Tail(s)[i] = s[i + 1])
  BY <1>1, HeadTailProperties, EmptySeq
<1>3. Head(s) = s[1] /\ DOMAIN Tail(s) = 1 .. Len(s) - 1
  BY <1>1, <1>2
<1>4. \A i \in 1 .. Len(s) : i = 1 \/ (i - 1 \in 1 .. Len(s) - 1 /\ Tail(s)[i - 1] = s[i])
  BY <1>2
<1>5. \A i \in 1 .. Len(s) - 1 : i + 1 \in 1 .. Len(s) /\ Tail(s)[i] = s[i + 1]
  BY <1>2
<1>6. 1 \in 1 .. Len(s)
  BY <1>2
<1>7. ToSet(s) = {Head(s)} \cup ToSet(Tail(s))
  <2>1. ToSet(s) \subseteq {Head(s)} \cup ToSet(Tail(s))
    BY <1>1, <1>3, <1>4 DEF ToSet
  <2>2. {Head(s)} \cup ToSet(Tail(s)) \subseteq ToSet(s)
    BY <1>1, <1>3, <1>5, <1>6 DEF ToSet
  <2> QED BY <2>1, <2>2
<1> QED BY <1>2, <1>7, SequenceOf

-----------------------------------------------------------------------------
(* Batches                                                                  *)

LEMMA MinOfNats ==
  ASSUME NEW S \in SUBSET Nat, S # {}
  PROVE  Min(S) \in S /\ \A x \in S : Min(S) <= x
BY LeastElement DEF Min

LEMMA JustAbove ==
  ASSUME NEW a \in Nat, NEW b \in Nat, NEW B \in Nat, a > B, b <= B, a <= b + 1
  PROVE  b = B
OBVIOUS

LEMMA OneMore ==
  ASSUME NEW S, NEW T, NEW x, IsFiniteSet(T), S = T \/ S = T \cup {x}
  PROVE  Cardinality(S) <= Cardinality(T) + 1
<1>1. Cardinality(T) \in Nat
  BY FS_CardinalityType
<1>2. Cardinality(T \cup {x}) = IF x \in T THEN Cardinality(T) ELSE Cardinality(T) + 1
  BY FS_AddElement
<1> QED BY <1>1, <1>2

\* The first place, or the last of all, where a count that starts at 0 and grows by one at
\* most is B: it is not above B there.
LEMMA FirstHit ==
  ASSUME NEW count \in [Nat -> Nat], NEW B \in Nat, B > 0, NEW first \in Nat, NEW last \in Nat,
         first < last, count[first] = 0,
         \A k \in Nat : k >= first => count[k + 1] <= count[k] + 1,
         NEW end \in first .. last, end = last \/ count[end] = B,
         \A k \in first .. last : k = last \/ count[k] = B => end <= k
  PROVE  end \in first + 1 .. last /\ count[end] \in 0 .. B
<1>1. end \in first + 1 .. last
  OBVIOUS
<1>2. ASSUME count[end] > B PROVE FALSE
  <2> DEFINE Over == {k \in first .. last : count[k] > B}
  <2>1. end \in Over /\ Over \in SUBSET Nat
    BY <1>2
  <2>2. PICK k \in Over : \A j \in Over : k <= j
    <3> HIDE DEF Over
    <3> QED BY <2>1, LeastElement
  <2>3. k \in first .. last /\ count[k] > B /\ k <= end
    BY <2>1, <2>2
  <2>4. k # first
    BY <2>3
  <2>5. k - 1 \in first .. last /\ k - 1 \in Nat /\ k - 1 \notin Over
    BY <2>2, <2>3, <2>4
  <2>6. count[k - 1] <= B
    BY <2>5
  <2>7. count[(k - 1) + 1] <= count[k - 1] + 1 /\ (k - 1) + 1 = k
    BY <2>3, <2>4, <2>5
  <2>8. count[k - 1] = B
    <3>1. count[k] <= count[k - 1] + 1
      BY <2>7
    <3>2. count[k] \in Nat /\ count[k - 1] \in Nat
      BY <2>3, <2>5
    <3>3. count[k] > B
      BY <2>3
    <3> QED BY <2>6, <3>1, <3>2, <3>3, JustAbove
  <2>9. end <= k - 1
    BY <2>5, <2>8
  <2> QED BY <2>3, <2>9
<1> QED BY <1>1, <1>2

\* A batch has at least one row of the vector, skipped ones counted, and at most BatchSize
\* that are not skipped.
LEMMA BatchEnds ==
  ASSUME NEW rows, Len(rows) \in Nat, NEW valid \in SUBSET (1 .. Len(rows)),
         NEW start \in 1 .. Len(rows)
  PROVE  /\ BatchEnd(rows, valid, start) \in start + 1 .. Len(rows) + 1
         /\ IsFiniteSet(valid \cap (start .. BatchEnd(rows, valid, start) - 1))
         /\ Cardinality(valid \cap (start .. BatchEnd(rows, valid, start) - 1)) \in 0 .. BatchSize
<1> DEFINE Taken(k) == valid \cap (start .. k - 1)
           count == [k \in Nat |-> Cardinality(Taken(k))]
           last == Len(rows) + 1
           Ends == {k \in start .. last : k = last \/ Cardinality(Taken(k)) = BatchSize}
           end == BatchEnd(rows, valid, start)
<1>1. BatchSize \in Nat /\ BatchSize > 0
  BY IndexAssumption
<1>2. end \in Ends /\ \A k \in Ends : end <= k
  <2>1. end = Min(Ends)
    BY DEF BatchEnd
  <2>2. Ends \in SUBSET Nat /\ last \in Ends
    OBVIOUS
  <2> HIDE DEF Ends, end
  <2> QED BY <2>1, <2>2, MinOfNats
<1>3. \A k \in Nat : IsFiniteSet(Taken(k)) /\ Cardinality(Taken(k)) \in Nat
  <2> TAKE k \in Nat
  <2>1. IsFiniteSet(start .. k - 1)
    BY FS_Interval
  <2> QED BY <2>1, FS_Subset, FS_CardinalityType
<1>4. count \in [Nat -> Nat]
  BY <1>3
<1>5. count[start] = 0
  <2>1. Taken(start) = {}
    OBVIOUS
  <2> QED BY <2>1, FS_EmptySet
<1>6. ASSUME NEW k \in Nat, k >= start
      PROVE  Cardinality(Taken(k + 1)) <= Cardinality(Taken(k)) + 1
  <2>1. Taken(k + 1) = Taken(k) \/ Taken(k + 1) = Taken(k) \cup {k}
    BY <1>6
  <2>2. IsFiniteSet(Taken(k))
    BY <1>3
  <2> HIDE DEF Taken
  <2> QED BY <2>1, <2>2, OneMore
<1>7. \A k \in Nat : k >= start => count[k + 1] <= count[k] + 1
  BY <1>6
<1>8. start \in Nat /\ last \in Nat /\ start < last
  OBVIOUS
<1>9. /\ end \in start .. last /\ (end = last \/ count[end] = BatchSize)
      /\ \A k \in start .. last : k = last \/ count[k] = BatchSize => end <= k
  BY <1>2
<1>10. IsFiniteSet(Taken(end)) /\ count[end] = Cardinality(Taken(end))
  BY <1>3, <1>9
<1> HIDE DEF count, end, last
<1>11. end \in start + 1 .. last /\ count[end] \in 0 .. BatchSize
  BY <1>1, <1>4, <1>5, <1>7, <1>8, <1>9, FirstHit
<1> QED BY <1>10, <1>11 DEF last, end

\* A batch of one vector moves its start, and adds a statement of what is not skipped.
Batched(table, rows, valid, start, end) ==
  /\ start \in 1 .. Len(rows) /\ end \in start + 1 .. Len(rows) + 1
  /\ \/ valid \cap (start .. end - 1) = {} /\ stmts' = stmts
     \/ \E st : /\ ToSet(stmts') = ToSet(stmts) \cup {st}
                /\ Sized(st) /\ st.table = table
                /\ DOMAIN st.rows = valid \cap (start .. end - 1)
                /\ \A m \in DOMAIN st.rows : st.rows[m] = rows[m]

LEMMA InBatch ==
  ASSUME NEW start \in Nat, NEW end \in Nat, NEW m \in Nat, ~(m < start), m < end
  PROVE  m \in start .. end - 1
OBVIOUS

\* What AddStmt makes of a batch.
LEMMA BatchIsStatement ==
  ASSUME IsSequence(stmts), NEW table, NEW rows, Len(rows) \in Nat,
         NEW valid \in SUBSET (1 .. Len(rows)), NEW start \in 1 .. Len(rows),
         NEW end, end = BatchEnd(rows, valid, start),
         AddStmt(table, rows, valid \cap (start .. end - 1))
  PROVE  IsSequence(stmts') /\ Batched(table, rows, valid, start, end)
<1> DEFINE taken == valid \cap (start .. end - 1)
           st == [table |-> table, rows |-> [i \in taken |-> rows[i]]]
<1>1. /\ end \in start + 1 .. Len(rows) + 1
      /\ IsFiniteSet(taken) /\ Cardinality(taken) \in 0 .. BatchSize
  BY BatchEnds
<1>2. CASE taken = {}
  BY <1>1, <1>2 DEF AddStmt, Batched
<1>3. CASE taken # {}
  <2>1. stmts' = Append(stmts, st)
    BY <1>3 DEF AddStmt
  <2>2. Cardinality(taken) \in 1 .. BatchSize
    <3>1. Cardinality(taken) # 0
      BY <1>1, <1>3, FS_EmptySet
    <3>2. BatchSize \in Nat
      BY IndexAssumption
    <3> HIDE DEF taken
    <3> QED BY <1>1, <3>1, <3>2
  <2>3. DOMAIN st.rows = taken /\ st.table = table /\ \A m \in taken : st.rows[m] = rows[m]
    OBVIOUS
  <2>4. taken \in SUBSET Nat
    OBVIOUS
  <2>5. Sized(st)
    BY <2>2, <2>3, <2>4 DEF Sized
  <2> HIDE DEF st
  <2>6. IsSequence(stmts') /\ ToSet(stmts') = ToSet(stmts) \cup {st}
    BY <2>1, AppendToSequence
  <2> QED BY <1>1, <2>3, <2>5, <2>6 DEF Batched
<1> QED BY <1>2, <1>3

-----------------------------------------------------------------------------
(* The steps                                                                *)

LEMMA SourceFacts ==
  ASSUME source \in Sources
  PROVE  /\ Len(source) \in Nat /\ DOMAIN source = 1 .. Len(source)
         /\ \A u \in DOMAIN source :
              /\ Len(source[u]) \in Nat /\ DOMAIN source[u] = 1 .. Len(source[u])
              /\ \A k \in DOMAIN source[u] :
                   /\ source[u][k].kind \in Kinds /\ source[u][k].usr \in Usrs
                   /\ source[u][k].loc # NoFile
                   /\ source[u][k].kind = "call" => source[u][k].caller \in Usrs
<1>1. IsSequence(source)
  BY SourceAssumption DEF IsSequence
<1>2. Len(source) \in Nat /\ DOMAIN source = 1 .. Len(source) /\ \A u \in DOMAIN source : source[u] \in ToSet(source)
  BY <1>1, SequenceUses
<1>3. \A u \in DOMAIN source : IsSequence(source[u])
  BY <1>2, SourceAssumption DEF IsSequence
<1>4. \A u \in DOMAIN source : Len(source[u]) \in Nat /\ DOMAIN source[u] = 1 .. Len(source[u])
  BY <1>3, SequenceUses
<1> QED BY <1>2, <1>4, SourceAssumption

\* What the five handlers of clang's callbacks have in common.
AddsDef(file) ==
  /\ At.kind \in {"def", "macro"} /\ \E might : AddDef(At.usr, file, might)
  /\ UNCHANGED <<func_calls, next_call_id, origin>>

AddsCall(file) ==
  /\ At.kind \in {"call", "init", "expand"} /\ \E might : AddCall(Caller, might, At.usr, file)
  /\ UNCHANGED func_defs

AddsNothing == At.kind = "decl" /\ UNCHANGED collected

Report ==
  /\ n > 0 /\ pos \in 1 .. Len(Unit) /\ pos' = pos + 1
  /\ cached' \in BOOLEAN /\ missed' \in {missed, missed \cup {n}}
  /\ \E file : /\ file # NoFile => At.loc # Outside
               /\ file = NoFile /\ At.loc # Outside => n \in missed'
               /\ AddsDef(file) \/ AddsCall(file) \/ AddsNothing
  /\ UNCHANGED <<source, n, batching, queue, tables, failed>>

LEMMA LocateGives ==
  ASSUME cached \in BOOLEAN, NEW loc, loc # NoFile, NEW ranges, NEW l \in Located(loc, ranges)
  PROVE  l.cached \in BOOLEAN /\ (l.file # NoFile => loc # Outside)
<1> DEFINE asks == Header \in {loc} \cup ranges
           Lost(c) == [file |-> IF loc \in {Header, Outside} THEN NoFile ELSE loc, cached |-> c]
<1>1. l = [file |-> IF loc = Outside THEN NoFile ELSE loc, cached |-> cached \/ asks]
        \/ l = Lost(FALSE) \/ l = Lost(Header \in ranges)
  BY Zenon DEF Located
<1>2. CASE l = [file |-> IF loc = Outside THEN NoFile ELSE loc, cached |-> cached \/ asks]
  <2>1. l.file = (IF loc = Outside THEN NoFile ELSE loc) /\ l.cached = (cached \/ asks)
    BY <1>2, Zenon
  <2>2. (cached \/ asks) \in BOOLEAN
    OBVIOUS
  <2> QED BY <2>1, <2>2, Zenon
<1>3. CASE l = Lost(FALSE)
  BY <1>3
<1>4. CASE l = Lost(Header \in ranges)
  <2>1. l.file = (IF loc \in {Header, Outside} THEN NoFile ELSE loc) /\ l.cached = (Header \in ranges)
    BY <1>4, Zenon
  <2>2. (Header \in ranges) \in BOOLEAN
    OBVIOUS
  <2> QED BY <2>1, <2>2, Zenon
<1> QED BY <1>1, <1>2, <1>3, <1>4

LEMMA ReportDoes ==
  ASSUME Typed, HandleDef \/ HandleDecl \/ HandleCall \/ MacroDefined \/ MacroExpands
  PROVE  Report
<1>1. n > 0 /\ pos \in 1 .. Len(Unit) /\ At.loc # NoFile
  <2>1. n > 0 /\ pos \in DOMAIN Unit
    BY DEF HandleDef, HandleDecl, HandleCall, MacroDefined, MacroExpands, Sees
  <2>2. source \in Sources /\ n \in 0 .. Len(source)
    BY DEF Typed
  <2>3. n \in DOMAIN source
    BY <2>1, <2>2, SourceFacts
  <2> QED BY <2>1, <2>2, <2>3, SourceFacts DEF At, Unit
<1>3. ASSUME NEW ranges, NEW l \in Located(At.loc, ranges), Locate(l)
      PROVE  /\ pos' = pos + 1 /\ cached' \in BOOLEAN /\ missed' \in {missed, missed \cup {n}}
             /\ l.file # NoFile => At.loc # Outside
             /\ l.file = NoFile /\ At.loc # Outside => n \in missed'
  <2>1. l.cached \in BOOLEAN /\ (l.file # NoFile => At.loc # Outside)
    BY <1>1, LocateGives DEF Typed
  <2> QED BY <1>3, <2>1 DEF Locate
<1>4. CASE HandleDef
  <2>1. PICK l \in Located(At.loc, RangeOf(At.usr)) :
          Locate(l) /\ AddDef(At.usr, l.file, MightThrow(Unit, pos, At.usr))
    BY <1>4 DEF HandleDef
  <2>2. AddsDef(l.file)
    BY <1>4, <2>1 DEF HandleDef, AddsDef, Sees
  <2> QED BY <1>1, <1>3, <1>4, <2>1, <2>2 DEF HandleDef, Report
<1>5. CASE HandleDecl
  <2>1. PICK l \in Located(At.loc, RangeOf(At.usr)) : Locate(l)
    BY <1>5 DEF HandleDecl
  <2>2. AddsNothing
    BY <1>5 DEF HandleDecl, AddsNothing, Sees
  <2> QED BY <1>1, <1>3, <1>5, <2>1, <2>2 DEF HandleDecl, Report
<1>6. CASE HandleCall
  <2>1. PICK l \in Located(At.loc, RangeOf(At.usr)) :
          /\ Locate(l)
          /\ AddCall(Caller, Caller # NoCaller /\ MightThrow(Unit, pos, Caller), At.usr, l.file)
    BY <1>6 DEF HandleCall
  <2>2. AddsCall(l.file)
    BY <1>6, <2>1 DEF HandleCall, AddsCall, Sees
  <2> QED BY <1>1, <1>3, <1>6, <2>1, <2>2 DEF HandleCall, Report
<1>7. CASE MacroDefined
  <2>1. PICK l \in Located(At.loc, {At.loc}), might \in BOOLEAN :
          Locate(l) /\ AddDef(At.usr, l.file, might)
    BY <1>7 DEF MacroDefined
  <2>2. AddsDef(l.file)
    BY <1>7, <2>1 DEF MacroDefined, AddsDef, Sees
  <2> QED BY <1>1, <1>3, <1>7, <2>1, <2>2 DEF MacroDefined, Report
<1>8. CASE MacroExpands
  <2>1. PICK l \in Located(At.loc, {}) : Locate(l) /\ AddCall(NoCaller, FALSE, At.usr, l.file)
    BY <1>8 DEF MacroExpands
  <2>2. Caller = NoCaller
    BY <1>8 DEF MacroExpands, Sees, Caller
  <2>3. AddsCall(l.file)
    BY <1>8, <2>1, <2>2 DEF MacroExpands, AddsCall, Sees
  <2> QED BY <1>1, <1>3, <1>8, <2>1, <2>3 DEF MacroExpands, Report
<1> QED BY <1>4, <1>5, <1>6, <1>7, <1>8

GenDefs == gen_batch_update_func_defs_stmt
GenCalls == gen_batch_update_func_calls_stmt

\* Steps that neither begin nor end a unit.
Within == Report \/ GenDefs \/ GenCalls \/ Store \/ UNCHANGED vars

LEMMA StepIs ==
  ASSUME Typed, [Next]_vars
  PROVE  Within \/ Begin \/ Fail \/ send_indexed_result
BY ReportDoes DEF Next, Within, GenDefs, GenCalls

LEMMA SentKept ==
  ASSUME Typed, Within \/ Begin \/ Fail
  PROVE  source' = source /\ \A u : Sent(u)' <=> Sent(u)
<1> USE DEF Sent, Done
<1>1. CASE Within
  <2>1. CASE Report
    BY <2>1 DEF Report, Typed
  <2>2. CASE GenDefs \/ GenCalls
    BY <2>2 DEF GenDefs, GenCalls, gen_batch_update_func_defs_stmt, gen_batch_update_func_calls_stmt
  <2>3. CASE Store
    BY <2>3 DEF Store
  <2>4. CASE UNCHANGED vars
    BY <2>4 DEF vars
  <2> QED BY <1>1, <2>1, <2>2, <2>3, <2>4 DEF Within
<1>2. CASE Begin
  BY <1>2 DEF Begin, Typed
<1>3. CASE Fail
  BY <1>3 DEF Fail, Typed
<1> QED BY <1>1, <1>2, <1>3

LEMMA SentAfterSend ==
  ASSUME Typed, send_indexed_result
  PROVE  source' = source /\ \A u : Sent(u)' <=> Sent(u) \/ u = n
BY DEF send_indexed_result, Sent, Done, Through, Typed

LEMMA UnitFacts ==
  ASSUME Typed, n > 0
  PROVE  n \in DOMAIN source /\ Unit = source[n] /\ Len(Unit) \in Nat /\ DOMAIN Unit = 1 .. Len(Unit)
BY SourceFacts DEF Typed, Unit

-----------------------------------------------------------------------------
(* Types                                                                    *)

LEMMA InitTyped ==
  ASSUME Init
  PROVE  Typed
<1>1. source \in Sources /\ Len(source) \in Nat
  BY SourceFacts DEF Init
<1>2. IsSequence(<<>>) /\ Len(<<>>) = 0 /\ <<>> \in Seq(Nat \X Nat)
  BY EmptyIsSequence
<1>3. origin \in Seq(Nat \X Nat) /\ next_call_id = Len(origin) + 1
  BY <1>2 DEF Init
<1>4. /\ IsSequence(func_defs) /\ IsSequence(func_calls) /\ IsSequence(stmts) /\ IsSequence(queue)
      /\ fd_start \in 1 .. Len(func_defs) + 1 /\ fc_start \in 1 .. Len(func_calls) + 1
  BY <1>2 DEF Init
<1>5. n = 0 /\ pos = 0 /\ cached \in BOOLEAN /\ fd_start = 1 /\ fc_start = 1 /\ failed = {} /\ missed = {}
      /\ func_defs = <<>> /\ func_calls = <<>> /\ stmts = <<>>
  BY DEF Init
<1> QED BY <1>1, <1>3, <1>4, <1>5 DEF Typed

\* While clang reports symbols no statement is made.
LEMMA ReportFinds ==
  ASSUME Typed, Report
  PROVE  fd_start = 1 /\ fc_start = 1 /\ stmts = <<>> /\ pos \in Nat \ {0} /\ n \in Nat \ {0} /\ n \notin failed
<1>1. n \in Nat \ {0} /\ pos \in Nat \ {0} /\ pos <= Len(Unit) /\ Len(Unit) \in Nat
  BY UnitFacts, SourceFacts DEF Typed, Report
<1>2. ~Through
  BY <1>1 DEF Through
<1> QED BY <1>1, <1>2 DEF Typed

\* What a symbol adds to the vectors: at most a row to one of them.
LEMMA ReportAdds ==
  ASSUME Typed, Report
  PROVE  /\ IsSequence(func_defs') /\ IsSequence(func_calls')
         /\ Len(func_defs') >= Len(func_defs) /\ Len(func_calls') >= Len(func_calls)
         /\ origin' \in Seq(Nat \X Nat) /\ next_call_id' = Len(origin') + 1
         /\ \/ UNCHANGED <<func_calls, next_call_id, origin>>
            \/ /\ UNCHANGED func_defs
               /\ origin' = Append(origin, <<n, pos>>)
               /\ \E might, file : func_calls' = Append(func_calls, Call(Caller, might, At.usr, file))
<1>1. PICK file : AddsDef(file) \/ AddsCall(file) \/ AddsNothing
  BY DEF Report
<1>2. /\ IsSequence(func_defs) /\ IsSequence(func_calls)
      /\ Len(func_defs) \in Nat /\ Len(func_calls) \in Nat
      /\ origin \in Seq(Nat \X Nat) /\ next_call_id = Len(origin) + 1
  BY SequenceUses DEF Typed
<1>3. CASE AddsDef(file)
  BY <1>2, <1>3, AppendToSequence DEF AddsDef, AddDef
<1>4. CASE AddsCall(file)
  <2>1. PICK might : AddCall(Caller, might, At.usr, file)
    BY <1>4 DEF AddsCall
  <2>2. <<n, pos>> \in Nat \X Nat
    BY ReportFinds
  <2>3. /\ origin' = Append(origin, <<n, pos>>) /\ next_call_id' = next_call_id + 1
        /\ func_calls' = Append(func_calls, Call(Caller, might, At.usr, file))
        /\ UNCHANGED func_defs
    BY <1>4, <2>1 DEF AddsCall, AddCall
  <2>4. origin' \in Seq(Nat \X Nat) /\ Len(origin') = Len(origin) + 1 /\ Len(origin) \in Nat
    BY <1>2, <2>2, <2>3
  <2>5. IsSequence(func_calls') /\ Len(func_calls') = Len(func_calls) + 1
    BY <1>2, <2>3, AppendToSequence
  <2> QED BY <1>2, <2>3, <2>4, <2>5
<1>5. CASE AddsNothing
  BY <1>2, <1>5 DEF AddsNothing, collected
<1> QED BY <1>1, <1>3, <1>4, <1>5

LEMMA GenDefsDoes ==
  ASSUME Typed, GenDefs
  PROVE  IsSequence(stmts') /\ Batched("defs", func_defs, ValidDefs, fd_start, fd_start')
<1>1. /\ fd_start' = BatchEnd(func_defs, ValidDefs, fd_start) /\ fd_start <= Len(func_defs)
      /\ AddStmt("defs", func_defs, ValidDefs \cap (fd_start .. fd_start' - 1))
  BY DEF GenDefs, gen_batch_update_func_defs_stmt
<1>2. Len(func_defs) \in Nat /\ DOMAIN func_defs = 1 .. Len(func_defs)
  BY SequenceUses DEF Typed
<1>3. ValidDefs \in SUBSET (1 .. Len(func_defs)) /\ fd_start \in 1 .. Len(func_defs)
  BY <1>1, <1>2 DEF ValidDefs, Typed
<1>4. IsSequence(stmts)
  BY DEF Typed
<1> QED BY <1>1, <1>2, <1>3, <1>4, BatchIsStatement

LEMMA GenCallsDoes ==
  ASSUME Typed, GenCalls
  PROVE  IsSequence(stmts') /\ Batched("calls", func_calls, ValidCalls, fc_start, fc_start')
<1>1. /\ fc_start' = BatchEnd(func_calls, ValidCalls, fc_start) /\ fc_start <= Len(func_calls)
      /\ AddStmt("calls", func_calls, ValidCalls \cap (fc_start .. fc_start' - 1))
  BY DEF GenCalls, gen_batch_update_func_calls_stmt
<1>2. Len(func_calls) \in Nat /\ DOMAIN func_calls = 1 .. Len(func_calls)
  BY SequenceUses DEF Typed
<1>3. ValidCalls \in SUBSET (1 .. Len(func_calls)) /\ fc_start \in 1 .. Len(func_calls)
  BY <1>1, <1>2 DEF ValidCalls, Typed
<1>4. IsSequence(stmts)
  BY DEF Typed
<1> QED BY <1>1, <1>2, <1>3, <1>4, BatchIsStatement

\* What is sent: the statements made, and one for the row of the unit.
PathStmt == [table |-> "paths", rows |-> <<[unit |-> n]>>]

LEMMA SendDoes ==
  ASSUME Typed, send_indexed_result
  PROVE  IsSequence(queue') /\ ToSet(queue') = ToSet(queue) \cup ToSet(stmts) \cup {PathStmt}
<1>1. queue' = queue \o Append(stmts, PathStmt)
  BY DEF send_indexed_result, PathStmt
<1>2. IsSequence(Append(stmts, PathStmt)) /\ ToSet(Append(stmts, PathStmt)) = ToSet(stmts) \cup {PathStmt}
  BY AppendToSequence DEF Typed
<1>3. IsSequence(queue)
  BY DEF Typed
<1>4. ToSet(queue') = ToSet(queue) \cup ToSet(Append(stmts, PathStmt)) /\ IsSequence(queue')
  BY <1>1, <1>2, <1>3, ConcatSequences
<1> QED BY <1>2, <1>4

LEMMA StoreTakes ==
  ASSUME Typed, Store
  PROVE  IsSequence(queue') /\ ToSet(queue) = {Head(queue)} \cup ToSet(queue')
BY TailOfSequence DEF Typed, Store

LEMMA TypedKept ==
  ASSUME Typed, [Next]_vars
  PROVE  Typed'
<1> SUFFICES ASSUME Within \/ Begin \/ Fail \/ send_indexed_result
             PROVE  Typed'
  BY StepIs
<1>0. /\ Len(source) \in Nat /\ pos \in Nat /\ n \in 0 .. Len(source)
      /\ Len(func_defs) \in Nat /\ Len(func_calls) \in Nat /\ source \in Sources
  BY SourceFacts, SequenceUses DEF Typed
<1>1. CASE Report
  <2>1. UNCHANGED <<source, n, fd_start, fc_start, stmts, queue, failed>> /\ n > 0 /\ cached' \in BOOLEAN
        /\ missed' \in {missed, missed \cup {n}} /\ pos' = pos + 1 /\ pos <= Len(Unit) /\ Unit' = Unit
    BY <1>1 DEF Report, batching, Unit
  <2>2. fd_start = 1 /\ fc_start = 1 /\ stmts = <<>> /\ n \notin failed
    BY <1>1, ReportFinds
  <2>3. /\ IsSequence(func_defs') /\ IsSequence(func_calls')
        /\ origin' \in Seq(Nat \X Nat) /\ next_call_id' = Len(origin') + 1
        /\ Len(func_defs') \in Nat /\ Len(func_calls') \in Nat
    BY <1>1, ReportAdds, SequenceUses
  <2>4. Len(Unit) \in Nat
    BY <1>1, <2>1, UnitFacts
  <2>5. missed' \in SUBSET (1 .. n) /\ failed \in SUBSET (1 .. n)
    BY <1>0, <2>1 DEF Typed
  <2>6. fd_start' \in 1 .. Len(func_defs') + 1 /\ fc_start' \in 1 .. Len(func_calls') + 1
    BY <2>1, <2>2, <2>3
  <2>7. pos' \in Nat /\ pos' > 0 /\ pos' <= Len(Unit') + 1
    BY <1>0, <2>1, <2>4
  <2>8. IsSequence(stmts) /\ IsSequence(queue)
    BY DEF Typed
  <2>9. source' \in Sources /\ n' \in 0 .. Len(source') /\ n' > 0 /\ stmts' = <<>>
        /\ failed' \in SUBSET (1 .. n') /\ missed' \in SUBSET (1 .. n') /\ n' \notin failed'
        /\ fd_start' = 1 /\ fc_start' = 1 /\ IsSequence(stmts') /\ IsSequence(queue')
    BY <1>0, <2>1, <2>2, <2>5, <2>8
  <2>10. cached' \in BOOLEAN /\ pos' # 0
    BY <2>1, <2>7
  <2> QED BY <2>3, <2>6, <2>7, <2>9, <2>10 DEF Typed
<1>2. CASE GenDefs
  <2>1. UNCHANGED <<source, n, pos, cached, func_defs, func_calls, next_call_id, origin, fc_start, queue, failed, missed>>
        /\ Through
    BY <1>2 DEF GenDefs, gen_batch_update_func_defs_stmt, collected
  <2>2. IsSequence(stmts') /\ fd_start' \in fd_start + 1 .. Len(func_defs) + 1 /\ fd_start \in 1 .. Len(func_defs)
    BY <1>2, GenDefsDoes DEF Batched
  <2>3. fd_start' \in 1 .. Len(func_defs') + 1 /\ fd_start' # 1
    BY <1>0, <2>1, <2>2
  <2>4. Through' /\ Unit' = Unit
    BY <2>1 DEF Through, Unit
  <2>5. pos # 0
    BY <2>1 DEF Through
  <2> QED BY <2>1, <2>2, <2>3, <2>4, <2>5 DEF Typed
<1>3. CASE GenCalls
  <2>1. UNCHANGED <<source, n, pos, cached, func_defs, func_calls, next_call_id, origin, fd_start, queue, failed, missed>>
        /\ Through
    BY <1>3 DEF GenCalls, gen_batch_update_func_calls_stmt, collected
  <2>2. IsSequence(stmts') /\ fc_start' \in fc_start + 1 .. Len(func_calls) + 1 /\ fc_start \in 1 .. Len(func_calls)
    BY <1>3, GenCallsDoes DEF Batched
  <2>3. fc_start' \in 1 .. Len(func_calls') + 1 /\ fc_start' # 1
    BY <1>0, <2>1, <2>2
  <2>4. Through' /\ Unit' = Unit
    BY <2>1 DEF Through, Unit
  <2>5. pos # 0
    BY <2>1 DEF Through
  <2> QED BY <2>1, <2>2, <2>3, <2>4, <2>5 DEF Typed
<1>4. CASE Store
  <2>1. UNCHANGED <<source, n, pos, cached, func_defs, func_calls, next_call_id, origin, fd_start, fc_start, stmts, failed, missed>>
    BY <1>4 DEF Store, collected, batching
  <2>2. IsSequence(queue')
    BY <1>4, StoreTakes
  <2> QED BY <2>1, <2>2 DEF Typed, Through, Unit
<1>5. CASE UNCHANGED vars
  BY <1>5 DEF Typed, Through, Unit, vars, collected, batching
<1>6. CASE Begin
  <2>1. UNCHANGED <<source, cached, func_defs, func_calls, next_call_id, origin, fd_start, fc_start, stmts, queue, failed, missed>>
        /\ pos = 0 /\ n < Len(source) /\ n' = n + 1 /\ pos' = 1
    BY <1>6 DEF Begin, collected, batching
  <2>2. func_defs = <<>> /\ func_calls = <<>> /\ stmts = <<>> /\ ~Through
    BY <2>1 DEF Typed, Through
  <2>3. fd_start = 1 /\ fc_start = 1
    BY <2>2 DEF Typed
  <2>4. n' \in 1 .. Len(source) /\ n \in Nat /\ Unit' = source[n']
    BY <1>0, <2>1 DEF Unit
  <2>5. Len(Unit') \in Nat
    BY <1>0, <2>4, SourceFacts
  <2>6. failed \in SUBSET (1 .. n) /\ missed \in SUBSET (1 .. n)
    BY DEF Typed
  <2>7. failed' \in SUBSET (1 .. n') /\ missed' \in SUBSET (1 .. n') /\ n' \notin failed'
    BY <2>1, <2>4, <2>6
  <2>8. pos' \in Nat /\ pos' > 0 /\ n' > 0 /\ pos' <= Len(Unit') + 1
    BY <2>1, <2>4, <2>5
  <2> QED BY <1>0, <2>1, <2>2, <2>3, <2>4, <2>7, <2>8 DEF Typed
<1>7. CASE Fail
  <2>1. UNCHANGED <<source, n, cached, next_call_id, origin, queue, missed>>
        /\ pos' = 0 /\ failed' = failed \cup {n} /\ n > 0
    BY <1>7 DEF Fail, Typed
  <2>2. /\ func_defs' = <<>> /\ func_calls' = <<>> /\ stmts' = <<>> /\ fd_start' = 1 /\ fc_start' = 1
    BY <1>7 DEF Fail, ClearCollected
  <2>3. failed' \in SUBSET (1 .. n)
    <3>1. failed \in SUBSET (1 .. n) /\ n \in 1 .. n
      BY <1>0, <2>1 DEF Typed
    <3> QED BY <2>1, <3>1
  <2> QED BY <2>1, <2>2, <2>3, EmptyIsSequence DEF Typed
<1>8. CASE send_indexed_result
  <2>1. UNCHANGED <<source, n, cached, next_call_id, origin, failed, missed>> /\ pos' = 0
    BY <1>8 DEF send_indexed_result
  <2>2. /\ func_defs' = <<>> /\ func_calls' = <<>> /\ stmts' = <<>> /\ fd_start' = 1 /\ fc_start' = 1
    BY <1>8 DEF send_indexed_result, ClearCollected
  <2>3. IsSequence(queue')
    BY <1>8, SendDoes
  <2> QED BY <2>1, <2>2, <2>3, EmptyIsSequence DEF Typed
<1> QED BY <1>1, <1>2, <1>3, <1>4, <1>5, <1>6, <1>7, <1>8 DEF Within

-----------------------------------------------------------------------------
(* The statements have rows                                                 *)

LEMMA PathStmtHas ==
  /\ PathStmt.table = "paths" /\ DOMAIN PathStmt.rows = {1}
  /\ PathStmt.rows[1] = [unit |-> n] /\ Range(PathStmt.rows) = {[unit |-> n]}
<1>1. PathStmt.rows = <<[unit |-> n]>> /\ PathStmt.table = "paths"
  BY DEF PathStmt
<1>2. DOMAIN <<[unit |-> n]>> = {1} /\ <<[unit |-> n]>>[1] = [unit |-> n]
  OBVIOUS
<1>3. DOMAIN PathStmt.rows = {1} /\ PathStmt.rows[1] = [unit |-> n]
  BY <1>1, <1>2
<1> QED BY <1>1, <1>3 DEF Range

LEMMA BatchSized ==
  ASSUME NEW table, NEW rows, NEW valid, NEW start, NEW end, Batched(table, rows, valid, start, end)
  PROVE  \A st \in ToSet(stmts') : st \in ToSet(stmts) \/ Sized(st)
BY DEF Batched

LEMMA SizedKept ==
  ASSUME Typed, StatementsSized, [Next]_vars
  PROVE  StatementsSized'
<1> SUFFICES ASSUME NEW st \in ToSet(stmts') \cup ToSet(queue')
             PROVE  st \in ToSet(stmts) \cup ToSet(queue) \/ Sized(st)
  BY DEF StatementsSized, Sized
<1>1. CASE Report \/ UNCHANGED vars \/ Begin
  <2>1. UNCHANGED <<stmts, queue>>
    BY <1>1 DEF Report, vars, Begin, batching
  <2> QED BY <2>1
<1>2. CASE GenDefs
  <2>1. queue' = queue
    BY <1>2 DEF GenDefs, gen_batch_update_func_defs_stmt
  <2> QED BY <1>2, <2>1, GenDefsDoes, BatchSized
<1>3. CASE GenCalls
  <2>1. queue' = queue
    BY <1>3 DEF GenCalls, gen_batch_update_func_calls_stmt
  <2> QED BY <1>3, <2>1, GenCallsDoes, BatchSized
<1>4. CASE Store
  <2>1. stmts' = stmts
    BY <1>4 DEF Store, batching
  <2> QED BY <1>4, <2>1, StoreTakes
<1>5. CASE Fail
  <2>1. stmts' = <<>> /\ queue' = queue
    BY <1>5 DEF Fail, ClearCollected
  <2> QED BY <2>1, EmptyIsSequence
<1>6. CASE send_indexed_result
  <2>1. stmts' = <<>>
    BY <1>6 DEF send_indexed_result, ClearCollected
  <2>2. Sized(PathStmt)
    <3>1. BatchSize \in Nat /\ BatchSize >= 1
      BY IndexAssumption
    <3>2. DOMAIN PathStmt.rows \in SUBSET Nat /\ Cardinality(DOMAIN PathStmt.rows) = 1
      BY PathStmtHas, FS_Singleton
    <3> QED BY <3>1, <3>2 DEF Sized
  <2> QED BY <1>6, <2>1, <2>2, SendDoes, EmptyIsSequence
<1> QED BY <1>1, <1>2, <1>3, <1>4, <1>5, <1>6, StepIs DEF Within

-----------------------------------------------------------------------------
(* Call ids                                                                 *)

LEMMA OriginDomain ==
  ASSUME Typed
  PROVE  Len(origin) \in Nat /\ DOMAIN origin = 1 .. Len(origin)
BY DEF Typed

\* A symbol that is given an id leaves those of the earlier ones alone.
LEMMA OriginAppended ==
  ASSUME Typed, origin' = Append(origin, <<n, pos>>)
  PROVE  /\ Len(origin') = Len(origin) + 1 /\ DOMAIN origin' = 1 .. Len(origin) + 1
         /\ \A i \in DOMAIN origin : i \in DOMAIN origin' /\ origin'[i] = origin[i]
         /\ origin'[Len(origin) + 1] = <<n, pos>>
<1>1. IsSequence(origin)
  BY SequenceOf DEF Typed
<1>2. /\ DOMAIN origin' = 1 .. Len(origin) + 1 /\ Len(origin') = Len(origin) + 1
      /\ (\A i \in 1 .. Len(origin) : origin'[i] = origin[i]) /\ origin'[Len(origin) + 1] = <<n, pos>>
  BY <1>1, AppendToSequence
<1> QED BY <1>2, OriginDomain

LEMMA OriginGrows ==
  ASSUME Typed, [Next]_vars
  PROVE  \A i \in DOMAIN origin : i \in DOMAIN origin' /\ origin'[i] = origin[i]
<1>1. CASE Report
  BY <1>1, ReportAdds, OriginAppended
<1>2. CASE ~Report
  <2>1. origin' = origin
    BY <1>2, StepIs DEF Within, GenDefs, GenCalls, gen_batch_update_func_defs_stmt,
       gen_batch_update_func_calls_stmt, Store, vars, Begin, Fail, send_indexed_result, collected
  <2> QED BY <2>1
<1> QED BY <1>1, <1>2

LEMMA OriginsKept ==
  ASSUME Typed, Origins, [Next]_vars
  PROVE  Origins'
<1>0. pos \in Nat /\ n \in Nat /\ \A i \in DOMAIN origin : origin[i][1] \in Nat /\ origin[i][2] \in Nat
  <2>1. \A i \in DOMAIN origin : origin[i] \in Nat \X Nat
    BY OriginDomain DEF Typed
  <2> QED BY <2>1, SourceFacts DEF Typed
<1>1. CASE Report
  <2>1. UNCHANGED <<source, n>> /\ pos' = pos + 1 /\ n \in Nat \ {0} /\ pos \in DOMAIN source[n] /\ pos > 0
    <3>1. pos \in 1 .. Len(Unit) /\ n > 0
      BY <1>1 DEF Report
    <3> QED BY <1>0, <1>1, <3>1, UnitFacts DEF Report
  <2>2. CASE origin' = Append(origin, <<n, pos>>)
    <3>1. /\ DOMAIN origin' = 1 .. Len(origin) + 1 /\ Len(origin) \in Nat /\ DOMAIN origin = 1 .. Len(origin)
          /\ \A i \in DOMAIN origin : i \in DOMAIN origin' /\ origin'[i] = origin[i]
          /\ origin'[Len(origin) + 1] = <<n, pos>>
      BY <2>2, OriginAppended, OriginDomain
    <3>2. \A i \in DOMAIN origin' : i \in DOMAIN origin \/ i = Len(origin) + 1
      BY <3>1
    <3>3. \A i \in DOMAIN origin : Reported(origin[i]) /\ origin[i] # <<n, pos>>
      BY <1>0, <2>1 DEF Origins, Reported
    <3>4. ASSUME NEW i \in DOMAIN origin' PROVE Reported(origin[i])'
      <4>1. CASE i \in DOMAIN origin
        BY <1>0, <2>1, <3>1, <3>3, <4>1 DEF Reported
      <4>2. CASE i = Len(origin) + 1
        BY <1>0, <2>1, <3>1, <4>2 DEF Reported
      <4> QED BY <3>2, <4>1, <4>2
    <3>5. \A i, j \in DOMAIN origin' : origin'[i] = origin'[j] => i = j
      BY <3>1, <3>2, <3>3 DEF Origins
    <3> QED BY <3>4, <3>5 DEF Origins
  <2>3. CASE origin' = origin
    <3>1. \A i \in DOMAIN origin : Reported(origin[i])'
      BY <1>0, <2>1, <2>3 DEF Origins, Reported
    <3> QED BY <2>3, <3>1 DEF Origins
  <2> QED BY <1>1, <2>2, <2>3, ReportAdds
<1>2. CASE GenDefs \/ GenCalls \/ Store \/ UNCHANGED vars
  <2>1. UNCHANGED <<source, n, pos, origin>>
    BY <1>2 DEF GenDefs, GenCalls, gen_batch_update_func_defs_stmt,
       gen_batch_update_func_calls_stmt, Store, vars, collected
  <2> QED BY <2>1 DEF Origins, Reported
<1>3. CASE Begin
  <2>1. UNCHANGED <<source, origin>> /\ n' = n + 1
    BY <1>3 DEF Begin, collected
  <2> QED BY <1>0, <2>1 DEF Origins, Reported
<1>4. CASE Fail \/ send_indexed_result
  <2>1. UNCHANGED <<source, n, origin>> /\ pos' = 0
    BY <1>4 DEF Fail, send_indexed_result
  <2> QED BY <2>1 DEF Origins, Reported
<1> QED BY <1>1, <1>2, <1>3, <1>4, StepIs DEF Within

-----------------------------------------------------------------------------
(* The tables                                                               *)

\* INSERT IGNORE adds the keys of the rows, keeps the rows of the keys it finds, and gives
\* a new key one of the rows with that key.
LEMMA InsertIgnoreKeys ==
  ASSUME NEW table, NEW rows, NEW keys
  PROVE  DOMAIN InsertIgnore(table, rows, keys) = DOMAIN table \cup Range(keys)
BY DEF InsertIgnore

LEMMA InsertIgnoreKeeps ==
  ASSUME NEW table, NEW rows, NEW keys, NEW k \in DOMAIN table
  PROVE  InsertIgnore(table, rows, keys)[k] = table[k]
BY DEF InsertIgnore

LEMMA InsertIgnoreAdds ==
  ASSUME NEW table, NEW rows, DOMAIN rows \in SUBSET Nat, NEW keys, DOMAIN keys = DOMAIN rows,
         NEW k \in Range(keys) \ DOMAIN table
  PROVE  \E i \in DOMAIN rows : keys[i] = k /\ InsertIgnore(table, rows, keys)[k] = rows[i]
<1> DEFINE With == {i \in DOMAIN rows : keys[i] = k}
<1>1. InsertIgnore(table, rows, keys)[k] = rows[Min(With)]
  BY DEF InsertIgnore
<1>2. With # {} /\ With \in SUBSET Nat
  BY DEF Range
<1> HIDE DEF With
<1>3. Min(With) \in With
  BY <1>2, MinOfNats
<1> QED BY <1>1, <1>3 DEF With

\* The tables after statement st is stored.
Stored(st) ==
  /\ ToSet(queue) = {st} \cup ToSet(queue')
  /\ \/ st.table # "defs" /\ defs' = defs
     \/ /\ st.table = "defs"
        /\ DOMAIN defs' = DOMAIN defs \cup {st.rows[m].usr : m \in DOMAIN st.rows}
  /\ \/ st.table # "calls" /\ calls' = calls
     \/ /\ st.table = "calls"
        /\ DOMAIN calls' = DOMAIN calls \cup {st.rows[m].id : m \in DOMAIN st.rows}
        /\ \A k \in DOMAIN calls : calls'[k] = calls[k]
        /\ \A k \in DOMAIN calls' \ DOMAIN calls :
             \E m \in DOMAIN st.rows : st.rows[m].id = k /\ calls'[k] = st.rows[m]
  /\ paths' = IF st.table # "paths" THEN paths ELSE paths \cup {row.unit : row \in Range(st.rows)}

LEMMA StoreDoes ==
  ASSUME Typed, StatementsSized, Store
  PROVE  \E st : Stored(st)
<1> SUFFICES ASSUME NEW st, st = Head(queue)
             PROVE  Stored(st)
  OBVIOUS
<1>1. ToSet(queue) = {st} \cup ToSet(queue')
  BY StoreTakes
<1>2. DOMAIN st.rows \in SUBSET Nat
  BY <1>1 DEF StatementsSized, Sized
<1> DEFINE usrs == [i \in DOMAIN st.rows |-> st.rows[i].usr]
           ids == [i \in DOMAIN st.rows |-> st.rows[i].id]
<1>3. /\ defs' = IF st.table # "defs" THEN defs ELSE InsertIgnore(defs, st.rows, usrs)
      /\ calls' = IF st.table # "calls" THEN calls ELSE InsertIgnore(calls, st.rows, ids)
      /\ paths' = IF st.table # "paths" THEN paths ELSE paths \cup {row.unit : row \in Range(st.rows)}
  BY DEF Store
<1>4. DOMAIN usrs = DOMAIN st.rows /\ DOMAIN ids = DOMAIN st.rows
      /\ \A i \in DOMAIN st.rows : usrs[i] = st.rows[i].usr /\ ids[i] = st.rows[i].id
  OBVIOUS
<1> HIDE DEF usrs, ids
<1>5. CASE st.table = "defs"
  <2>0. defs' = InsertIgnore(defs, st.rows, usrs)
    BY <1>3, <1>5
  <2>1. DOMAIN defs' = DOMAIN defs \cup Range(usrs)
    BY <2>0, InsertIgnoreKeys
  <2>2. Range(usrs) = {st.rows[m].usr : m \in DOMAIN st.rows}
    BY <1>4 DEF Range
  <2> QED BY <1>1, <1>3, <1>5, <2>1, <2>2 DEF Stored
<1>6. CASE st.table = "calls"
  <2>0. calls' = InsertIgnore(calls, st.rows, ids) /\ DOMAIN ids = DOMAIN st.rows
    BY <1>3, <1>4, <1>6
  <2>1. DOMAIN calls' = DOMAIN calls \cup Range(ids)
    BY <2>0, InsertIgnoreKeys
  <2>3. \A k \in DOMAIN calls : calls'[k] = calls[k]
    BY <2>0, InsertIgnoreKeeps
  <2>2. Range(ids) = {st.rows[m].id : m \in DOMAIN st.rows}
    BY <1>4 DEF Range
  <2>4. ASSUME NEW k \in DOMAIN calls' \ DOMAIN calls
        PROVE  \E m \in DOMAIN st.rows : st.rows[m].id = k /\ calls'[k] = st.rows[m]
    <3>1. k \in Range(ids) \ DOMAIN calls
      BY <2>1
    <3>2. PICK m \in DOMAIN st.rows : ids[m] = k /\ InsertIgnore(calls, st.rows, ids)[k] = st.rows[m]
      BY <1>2, <2>0, <3>1, InsertIgnoreAdds
    <3> QED BY <1>4, <2>0, <3>2
  <2> QED BY <1>1, <1>3, <1>6, <2>1, <2>2, <2>3, <2>4 DEF Stored
<1> QED BY <1>1, <1>3, <1>5, <1>6 DEF Stored

-----------------------------------------------------------------------------
(* The rows of calls                                                        *)

LEMMA SentStays ==
  ASSUME Typed, [Next]_vars
  PROVE  source' = source /\ \A u : Sent(u) => Sent(u)'
BY StepIs, SentKept, SentAfterSend

LEMMA RowsStay ==
  ASSUME Typed, [Next]_vars
  PROVE  \A r : (FromSymbol(r) => FromSymbol(r)') /\ (FromSent(r) => FromSent(r)')
<1> TAKE r
<1>1. FromSymbol(r) => FromSymbol(r)'
  BY OriginGrows, SentStays DEF FromSymbol
<1>2. FromSent(r) => r.id \in DOMAIN origin /\ Sent(origin[r.id][1])
  BY DEF FromSent, FromSymbol
<1>3. FromSent(r) => Sent(origin[r.id][1])'
  <2> SUFFICES ASSUME FromSent(r) PROVE Sent(origin[r.id][1])'
    OBVIOUS
  <2>1. PICK u : u = origin[r.id][1]
    OBVIOUS
  <2>2. Sent(u)' /\ u = origin'[r.id][1]
    BY <1>2, <2>1, OriginGrows, SentStays
  <2> QED BY <2>2 DEF Sent, Done
<1> QED BY <1>1, <1>3 DEF FromSent

\* The call that a symbol adds.
LEMMA CallAdded ==
  ASSUME Typed, Report, NEW file, AddsCall(file)
  PROVE  /\ UNCHANGED func_defs
         /\ origin' = Append(origin, <<n, pos>>)
         /\ \E r : /\ r.id = Len(origin) + 1 /\ r.usr = At.usr /\ r.caller = Caller /\ r.file = file
                   /\ func_calls' = Append(func_calls, r)
<1>1. PICK might : AddCall(Caller, might, At.usr, file)
  BY DEF AddsCall
<1>2. next_call_id = Len(origin) + 1
  BY DEF Typed
<1> DEFINE r == Call(Caller, might, At.usr, file)
<1>3. r.id = Len(origin) + 1 /\ r.usr = At.usr /\ r.caller = Caller /\ r.file = file
  BY <1>2 DEF Call
<1> HIDE DEF r
<1>4. func_calls' = Append(func_calls, r) /\ origin' = Append(origin, <<n, pos>>)
  BY <1>1 DEF AddCall, r
<1> QED BY <1>3, <1>4 DEF AddsCall

LEMMA CallRowsKept ==
  ASSUME Typed, StatementsSized, CallRows, [Next]_vars
  PROVE  CallRows'
<1>0. /\ \A r \in ToSet(func_calls) : FromSymbol(r)' /\ origin'[r.id] = origin[r.id] /\ origin[r.id][1] = n
      /\ \A st \in ToSet(queue) : st.table = "calls" => \A m \in DOMAIN st.rows : FromSent(st.rows[m])'
      /\ \A r \in Range(calls) : FromSent(r)'
  <2>1. \A r \in ToSet(func_calls) : FromSymbol(r) /\ r.id \in DOMAIN origin /\ origin[r.id][1] = n
    BY DEF CallRows, FromSymbol
  <2> QED BY <2>1, RowsStay, OriginGrows DEF CallRows
<1>1. CASE Report
  <2>1. UNCHANGED <<n, queue, calls>> /\ stmts' = <<>>
    BY <1>1, ReportFinds DEF Report, tables, batching
  <2>2. \A r \in ToSet(func_calls') : FromSymbol(r)' /\ origin'[r.id][1] = n
    <3>1. PICK file : /\ file # NoFile => At.loc # Outside
                      /\ AddsDef(file) \/ AddsCall(file) \/ AddsNothing
      BY <1>1 DEF Report
    <3>2. CASE AddsDef(file) \/ AddsNothing
      <4>1. func_calls' = func_calls
        BY <3>2 DEF AddsDef, AddsNothing, collected
      <4> QED BY <1>0, <4>1
    <3>3. CASE AddsCall(file)
      <4>1. PICK r : /\ r.id = Len(origin) + 1 /\ r.usr = At.usr /\ r.caller = Caller /\ r.file = file
                     /\ func_calls' = Append(func_calls, r) /\ origin' = Append(origin, <<n, pos>>)
        BY <1>1, <3>3, CallAdded
      <4>2. ToSet(func_calls') = ToSet(func_calls) \cup {r}
        BY <4>1, AppendToSequence DEF Typed
      <4>3. r.id \in DOMAIN origin' /\ origin'[r.id] = <<n, pos>>
        BY <4>1, OriginAppended, OriginDomain
      <4>4. source' = source /\ source[n][pos] = At
        BY <1>1 DEF Report, At, Unit
      <4>5. FromSymbol(r)'
        BY <3>1, <4>1, <4>3, <4>4 DEF FromSymbol, Caller
      <4> QED BY <1>0, <4>2, <4>3, <4>5
    <3> QED BY <3>1, <3>2, <3>3
  <2> QED BY <1>0, <2>1, <2>2, EmptyIsSequence DEF CallRows
<1>2. CASE GenDefs
  <2>1. UNCHANGED <<n, func_calls, origin, queue, calls>> /\ ValidCalls' = ValidCalls
    BY <1>2 DEF GenDefs, gen_batch_update_func_defs_stmt, collected, tables, ValidCalls
  <2>2. \A st \in ToSet(stmts') : st \in ToSet(stmts) \/ st.table = "defs"
    BY <1>2, GenDefsDoes DEF Batched
  <2> QED BY <1>0, <2>1, <2>2 DEF CallRows
<1>3. CASE GenCalls
  <2>1. UNCHANGED <<n, func_calls, origin, queue, calls>> /\ ValidCalls' = ValidCalls
    BY <1>3 DEF GenCalls, gen_batch_update_func_calls_stmt, collected, tables, ValidCalls
  <2>2. \A st \in ToSet(stmts') :
          st \in ToSet(stmts) \/ \A m \in DOMAIN st.rows : m \in ValidCalls /\ st.rows[m] = func_calls[m]
    BY <1>3, GenCallsDoes DEF Batched
  <2> QED BY <1>0, <2>1, <2>2 DEF CallRows
<1>4. CASE Store
  <2>1. UNCHANGED <<n, func_calls, origin, stmts>> /\ ValidCalls' = ValidCalls
    BY <1>4 DEF Store, collected, batching, ValidCalls
  <2>2. PICK st : Stored(st)
    BY <1>4, StoreDoes
  <2>3. /\ st \in ToSet(queue) /\ ToSet(queue) = {st} \cup ToSet(queue')
        /\ \/ calls' = calls
           \/ /\ st.table = "calls"
              /\ \A k \in DOMAIN calls : calls'[k] = calls[k]
              /\ \A k \in DOMAIN calls' \ DOMAIN calls :
                   \E m \in DOMAIN st.rows : st.rows[m].id = k /\ calls'[k] = st.rows[m]
    BY <2>2 DEF Stored
  <2>4. \A k \in DOMAIN calls' : \/ k \in DOMAIN calls /\ calls'[k] = calls[k]
                                 \/ /\ st.table = "calls"
                                    /\ \E m \in DOMAIN st.rows : st.rows[m].id = k /\ calls'[k] = st.rows[m]
    BY <2>3
  <2>5. \A k \in DOMAIN calls' : calls'[k].id = k
    BY <2>4 DEF CallRows
  <2>6. \A r \in Range(calls') : FromSent(r)'
    BY <1>0, <2>3, <2>4 DEF Range
  <2>7. \A x \in ToSet(queue') : x \in ToSet(queue)
    BY <2>3
  <2> QED BY <1>0, <2>1, <2>5, <2>6, <2>7 DEF CallRows
<1>5. CASE UNCHANGED vars \/ Begin
  <2>1. UNCHANGED <<func_calls, origin, stmts, queue, calls>> /\ ValidCalls' = ValidCalls
    BY <1>5 DEF vars, Begin, collected, batching, tables, ValidCalls
  <2>2. n' = n \/ func_calls = <<>>
    BY <1>5 DEF vars, Begin, Typed
  <2> QED BY <1>0, <2>1, <2>2, EmptyIsSequence DEF CallRows
<1>6. CASE Fail
  <2>1. UNCHANGED <<queue, calls>> /\ func_calls' = <<>> /\ stmts' = <<>>
    BY <1>6 DEF Fail, ClearCollected, tables
  <2> QED BY <1>0, <2>1, EmptyIsSequence DEF CallRows
<1>7. CASE send_indexed_result
  <2>1. calls' = calls /\ func_calls' = <<>> /\ stmts' = <<>> /\ origin' = origin
    BY <1>7 DEF send_indexed_result, ClearCollected, tables
  <2>2. ASSUME NEW st \in ToSet(stmts), st.table = "calls", NEW m \in DOMAIN st.rows
        PROVE  FromSent(st.rows[m])'
    <3>1. m \in ValidCalls /\ st.rows[m] = func_calls[m]
      BY <2>2 DEF CallRows
    <3>2. st.rows[m] \in ToSet(func_calls) /\ st.rows[m].file # NoFile /\ st.rows[m].caller # NoCaller
      BY <3>1, SequenceUses DEF ValidCalls, Typed
    <3>3. FromSymbol(st.rows[m])' /\ origin'[st.rows[m].id][1] = n
      BY <1>0, <3>2
    <3>4. Sent(n)'
      BY <1>7 DEF send_indexed_result, Sent, Done, Typed, Through
    <3>5. Sent(origin[st.rows[m].id][1])'
      BY <1>7, <3>3, <3>4 DEF Sent, Done, send_indexed_result
    <3> QED BY <3>2, <3>3, <3>5 DEF FromSent
  <2>3. \A st \in ToSet(queue') : st \in ToSet(queue) \/ st \in ToSet(stmts) \/ st.table # "calls"
    BY <1>7, SendDoes, PathStmtHas
  <2>4. \A st \in ToSet(queue') : st.table = "calls" => \A m \in DOMAIN st.rows : FromSent(st.rows[m])'
    BY <1>0, <2>2, <2>3
  <2> QED BY <1>0, <2>1, <2>4, EmptyIsSequence DEF CallRows
<1> QED BY <1>1, <1>2, <1>3, <1>4, <1>5, <1>6, <1>7, StepIs DEF Within

-----------------------------------------------------------------------------
(* No call is lost                                                          *)

\* Only a statement that is stored leaves the queue.
LEMMA QueueGrows ==
  ASSUME Typed, [Next]_vars, ~Store
  PROVE  ToSet(queue) \subseteq ToSet(queue') /\ defs' = defs /\ calls' = calls
<1>1. CASE send_indexed_result
  BY <1>1, SendDoes DEF send_indexed_result, tables
<1>2. CASE ~send_indexed_result
  <2>1. UNCHANGED <<queue, defs, calls>>
    BY <1>2, StepIs DEF Within, Report, GenDefs, GenCalls, gen_batch_update_func_defs_stmt,
       gen_batch_update_func_calls_stmt, vars, tables, Begin, Fail
  <2> QED BY <2>1
<1> QED BY <1>1, <1>2

LEMMA ListedStays ==
  ASSUME Typed, StatementsSized, CallRows, [Next]_vars, NEW o, Listed(o)
  PROVE  Listed(o)'
<1>0. \A r : FromSent(r) => origin'[r.id] = origin[r.id]
  BY OriginGrows DEF FromSent, FromSymbol
<1>1. CASE \E i \in DOMAIN calls : origin[i] = o
  <2>1. PICK i \in DOMAIN calls : origin[i] = o
    BY <1>1
  <2>2. FromSent(calls[i]) /\ calls[i].id = i
    BY DEF CallRows, Range
  <2>3. origin'[i] = o
    BY <1>0, <2>1, <2>2
  <2>4. i \in DOMAIN calls'
    <3>1. CASE Store
      BY <3>1, StoreDoes DEF Stored
    <3>2. CASE ~Store
      BY <3>2, QueueGrows
    <3> QED BY <3>1, <3>2
  <2> QED BY <2>3, <2>4 DEF Listed
<1>2. CASE \E st \in ToSet(queue) : st.table = "calls" /\ \E m \in DOMAIN st.rows : origin[st.rows[m].id] = o
  <2>1. PICK st \in ToSet(queue) : st.table = "calls" /\ \E m \in DOMAIN st.rows : origin[st.rows[m].id] = o
    BY <1>2
  <2>2. PICK m \in DOMAIN st.rows : origin[st.rows[m].id] = o
    BY <2>1
  <2>3. origin'[st.rows[m].id] = o
    BY <1>0, <2>1, <2>2 DEF CallRows
  <2>4. CASE st \in ToSet(queue')
    BY <2>1, <2>3, <2>4 DEF Listed
  <2>5. CASE st \notin ToSet(queue')
    <3>1. Store
      BY <2>5, QueueGrows
    <3>2. PICK x : Stored(x)
      BY <3>1, StoreDoes
    <3>3. x = st
      BY <2>5, <3>2 DEF Stored
    <3>4. st.rows[m].id \in DOMAIN calls'
      BY <2>1, <3>2, <3>3 DEF Stored
    <3> QED BY <2>3, <3>4 DEF Listed
  <2> QED BY <2>4, <2>5
<1> QED BY <1>1, <1>2 DEF Listed

\* A valid row stays where it is while its unit is indexed.
LEMMA ValidCallsStay ==
  ASSUME Typed, CallRows, [Next]_vars, pos > 0, pos' > 0, NEW m \in ValidCalls
  PROVE  /\ m \in ValidCalls' /\ func_calls'[m] = func_calls[m]
         /\ origin'[func_calls'[m].id] = origin[func_calls[m].id]
<1>1. m \in DOMAIN func_calls /\ func_calls[m].file # NoFile /\ func_calls[m].caller # NoCaller
  BY DEF ValidCalls
<1>2. m \in DOMAIN func_calls' /\ func_calls'[m] = func_calls[m]
  <2>1. IsSequence(func_calls) /\ Len(func_calls) \in Nat /\ DOMAIN func_calls = 1 .. Len(func_calls)
    BY SequenceUses DEF Typed
  <2>2. CASE func_calls' = func_calls
    BY <1>1, <2>2
  <2>3. CASE \E r : func_calls' = Append(func_calls, r)
    <3>1. PICK r : func_calls' = Append(func_calls, r)
      BY <2>3
    <3>2. DOMAIN func_calls' = 1 .. Len(func_calls) + 1 /\ \A i \in 1 .. Len(func_calls) : func_calls'[i] = func_calls[i]
      BY <2>1, <3>1, AppendToSequence
    <3> QED BY <1>1, <2>1, <3>2
  <2>4. CASE Report
    BY <2>2, <2>3, <2>4, ReportAdds
  <2>5. CASE ~Report
    <3>1. func_calls' = func_calls
      BY <2>5, StepIs DEF Within, GenDefs, GenCalls, gen_batch_update_func_defs_stmt, collected,
         gen_batch_update_func_calls_stmt, Store, vars, Begin, Fail, send_indexed_result
    <3> QED BY <1>1, <3>1
  <2> QED BY <2>4, <2>5
<1>3. func_calls[m].id \in DOMAIN origin
  BY <1>1, SequenceUses DEF Typed, CallRows, FromSymbol
<1> QED BY <1>1, <1>2, <1>3, OriginGrows DEF ValidCalls

LEMMA MissedGrows ==
  ASSUME Typed, [Next]_vars
  PROVE  missed \subseteq missed'
BY StepIs DEF Within, Report, GenDefs, GenCalls, gen_batch_update_func_defs_stmt,
   gen_batch_update_func_calls_stmt, Store, vars, Begin, Fail, send_indexed_result

LEMMA CollectedCallsKept ==
  ASSUME Typed, CallRows, CollectedCalls, [Next]_vars
  PROVE  CollectedCalls'
<1> SUFFICES ASSUME pos' > 0, n' \notin missed', NEW k \in 1 .. pos' - 1,
                    InProject(Unit[k], {"call"})'
             PROVE  \E m \in ValidCalls' : origin'[func_calls'[m].id] = <<n', k>>
  BY DEF CollectedCalls
<1>0. pos \in Nat /\ n \in Nat
  BY SourceFacts DEF Typed
<1>1. ASSUME n' = n, pos > 0, k \in 1 .. pos - 1, source' = source
      PROVE  \E m \in ValidCalls' : origin'[func_calls'[m].id] = <<n', k>>
  <2>1. n \notin missed /\ InProject(Unit[k], {"call"})
    BY <1>1, MissedGrows DEF Unit, InProject
  <2>2. PICK m \in ValidCalls : origin[func_calls[m].id] = <<n, k>>
    BY <1>1, <2>1 DEF CollectedCalls
  <2> QED BY <1>1, <2>2, ValidCallsStay
<1>2. CASE Report
  <2>1. UNCHANGED <<source, n>> /\ pos' = pos + 1 /\ pos > 0 /\ Unit' = Unit
    BY <1>0, <1>2, ReportFinds DEF Report, Unit
  <2>2. CASE k = pos
    <3>1. At.kind = "call" /\ At.loc # Outside
      BY <2>1, <2>2 DEF InProject, At
    <3>2. PICK file : /\ file = NoFile /\ At.loc # Outside => n \in missed'
                      /\ AddsDef(file) \/ AddsCall(file) \/ AddsNothing
      BY <1>2 DEF Report
    <3>3. AddsCall(file) /\ file # NoFile
      BY <2>1, <3>1, <3>2 DEF AddsDef, AddsNothing
    <3>4. PICK r : /\ r.id = Len(origin) + 1 /\ r.caller = Caller /\ r.file = file
                   /\ func_calls' = Append(func_calls, r) /\ origin' = Append(origin, <<n, pos>>)
      BY <1>2, <3>3, CallAdded
    <3>5. r.caller # NoCaller
      <4>1. n \in DOMAIN source /\ pos \in DOMAIN source[n] /\ At = source[n][pos] /\ source \in Sources
        BY <1>2, UnitFacts DEF Report, At, Unit, Typed
      <4>2. At.caller \in Usrs
        BY <3>1, <4>1, SourceFacts
      <4> QED BY <3>1, <3>4, <4>2, IndexAssumption DEF Caller
    <3>6. IsSequence(func_calls) /\ Len(func_calls) \in Nat
      BY SequenceUses DEF Typed
    <3>7. Len(func_calls) + 1 \in DOMAIN func_calls' /\ func_calls'[Len(func_calls) + 1] = r
      BY <3>4, <3>6, AppendToSequence
    <3>8. Len(func_calls) + 1 \in ValidCalls'
      BY <3>3, <3>4, <3>5, <3>7 DEF ValidCalls
    <3>9. origin'[r.id] = <<n, pos>>
      BY <3>4, OriginAppended
    <3> QED BY <2>1, <2>2, <3>7, <3>8, <3>9
  <2>3. CASE k # pos
    <3>1. k \in 1 .. pos - 1
      BY <1>0, <2>1, <2>3
    <3> QED BY <1>1, <2>1, <3>1
  <2> QED BY <2>2, <2>3
<1>3. CASE GenDefs \/ GenCalls \/ Store \/ UNCHANGED vars
  <2>1. UNCHANGED <<source, n, pos>>
    BY <1>3 DEF GenDefs, GenCalls, gen_batch_update_func_defs_stmt, gen_batch_update_func_calls_stmt,
       Store, vars
  <2> QED BY <1>1, <2>1
<1>4. CASE Begin
  BY <1>4 DEF Begin
<1>5. CASE Fail \/ send_indexed_result
  BY <1>5 DEF Fail, send_indexed_result
<1> QED BY <1>2, <1>3, <1>4, <1>5, StepIs DEF Within

LEMMA BatchedCallsKept ==
  ASSUME Typed, BatchedCalls, [Next]_vars
  PROVE  BatchedCalls'
<1>0. /\ IsSequence(func_calls) /\ Len(func_calls) \in Nat /\ DOMAIN func_calls = 1 .. Len(func_calls)
      /\ fc_start \in Nat
  BY SequenceUses DEF Typed
<1>1. CASE Report
  <2>1. fc_start' = 1
    BY <1>1, ReportFinds DEF Report, batching
  <2>2. \A m \in ValidCalls' : m \in Nat \ {0}
    BY <1>1, ReportAdds, SequenceUses DEF ValidCalls
  <2> QED BY <2>1, <2>2 DEF BatchedCalls
<1>2. CASE GenDefs
  <2>1. ValidCalls' = ValidCalls /\ fc_start' = fc_start
    BY <1>2 DEF GenDefs, gen_batch_update_func_defs_stmt, collected, ValidCalls
  <2>2. ToSet(stmts) \subseteq ToSet(stmts')
    BY <1>2, GenDefsDoes DEF Batched
  <2> QED BY <2>1, <2>2 DEF BatchedCalls
<1>3. CASE GenCalls
  <2>1. ValidCalls' = ValidCalls
    BY <1>3 DEF GenCalls, gen_batch_update_func_calls_stmt, collected, ValidCalls
  <2>2. ToSet(stmts) \subseteq ToSet(stmts') /\ fc_start' \in Nat
    BY <1>0, <1>3, GenCallsDoes DEF Batched
  <2>3. ASSUME NEW m \in ValidCalls, m < fc_start', ~(m < fc_start)
        PROVE  \E st \in ToSet(stmts') : st.table = "calls" /\ m \in DOMAIN st.rows
    <3>1. m \in Nat
      BY <1>0 DEF ValidCalls
    <3>2. m \in fc_start .. fc_start' - 1
      BY <1>0, <2>2, <2>3, <3>1, InBatch
    <3> QED BY <1>3, <3>2, GenCallsDoes DEF Batched
  <2> QED BY <2>1, <2>2, <2>3 DEF BatchedCalls
<1>4. CASE Store \/ Begin \/ UNCHANGED vars
  <2>1. UNCHANGED <<func_calls, fc_start, stmts>>
    BY <1>4 DEF Store, Begin, vars, collected, batching
  <2> QED BY <2>1 DEF BatchedCalls, ValidCalls
<1>5. CASE Fail \/ send_indexed_result
  <2>1. func_calls' = <<>>
    BY <1>5 DEF Fail, send_indexed_result, ClearCollected
  <2> QED BY <2>1, EmptyIsSequence DEF BatchedCalls, ValidCalls
<1> QED BY <1>1, <1>2, <1>3, <1>4, <1>5, StepIs DEF Within

LEMMA ListedCallsKept ==
  ASSUME Typed, StatementsSized, CallRows, CollectedCalls, BatchedCalls, ListedCalls, [Next]_vars
  PROVE  ListedCalls'
<1> SUFFICES ASSUME NEW u \in DOMAIN source' \ missed', Sent(u)',
                    NEW k \in DOMAIN source'[u], InProject(source'[u][k], {"call"})
             PROVE  Listed(<<u, k>>)'
  BY DEF ListedCalls, InProject
<1>1. source' = source /\ u \in DOMAIN source \ missed
  BY MissedGrows, SentStays
<1>2. CASE Sent(u)
  BY <1>1, <1>2, ListedStays DEF ListedCalls
<1>3. CASE ~Sent(u)
  <2>1. send_indexed_result /\ u = n
    BY <1>3, StepIs, SentKept, SentAfterSend
  <2>2. pos > 0 /\ pos = Len(Unit) + 1 /\ fc_start > Len(func_calls) /\ origin' = origin /\ n > 0
    BY <2>1 DEF send_indexed_result, Through, Typed
  <2>3. k \in 1 .. pos - 1 /\ Unit[k] = source[u][k]
    BY <1>1, <2>1, <2>2, UnitFacts
  <2>4. PICK m \in ValidCalls : origin[func_calls[m].id] = <<n, k>>
    BY <1>1, <2>1, <2>2, <2>3 DEF CollectedCalls
  <2>5. m < fc_start
    BY <2>2, SequenceUses DEF ValidCalls, Typed
  <2>6. PICK st \in ToSet(stmts) : st.table = "calls" /\ m \in DOMAIN st.rows
    BY <2>4, <2>5 DEF BatchedCalls
  <2>7. origin'[st.rows[m].id] = <<u, k>>
    BY <2>1, <2>2, <2>4, <2>6 DEF CallRows
  <2>8. st \in ToSet(queue')
    BY <2>1, <2>6, SendDoes
  <2> QED BY <2>6, <2>7, <2>8 DEF Listed
<1> QED BY <1>2, <1>3

-----------------------------------------------------------------------------
(* The rows of definitions                                                  *)

LEMMA DefinedStays ==
  ASSUME Typed, [Next]_vars
  PROVE  /\ \A u, f : DefinedIn(u, f)' <=> DefinedIn(u, f)
         /\ \A f : DefinedInSent(f) => DefinedInSent(f)'
<1>1. \A u, f : DefinedIn(u, f)' <=> DefinedIn(u, f)
  BY SentStays DEF DefinedIn, InProject
<1>2. ASSUME NEW f, DefinedInSent(f) PROVE DefinedInSent(f)'
  <2>1. PICK u \in DOMAIN source : Sent(u) /\ DefinedIn(u, f)
    BY <1>2 DEF DefinedInSent
  <2>2. u \in DOMAIN source' /\ Sent(u)' /\ DefinedIn(u, f)'
    BY <1>1, <2>1, SentStays
  <2> QED BY <2>2 DEF DefinedInSent
<1> QED BY <1>1, <1>2

\* The definition that a symbol adds.
LEMMA DefAdded ==
  ASSUME Typed, Report, NEW file, AddsDef(file)
  PROVE  \E r : r.usr = At.usr /\ r.file = file /\ func_defs' = Append(func_defs, r)
<1>1. PICK might : AddDef(At.usr, file, might)
  BY DEF AddsDef
<1> DEFINE r == [usr |-> At.usr, file |-> file, might |-> might]
<1>2. r.usr = At.usr /\ r.file = file
  OBVIOUS
<1>3. func_defs' = Append(func_defs, r)
  BY <1>1 DEF AddDef
<1> HIDE DEF r
<1> QED BY <1>2, <1>3

LEMMA ReportAddsDef ==
  ASSUME Typed, Report
  PROVE  \/ func_defs' = func_defs
         \/ /\ At.kind \in {"def", "macro"}
            /\ \E r : /\ r.usr = At.usr /\ func_defs' = Append(func_defs, r)
                      /\ r.file # NoFile => At.loc # Outside
                      /\ r.file = NoFile /\ At.loc # Outside => n \in missed'
<1>1. PICK file : /\ file # NoFile => At.loc # Outside
                  /\ file = NoFile /\ At.loc # Outside => n \in missed'
                  /\ AddsDef(file) \/ AddsCall(file) \/ AddsNothing
  BY DEF Report
<1>2. CASE AddsDef(file)
  BY <1>1, <1>2, DefAdded DEF AddsDef
<1>3. CASE AddsCall(file) \/ AddsNothing
  BY <1>3 DEF AddsCall, AddsNothing, collected
<1> QED BY <1>1, <1>2, <1>3

LEMMA DefRowsKept ==
  ASSUME Typed, StatementsSized, DefRows, [Next]_vars
  PROVE  DefRows'
<1>0. /\ \A st \in ToSet(queue) : st.table = "defs" => \A m \in DOMAIN st.rows : DefinedInSent(st.rows[m].usr)'
      /\ \A f \in DOMAIN defs : DefinedInSent(f)'
      /\ IsSequence(func_defs) /\ Len(func_defs) \in Nat /\ DOMAIN func_defs = 1 .. Len(func_defs)
  BY DefinedStays, SequenceUses DEF DefRows, Typed
<1>1. ASSUME UNCHANGED <<n, func_defs>>
      PROVE  ValidDefs' = ValidDefs /\ \A m \in ValidDefs' : DefinedIn(n, func_defs[m].usr)'
  <2>1. ValidDefs' = ValidDefs
    BY <1>1 DEF ValidDefs
  <2>2. source' = source
    BY SentStays
  <2> QED BY <1>1, <2>1, <2>2 DEF DefRows, DefinedIn, InProject
<1>2. CASE Report
  <2>1. UNCHANGED <<source, n, queue, defs>> /\ stmts' = <<>>
    BY <1>2, ReportFinds DEF Report, tables, batching
  <2>2. ASSUME NEW m \in ValidDefs' PROVE DefinedIn(n, func_defs[m].usr)'
    <3>1. CASE func_defs' = func_defs
      BY <1>1, <2>1, <2>2, <3>1
    <3>2. CASE func_defs' # func_defs
      <4>1. PICK r : /\ At.kind \in {"def", "macro"}
                     /\ r.usr = At.usr /\ func_defs' = Append(func_defs, r)
                     /\ r.file # NoFile => At.loc # Outside
        BY <1>2, <3>2, ReportAddsDef
      <4>2. /\ DOMAIN func_defs' = 1 .. Len(func_defs) + 1
            /\ \A i \in 1 .. Len(func_defs) : func_defs'[i] = func_defs[i]
            /\ func_defs'[Len(func_defs) + 1] = r
        BY <1>0, <4>1, AppendToSequence
      <4>3. CASE m = Len(func_defs) + 1
        <5>1. At.loc # Outside /\ func_defs'[m].usr = At.usr
          BY <2>2, <4>1, <4>2, <4>3 DEF ValidDefs
        <5>2. n \in DOMAIN source /\ pos \in DOMAIN source[n] /\ At = source[n][pos]
          BY <1>2, UnitFacts DEF Report, At, Unit
        <5>3. InProject(source[n][pos], {"def", "macro"})
          BY <4>1, <5>1, <5>2 DEF InProject
        <5> QED BY <2>1, <5>1, <5>2, <5>3 DEF DefinedIn, InProject
      <4>4. CASE m # Len(func_defs) + 1
        <5>1. m \in 1 .. Len(func_defs)
          BY <1>0, <2>2, <4>2, <4>4 DEF ValidDefs
        <5>2. m \in ValidDefs /\ func_defs'[m] = func_defs[m]
          BY <1>0, <2>2, <4>2, <5>1 DEF ValidDefs
        <5> QED BY <2>1, <5>2 DEF DefRows, DefinedIn, InProject
      <4> QED BY <4>3, <4>4
    <3> QED BY <3>1, <3>2
  <2> QED BY <1>0, <2>1, <2>2, EmptyIsSequence DEF DefRows
<1>3. CASE GenDefs
  <2>1. UNCHANGED <<n, func_defs, queue, defs>>
    BY <1>3 DEF GenDefs, gen_batch_update_func_defs_stmt, collected, tables
  <2>2. \A st \in ToSet(stmts') :
          st \in ToSet(stmts) \/ \A m \in DOMAIN st.rows : m \in ValidDefs /\ st.rows[m] = func_defs[m]
    BY <1>3, GenDefsDoes DEF Batched
  <2> QED BY <1>0, <1>1, <2>1, <2>2 DEF DefRows
<1>4. CASE GenCalls
  <2>1. UNCHANGED <<n, func_defs, queue, defs>>
    BY <1>4 DEF GenCalls, gen_batch_update_func_calls_stmt, collected, tables
  <2>2. \A st \in ToSet(stmts') : st \in ToSet(stmts) \/ st.table = "calls"
    BY <1>4, GenCallsDoes DEF Batched
  <2> QED BY <1>0, <1>1, <2>1, <2>2 DEF DefRows
<1>5. CASE Store
  <2>1. UNCHANGED <<n, func_defs, stmts>>
    BY <1>5 DEF Store, collected, batching
  <2>2. PICK st : Stored(st)
    BY <1>5, StoreDoes
  <2>3. /\ st \in ToSet(queue) /\ \A x \in ToSet(queue') : x \in ToSet(queue)
        /\ \A f \in DOMAIN defs' : \/ f \in DOMAIN defs
                                   \/ st.table = "defs" /\ \E m \in DOMAIN st.rows : st.rows[m].usr = f
    BY <2>2 DEF Stored
  <2>4. \A f \in DOMAIN defs' : DefinedInSent(f)'
    BY <1>0, <2>3
  <2> QED BY <1>0, <1>1, <2>1, <2>3, <2>4 DEF DefRows
<1>6. CASE UNCHANGED vars \/ Begin
  <2>1. UNCHANGED <<func_defs, stmts, queue, defs>>
    BY <1>6 DEF vars, Begin, collected, batching, tables
  <2>2. n' = n \/ func_defs' = <<>>
    BY <1>6, <2>1 DEF vars, Begin, Typed
  <2>3. ValidDefs' = ValidDefs /\ \A m \in ValidDefs' : DefinedIn(n, func_defs[m].usr)'
    BY <1>1, <2>1, <2>2, EmptyIsSequence DEF ValidDefs
  <2> QED BY <1>0, <2>1, <2>3 DEF DefRows
<1>7. CASE Fail
  <2>1. UNCHANGED <<queue, defs>> /\ func_defs' = <<>> /\ stmts' = <<>>
    BY <1>7 DEF Fail, ClearCollected, tables
  <2> QED BY <1>0, <2>1, EmptyIsSequence DEF DefRows, ValidDefs
<1>8. CASE send_indexed_result
  <2>1. defs' = defs /\ func_defs' = <<>> /\ stmts' = <<>>
    BY <1>8 DEF send_indexed_result, ClearCollected, tables
  <2>2. ASSUME NEW st \in ToSet(stmts), st.table = "defs", NEW m \in DOMAIN st.rows
        PROVE  DefinedInSent(st.rows[m].usr)'
    <3>1. PICK f : f = st.rows[m].usr
      OBVIOUS
    <3>2. DefinedIn(n, f)
      BY <2>2, <3>1 DEF DefRows
    <3>3. source' = source /\ n' = n /\ Sent(n)' /\ n \in DOMAIN source
      BY <1>8, UnitFacts, SentStays DEF send_indexed_result, Sent, Done, Typed, Through
    <3>4. DefinedInSent(f)'
      BY <3>2, <3>3 DEF DefinedInSent, DefinedIn, InProject, Sent, Done
    <3> QED BY <3>1, <3>4
  <2>3. \A st \in ToSet(queue') : st \in ToSet(queue) \/ st \in ToSet(stmts) \/ st.table # "defs"
    BY <1>8, SendDoes, PathStmtHas
  <2> QED BY <1>0, <2>1, <2>2, <2>3, EmptyIsSequence DEF DefRows, ValidDefs
<1> QED BY <1>2, <1>3, <1>4, <1>5, <1>6, <1>7, <1>8, StepIs DEF Within

-----------------------------------------------------------------------------
(* No definition is lost                                                    *)

LEMMA DefinedIsKept ==
  ASSUME Typed, StatementsSized, [Next]_vars, NEW f, Defined(f)
  PROVE  Defined(f)'
<1>1. CASE f \in DOMAIN defs
  <2>1. CASE Store
    BY <1>1, <2>1, StoreDoes DEF Stored, Defined
  <2>2. CASE ~Store
    BY <1>1, <2>2, QueueGrows DEF Defined
  <2> QED BY <2>1, <2>2
<1>2. CASE f \notin DOMAIN defs
  <2>1. PICK st \in ToSet(queue) : st.table = "defs" /\ \E m \in DOMAIN st.rows : st.rows[m].usr = f
    BY <1>2 DEF Defined
  <2>2. CASE st \in ToSet(queue')
    BY <2>1, <2>2 DEF Defined
  <2>3. CASE st \notin ToSet(queue')
    <3>1. Store
      BY <2>1, <2>3, QueueGrows
    <3>2. PICK x : Stored(x)
      BY <3>1, StoreDoes
    <3>3. x = st
      BY <2>1, <2>3, <3>2 DEF Stored
    <3>4. f \in DOMAIN defs'
      BY <2>1, <3>2, <3>3 DEF Stored
    <3> QED BY <3>4 DEF Defined
  <2> QED BY <2>2, <2>3
<1> QED BY <1>1, <1>2

LEMMA ValidDefsStay ==
  ASSUME Typed, [Next]_vars, pos > 0, pos' > 0, NEW m \in ValidDefs
  PROVE  m \in ValidDefs' /\ func_defs'[m] = func_defs[m]
<1>1. m \in DOMAIN func_defs /\ func_defs[m].file # NoFile
  BY DEF ValidDefs
<1>2. m \in DOMAIN func_defs' /\ func_defs'[m] = func_defs[m]
  <2>1. IsSequence(func_defs) /\ Len(func_defs) \in Nat /\ DOMAIN func_defs = 1 .. Len(func_defs)
    BY SequenceUses DEF Typed
  <2>2. CASE func_defs' = func_defs
    BY <1>1, <2>2
  <2>3. CASE func_defs' # func_defs
    <3>1. Report
      BY <2>3, StepIs DEF Within, GenDefs, GenCalls, gen_batch_update_func_defs_stmt, collected,
         gen_batch_update_func_calls_stmt, Store, vars, Begin, Fail, send_indexed_result
    <3>2. PICK r : func_defs' = Append(func_defs, r)
      BY <2>3, <3>1, ReportAddsDef
    <3>3. DOMAIN func_defs' = 1 .. Len(func_defs) + 1 /\ \A i \in 1 .. Len(func_defs) : func_defs'[i] = func_defs[i]
      BY <2>1, <3>2, AppendToSequence
    <3> QED BY <1>1, <2>1, <3>3
  <2> QED BY <2>2, <2>3
<1> QED BY <1>1, <1>2 DEF ValidDefs

LEMMA CollectedDefsKept ==
  ASSUME Typed, CollectedDefs, [Next]_vars
  PROVE  CollectedDefs'
<1> SUFFICES ASSUME pos' > 0, n' \notin missed', NEW k \in 1 .. pos' - 1,
                    InProject(Unit[k], {"def", "macro"})'
             PROVE  \E m \in ValidDefs' : func_defs'[m].usr = Unit'[k].usr
  BY DEF CollectedDefs
<1>0. pos \in Nat /\ n \in Nat
  BY SourceFacts DEF Typed
<1>1. ASSUME n' = n, pos > 0, k \in 1 .. pos - 1, source' = source
      PROVE  \E m \in ValidDefs' : func_defs'[m].usr = Unit'[k].usr
  <2>1. n \notin missed /\ InProject(Unit[k], {"def", "macro"}) /\ Unit' = Unit
    BY <1>1, MissedGrows DEF Unit, InProject
  <2>2. PICK m \in ValidDefs : func_defs[m].usr = Unit[k].usr
    BY <1>1, <2>1 DEF CollectedDefs
  <2> QED BY <1>1, <2>1, <2>2, ValidDefsStay
<1>2. CASE Report
  <2>1. UNCHANGED <<source, n>> /\ pos' = pos + 1 /\ pos > 0 /\ Unit' = Unit
    BY <1>0, <1>2, ReportFinds DEF Report, Unit
  <2>2. CASE k = pos
    <3>1. At.kind \in {"def", "macro"} /\ At.loc # Outside /\ Unit'[k] = At
      BY <2>1, <2>2 DEF InProject, At
    <3>2. PICK file : /\ file = NoFile /\ At.loc # Outside => n \in missed'
                      /\ AddsDef(file) \/ AddsCall(file) \/ AddsNothing
      BY <1>2 DEF Report
    <3>3. AddsDef(file) /\ file # NoFile
      BY <2>1, <3>1, <3>2 DEF AddsCall, AddsNothing
    <3>4. PICK r : r.usr = At.usr /\ r.file = file /\ func_defs' = Append(func_defs, r)
      BY <1>2, <3>3, DefAdded
    <3>5. IsSequence(func_defs) /\ Len(func_defs) \in Nat
      BY SequenceUses DEF Typed
    <3>6. Len(func_defs) + 1 \in DOMAIN func_defs' /\ func_defs'[Len(func_defs) + 1] = r
      BY <3>4, <3>5, AppendToSequence
    <3>7. Len(func_defs) + 1 \in ValidDefs'
      BY <3>3, <3>4, <3>6 DEF ValidDefs
    <3> QED BY <3>1, <3>4, <3>6, <3>7
  <2>3. CASE k # pos
    <3>1. k \in 1 .. pos - 1
      BY <1>0, <2>1, <2>3
    <3> QED BY <1>1, <2>1, <3>1
  <2> QED BY <2>2, <2>3
<1>3. CASE GenDefs \/ GenCalls \/ Store \/ UNCHANGED vars
  <2>1. UNCHANGED <<source, n, pos>>
    BY <1>3 DEF GenDefs, GenCalls, gen_batch_update_func_defs_stmt, gen_batch_update_func_calls_stmt,
       Store, vars
  <2> QED BY <1>1, <2>1
<1>4. CASE Begin
  BY <1>4 DEF Begin
<1>5. CASE Fail \/ send_indexed_result
  BY <1>5 DEF Fail, send_indexed_result
<1> QED BY <1>2, <1>3, <1>4, <1>5, StepIs DEF Within

LEMMA BatchedDefsKept ==
  ASSUME Typed, BatchedDefs, [Next]_vars
  PROVE  BatchedDefs'
<1>0. /\ IsSequence(func_defs) /\ Len(func_defs) \in Nat /\ DOMAIN func_defs = 1 .. Len(func_defs)
      /\ fd_start \in Nat
  BY SequenceUses DEF Typed
<1>1. CASE Report
  <2>1. fd_start' = 1
    BY <1>1, ReportFinds DEF Report, batching
  <2>2. \A m \in ValidDefs' : m \in Nat \ {0}
    BY <1>1, ReportAdds, SequenceUses DEF ValidDefs
  <2> QED BY <2>1, <2>2 DEF BatchedDefs
<1>2. CASE GenCalls
  <2>1. ValidDefs' = ValidDefs /\ fd_start' = fd_start
    BY <1>2 DEF GenCalls, gen_batch_update_func_calls_stmt, collected, ValidDefs
  <2>2. ToSet(stmts) \subseteq ToSet(stmts')
    BY <1>2, GenCallsDoes DEF Batched
  <2> QED BY <2>1, <2>2 DEF BatchedDefs
<1>3. CASE GenDefs
  <2>1. ValidDefs' = ValidDefs
    BY <1>3 DEF GenDefs, gen_batch_update_func_defs_stmt, collected, ValidDefs
  <2>2. ToSet(stmts) \subseteq ToSet(stmts') /\ fd_start' \in Nat
    BY <1>0, <1>3, GenDefsDoes DEF Batched
  <2>3. ASSUME NEW m \in ValidDefs, m < fd_start', ~(m < fd_start)
        PROVE  \E st \in ToSet(stmts') : st.table = "defs" /\ m \in DOMAIN st.rows
    <3>1. m \in Nat
      BY <1>0 DEF ValidDefs
    <3>2. m \in fd_start .. fd_start' - 1
      BY <1>0, <2>2, <2>3, <3>1, InBatch
    <3> QED BY <1>3, <3>2, GenDefsDoes DEF Batched
  <2> QED BY <2>1, <2>2, <2>3 DEF BatchedDefs
<1>4. CASE Store \/ Begin \/ UNCHANGED vars
  <2>1. UNCHANGED <<func_defs, fd_start, stmts>>
    BY <1>4 DEF Store, Begin, vars, collected, batching
  <2> QED BY <2>1 DEF BatchedDefs, ValidDefs
<1>5. CASE Fail \/ send_indexed_result
  <2>1. func_defs' = <<>>
    BY <1>5 DEF Fail, send_indexed_result, ClearCollected
  <2> QED BY <2>1, EmptyIsSequence DEF BatchedDefs, ValidDefs
<1> QED BY <1>1, <1>2, <1>3, <1>4, <1>5, StepIs DEF Within

LEMMA ListedDefsKept ==
  ASSUME Typed, StatementsSized, DefRows, CollectedDefs, BatchedDefs, ListedDefs, [Next]_vars
  PROVE  ListedDefs'
<1> SUFFICES ASSUME NEW u \in DOMAIN source' \ missed', Sent(u)', NEW f \in Usrs, DefinedIn(u, f)'
             PROVE  Defined(f)'
  BY DEF ListedDefs
<1>1. source' = source /\ u \in DOMAIN source \ missed /\ DefinedIn(u, f)
  BY MissedGrows, SentStays, DefinedStays
<1>2. CASE Sent(u)
  BY <1>1, <1>2, DefinedIsKept DEF ListedDefs
<1>3. CASE ~Sent(u)
  <2>1. send_indexed_result /\ u = n
    BY <1>3, StepIs, SentKept, SentAfterSend
  <2>2. pos > 0 /\ pos = Len(Unit) + 1 /\ fd_start > Len(func_defs) /\ n > 0
    BY <2>1 DEF send_indexed_result, Through, Typed
  <2>3. PICK k \in 1 .. pos - 1 : InProject(Unit[k], {"def", "macro"}) /\ Unit[k].usr = f
    <3>1. PICK k \in DOMAIN source[n] : InProject(source[n][k], {"def", "macro"}) /\ source[n][k].usr = f
      BY <1>1, <2>1 DEF DefinedIn
    <3> QED BY <2>2, <3>1, UnitFacts
  <2>4. PICK m \in ValidDefs : func_defs[m].usr = f
    BY <1>1, <2>1, <2>2, <2>3 DEF CollectedDefs
  <2>5. m < fd_start
    BY <2>2, SequenceUses DEF ValidDefs, Typed
  <2>6. PICK st \in ToSet(stmts) : st.table = "defs" /\ m \in DOMAIN st.rows
    BY <2>4, <2>5 DEF BatchedDefs
  <2>7. st.rows[m].usr = f
    BY <2>4, <2>6 DEF DefRows
  <2>8. st \in ToSet(queue')
    BY <2>1, <2>6, SendDoes
  <2> QED BY <2>6, <2>7, <2>8 DEF Defined
<1> QED BY <1>2, <1>3

-----------------------------------------------------------------------------
(* The units with a row                                                     *)

LEMMA PathsKept ==
  ASSUME Typed, StatementsSized, PathsOfSent, [Next]_vars
  PROVE  PathsOfSent'
<1>0. source' = source /\ \A u : Sent(u) => Sent(u)'
  BY SentStays
<1>1. CASE send_indexed_result
  <2>1. stmts' = <<>> /\ paths' = paths /\ ToSet(queue') = ToSet(queue) \cup ToSet(stmts) \cup {PathStmt}
    BY <1>1, SendDoes DEF send_indexed_result, ClearCollected, tables
  <2>2. \A u : Sent(u)' <=> Sent(u) \/ u = n
    BY <1>1, SentAfterSend
  <2>3. PathStmt.table = "paths" /\ \A row : row \in Range(PathStmt.rows) <=> row = [unit |-> n]
    BY PathStmtHas
  <2>4. ASSUME NEW st \in ToSet(queue'), st.table = "paths", NEW row \in Range(st.rows)
        PROVE  Sent(row.unit)'
    <3>1. CASE st \in ToSet(queue)
      BY <1>0, <2>4, <3>1 DEF PathsOfSent
    <3>2. CASE st \in ToSet(stmts)
      BY <2>4, <3>2 DEF PathsOfSent
    <3>3. CASE st = PathStmt
      <4>1. row.unit = n
        BY <2>3, <2>4, <3>3
      <4> QED BY <2>2, <4>1
    <3> QED BY <2>1, <3>1, <3>2, <3>3
  <2>5. ASSUME NEW u \in DOMAIN source, Sent(u)'
        PROVE  u \in paths \/ \E st \in ToSet(queue') : st.table = "paths" /\ \E row \in Range(st.rows) : row.unit = u
    <3>1. CASE Sent(u)
      BY <2>1, <3>1 DEF PathsOfSent
    <3>2. CASE u = n
      <4>1. [unit |-> n] \in Range(PathStmt.rows) /\ [unit |-> n].unit = u
        BY <2>3, <3>2
      <4> QED BY <2>1, <2>3, <4>1
    <3> QED BY <2>2, <2>5, <3>1, <3>2
  <2> QED BY <1>0, <2>1, <2>4, <2>5, EmptyIsSequence DEF PathsOfSent
<1>2. CASE Store
  <2>1. stmts' = stmts
    BY <1>2 DEF Store, batching
  <2>2. PICK st : Stored(st)
    BY <1>2, StoreDoes
  <2>3. /\ ToSet(queue) = {st} \cup ToSet(queue')
        /\ paths' = IF st.table # "paths" THEN paths ELSE paths \cup {row.unit : row \in Range(st.rows)}
    BY <2>2 DEF Stored
  <2>4. \A u : Sent(u)' <=> Sent(u)
    BY <1>2, SentKept DEF Within
  <2>5. \A u \in paths' : Sent(u)'
    BY <2>3, <2>4 DEF PathsOfSent
  <2>6. ASSUME NEW u \in DOMAIN source, Sent(u)'
        PROVE  u \in paths' \/ \E x \in ToSet(queue') : x.table = "paths" /\ \E row \in Range(x.rows) : row.unit = u
    <3>1. CASE u \in paths
      BY <2>3, <3>1
    <3>2. CASE u \notin paths
      <4>1. PICK x \in ToSet(queue) : x.table = "paths" /\ \E row \in Range(x.rows) : row.unit = u
        BY <2>4, <2>6, <3>2 DEF PathsOfSent
      <4> QED BY <2>3, <4>1
    <3> QED BY <3>1, <3>2
  <2> QED BY <1>0, <2>1, <2>3, <2>4, <2>5, <2>6 DEF PathsOfSent
<1>3. CASE ~send_indexed_result /\ ~Store
  <2>1. \A u : Sent(u)' <=> Sent(u)
    BY <1>3, StepIs, SentKept
  <2>2. UNCHANGED <<queue, paths>>
    BY <1>3, StepIs DEF Within, Report, GenDefs, GenCalls, gen_batch_update_func_defs_stmt,
       gen_batch_update_func_calls_stmt, vars, tables, Begin, Fail
  <2>3. \A st \in ToSet(stmts') : st.table \in {"defs", "calls"}
    <3>1. CASE GenDefs
      BY <3>1, GenDefsDoes DEF Batched, PathsOfSent
    <3>2. CASE GenCalls
      BY <3>2, GenCallsDoes DEF Batched, PathsOfSent
    <3>3. CASE ~GenDefs /\ ~GenCalls
      <4>1. stmts' = stmts \/ stmts' = <<>>
        BY <1>3, <3>3, StepIs DEF Within, Report, vars, batching, Begin, Fail, ClearCollected
      <4> QED BY <4>1, EmptyIsSequence DEF PathsOfSent
    <3> QED BY <3>1, <3>2, <3>3
  <2> QED BY <1>0, <2>1, <2>2, <2>3 DEF PathsOfSent
<1> QED BY <1>1, <1>2, <1>3

-----------------------------------------------------------------------------
(* The theorems                                                             *)

LEMMA InitUnitInv ==
  ASSUME Init
  PROVE  UnitInv
<1>1. Typed
  BY InitTyped
<1>2. /\ ToSet(stmts) = {} /\ ToSet(queue) = {} /\ ToSet(func_calls) = {} /\ DOMAIN func_calls = {}
      /\ DOMAIN func_defs = {} /\ DOMAIN origin = {} /\ DOMAIN calls = {} /\ DOMAIN defs = {} /\ paths = {}
      /\ pos = 0 /\ n = 0
  BY EmptyIsSequence DEF Init
<1>3. Range(calls) = {} /\ ValidDefs = {} /\ ValidCalls = {} /\ \A u : ~Sent(u)
  BY <1>2 DEF Range, ValidDefs, ValidCalls, Sent, Done
<1>4. StatementsSized /\ Origins /\ CallRows
  BY <1>2, <1>3 DEF StatementsSized, Origins, CallRows
<1>5. CallsKept
  BY <1>2, <1>3 DEF CallsKept, CollectedCalls, BatchedCalls, ListedCalls
<1>6. DefRows
  BY <1>2, <1>3 DEF DefRows
<1>7. DefsKept
  BY <1>2, <1>3 DEF DefsKept, CollectedDefs, BatchedDefs, ListedDefs
<1>8. PathsOfSent
  BY <1>2, <1>3 DEF PathsOfSent
<1> QED BY <1>1, <1>4, <1>5, <1>6, <1>7, <1>8 DEF UnitInv

LEMMA UnitInvKept ==
  ASSUME UnitInv, [Next]_vars
  PROVE  UnitInv'
<1>1. /\ Typed /\ StatementsSized /\ Origins /\ CallRows /\ DefRows /\ PathsOfSent
      /\ CollectedCalls /\ BatchedCalls /\ ListedCalls
      /\ CollectedDefs /\ BatchedDefs /\ ListedDefs
  BY DEF UnitInv, CallsKept, DefsKept
<1>2. Typed' /\ StatementsSized' /\ Origins' /\ CallRows' /\ DefRows' /\ PathsOfSent'
  BY <1>1, TypedKept, SizedKept, OriginsKept, CallRowsKept, DefRowsKept, PathsKept
<1>3. CollectedCalls' /\ BatchedCalls' /\ ListedCalls'
  BY <1>1, CollectedCallsKept, BatchedCallsKept, ListedCallsKept
<1>4. CollectedDefs' /\ BatchedDefs' /\ ListedDefs'
  BY <1>1, CollectedDefsKept, BatchedDefsKept, ListedDefsKept
<1> QED BY <1>2, <1>3, <1>4 DEF UnitInv, CallsKept, DefsKept

\* The inductive invariant: whatever clang reports, wherever a unit fails and wherever the
\* batches end, each row and each statement is of a symbol of its unit, and each symbol in
\* a file that has its id is on its way to the tables (ParseTask.cc:213-330).
THEOREM UnitAlways == Spec => []UnitInv
<1>1. Init => UnitInv
  BY InitUnitInv
<1>2. UnitInv /\ [Next]_vars => UnitInv'
  BY UnitInvKept
<1> QED BY <1>1, <1>2, PTL DEF Spec

LEMMA DefinedAreUsrs ==
  ASSUME Typed, NEW f, DefinedInSent(f)
  PROVE  f \in Usrs
BY SourceFacts DEF Typed, DefinedInSent, DefinedIn

\* Every variable has its type; an id is given out once, and the rows of the tables have
\* ids given out, functions that exist and units that clang could index.
THEOREM UnitTypes == Spec => []TypeOK
<1>1. UnitInv => TypeOK
  <2> SUFFICES ASSUME UnitInv PROVE TypeOK
    OBVIOUS
  <2>1. Typed
    BY DEF UnitInv
  <2>2. /\ n \in 0 .. Len(source) /\ pos \in Nat /\ (pos > 0 => n > 0) /\ cached \in BOOLEAN
    BY <2>1 DEF Typed
  <2>3. n > 0 => pos <= Len(Unit) + 1
    BY <2>1, UnitFacts DEF Typed
  <2>4. next_call_id = Len(origin) + 1 /\ Len(origin) \in Nat /\ DOMAIN origin = 1 .. Len(origin)
    BY <2>1, OriginDomain DEF Typed
  <2>5. \A r : r.id \in DOMAIN origin => r.id < next_call_id
    BY <2>4
  <2>6. \A i \in DOMAIN func_calls : func_calls[i].id < next_call_id
    BY <2>1, <2>5, SequenceUses DEF UnitInv, CallRows, FromSymbol, Typed
  <2>7. \A i \in DOMAIN calls : i < next_call_id /\ calls[i].id = i
    BY <2>5 DEF UnitInv, CallRows, FromSent, FromSymbol, Range
  <2>8. DOMAIN defs \subseteq Usrs
    BY <2>1, DefinedAreUsrs DEF UnitInv, DefRows
  <2>9. paths \subseteq 1 .. n \ failed
    BY DEF UnitInv, PathsOfSent, Sent, Done
  <2> QED BY <2>2, <2>3, <2>4, <2>6, <2>7, <2>8, <2>9 DEF TypeOK
<1> QED BY <1>1, UnitAlways, PTL

\* No statement is sent without a row or with more rows than the size of a batch, however
\* many rows the batch skips (gen_batch_update_func_defs_stmt and _func_calls_stmt).
THEOREM UnitStatementsHaveRows == Spec => []StatementsHaveRows
<1>1. UnitInv => StatementsHaveRows
  <2> SUFFICES ASSUME UnitInv, NEW i \in DOMAIN queue
               PROVE  Cardinality(DOMAIN queue[i].rows) \in 1 .. BatchSize
    BY DEF StatementsHaveRows
  <2>1. queue[i] \in ToSet(queue)
    BY SequenceUses DEF UnitInv, Typed
  <2> QED BY <2>1 DEF UnitInv, StatementsSized, Sized
<1> QED BY <1>1, UnitAlways, PTL

LEMMA SameCount ==
  ASSUME NEW S, IsFiniteSet(S), NEW T, NEW f \in [S -> T],
         \A a, b \in S : f[a] = f[b] => a = b, \A t \in T : \E a \in S : f[a] = t
  PROVE  Cardinality(T) = Cardinality(S)
<1>1. f \in Bijection(S, T)
  BY Fun_IsBij
<1> QED BY <1>1, FS_Bijection DEF ExistsBijection

LEMMA SymbolsAre ==
  ASSUME NEW kinds, NEW p
  PROVE  p \in Symbols(kinds) <=>
           \E u \in Indexed : \E k \in DOMAIN source[u] : InProject(source[u][k], kinds) /\ p = <<u, k>>
BY DEF Symbols

\* When everything is stored, the units sent are those that clang could index.
LEMMA StoredIsSent ==
  ASSUME UnitInv, AllStored
  PROVE  ToSet(queue) = {} /\ missed = {} /\ \A u : Sent(u) <=> u \in Indexed
<1>1. DOMAIN source = 1 .. n
  BY SourceFacts DEF UnitInv, Typed, AllStored
<1> QED BY <1>1, EmptyIsSequence DEF AllStored, Sent, Done, Indexed

SymbolOf(p) == source[p[1]][p[2]]

LEMMA CallOfRow ==
  ASSUME UnitInv, AllStored, NEW i \in DOMAIN calls
  PROVE  /\ i \in DOMAIN origin /\ origin[i] \in Symbols({"call"})
         /\ calls[i].caller = SymbolOf(origin[i]).caller /\ calls[i].usr = SymbolOf(origin[i]).usr
<1>1. FromSent(calls[i]) /\ calls[i].id = i
  BY DEF UnitInv, CallRows, Range
<1>2. i \in DOMAIN origin /\ calls[i].file # NoFile /\ calls[i].caller # NoCaller /\ Sent(origin[i][1])
  BY <1>1 DEF FromSent, FromSymbol
<1>3. /\ calls[i].usr = SymbolOf(origin[i]).usr
      /\ calls[i].caller = IF SymbolOf(origin[i]).kind = "call" THEN SymbolOf(origin[i]).caller ELSE NoCaller
      /\ calls[i].file # NoFile => SymbolOf(origin[i]).loc # Outside
  BY <1>1 DEF FromSent, FromSymbol, SymbolOf
<1>4. InProject(SymbolOf(origin[i]), {"call"}) /\ calls[i].caller = SymbolOf(origin[i]).caller
  BY <1>2, <1>3 DEF InProject
<1>5. PICK u, k : u = origin[i][1] /\ k = origin[i][2]
  OBVIOUS
<1>6. origin[i] = <<u, k>>
  <2>1. origin[i] \in Nat \X Nat
    BY <1>2, OriginDomain DEF UnitInv, Typed
  <2> QED BY <1>5, <2>1
<1>7. u \in Indexed /\ k \in DOMAIN source[u]
  BY <1>2, <1>5, StoredIsSent DEF UnitInv, Origins, Reported
<1> QED BY <1>2, <1>3, <1>4, <1>5, <1>6, <1>7, SymbolsAre DEF SymbolOf

LEMMA RowOfCall ==
  ASSUME UnitInv, AllStored, NEW p \in Symbols({"call"})
  PROVE  \E i \in DOMAIN calls : origin[i] = p
<1>1. PICK u \in Indexed : \E k \in DOMAIN source[u] : InProject(source[u][k], {"call"}) /\ p = <<u, k>>
  BY SymbolsAre
<1>2. PICK k \in DOMAIN source[u] : InProject(source[u][k], {"call"}) /\ p = <<u, k>>
  BY <1>1
<1>3. u \in DOMAIN source \ missed /\ Sent(u)
  BY StoredIsSent DEF Indexed
<1>4. Listed(p)
  BY <1>2, <1>3 DEF UnitInv, CallsKept, ListedCalls
<1> QED BY <1>4, StoredIsSent DEF Listed

LEMMA RowsAreCalls ==
  ASSUME UnitInv, AllStored, NEW callers, NEW callees
  PROVE  Rows(callers, callees) = SourceCalls(callers, callees)
<1> DEFINE S == {i \in DOMAIN calls : calls[i].caller \in callers /\ calls[i].usr \in callees}
           T == {p \in Symbols({"call"}) : SymbolOf(p).caller \in callers /\ SymbolOf(p).usr \in callees}
           f == [i \in S |-> origin[i]]
<1>1. IsFiniteSet(S)
  <2>1. S \subseteq 1 .. Len(origin) /\ Len(origin) \in Nat
    BY CallOfRow, OriginDomain DEF UnitInv
  <2>2. IsFiniteSet(1 .. Len(origin))
    BY <2>1, FS_Interval
  <2> QED BY <2>1, <2>2, FS_Subset
<1>2. f \in [S -> T]
  <2>1. \A i \in S : origin[i] \in T
    BY CallOfRow
  <2> QED BY <2>1
<1>3. \A a, b \in S : f[a] = f[b] => a = b
  BY CallOfRow DEF UnitInv, Origins
<1>4. \A p \in T : \E a \in S : f[a] = p
  <2> TAKE p \in T
  <2>1. PICK i \in DOMAIN calls : origin[i] = p
    BY RowOfCall
  <2>2. i \in S
    BY <2>1, CallOfRow
  <2> QED BY <2>1, <2>2
<1>5. Rows(callers, callees) = Cardinality(S) /\ SourceCalls(callers, callees) = Cardinality(T)
  BY DEF Rows, SourceCalls, SymbolOf
<1> HIDE DEF S, T, f
<1> QED BY <1>1, <1>2, <1>3, <1>4, <1>5, SameCount

LEMMA DefsAreSource ==
  ASSUME UnitInv, AllStored
  PROVE  DOMAIN defs = SourceDefs
<1>1. ASSUME NEW f \in DOMAIN defs PROVE f \in SourceDefs
  <2>1. PICK u \in DOMAIN source : Sent(u) /\ DefinedIn(u, f)
    BY DEF UnitInv, DefRows, DefinedInSent
  <2>2. PICK k \in DOMAIN source[u] : InProject(source[u][k], {"def", "macro"}) /\ source[u][k].usr = f
    BY <2>1 DEF DefinedIn
  <2>3. <<u, k>> \in Symbols({"def", "macro"})
    BY <2>1, <2>2, StoredIsSent, SymbolsAre
  <2>4. f = source[<<u, k>>[1]][<<u, k>>[2]].usr
    BY <2>2
  <2> QED BY <2>3, <2>4 DEF SourceDefs
<1>2. ASSUME NEW f \in SourceDefs PROVE f \in DOMAIN defs
  <2>1. PICK p \in Symbols({"def", "macro"}) : f = source[p[1]][p[2]].usr
    BY DEF SourceDefs
  <2>2. PICK u \in Indexed : \E k \in DOMAIN source[u] :
                               InProject(source[u][k], {"def", "macro"}) /\ p = <<u, k>>
    BY SymbolsAre
  <2>3. DefinedIn(u, f)
    BY <2>1, <2>2 DEF DefinedIn
  <2>4. u \in DOMAIN source \ missed /\ Sent(u)
    BY StoredIsSent DEF Indexed
  <2>5. f \in Usrs
    BY <2>3, <2>4, DefinedAreUsrs DEF UnitInv, DefinedInSent
  <2>6. Defined(f)
    BY <2>3, <2>4, <2>5 DEF UnitInv, DefsKept, ListedDefs
  <2> QED BY <2>6, StoredIsSent DEF Defined
<1> QED BY <1>1, <1>2

\* Once everything is stored the listings of callers and callees are the calls of the
\* source, each counted once for each unit that has it, the callers that no unit defines in
\* the project apart: the ids of the rows are a bijection from the rows counted onto the
\* calls (Main.cc:337-499).
THEOREM UnitListingsFollowSource == Spec => []ListingsFollowSource
<1>1. UnitInv => ListingsFollowSource
  <2> SUFFICES ASSUME UnitInv, AllStored
               PROVE  /\ paths = Indexed /\ DOMAIN defs = SourceDefs
                      /\ \A name \in Names :
                           /\ \A u \in DOMAIN CalleesOf(name) : \A callee \in Names :
                                CalleesOf(name)[u][callee] = SourceCalls({u}, Named(callee))
                           /\ \A caller \in Names :
                                CallersOf(name)[caller] = SourceCalls(SourceDefs \cap Named(caller), Named(name))
    BY DEF ListingsFollowSource
  <2>1. paths = Indexed
    <3>1. \A u \in paths : u \in Indexed
      BY StoredIsSent DEF UnitInv, PathsOfSent
    <3>2. \A u \in Indexed : u \in paths
      BY StoredIsSent DEF UnitInv, PathsOfSent, Indexed
    <3> QED BY <3>1, <3>2
  <2>2. DOMAIN defs = SourceDefs
    BY DefsAreSource
  <2>3. ASSUME NEW name \in Names, NEW u \in DOMAIN CalleesOf(name), NEW callee \in Names
        PROVE  CalleesOf(name)[u][callee] = SourceCalls({u}, Named(callee))
    <3>1. CalleesOf(name)[u][callee] = Rows({u}, Named(callee))
      BY <2>3 DEF CalleesOf
    <3> QED BY <3>1, RowsAreCalls
  <2>4. ASSUME NEW name \in Names, NEW caller \in Names
        PROVE  CallersOf(name)[caller] = SourceCalls(SourceDefs \cap Named(caller), Named(name))
    <3>1. CallersOf(name)[caller] = Rows(SourceDefs \cap Named(caller), Named(name))
      BY <2>2, <2>4 DEF CallersOf
    <3> QED BY <3>1, RowsAreCalls
  <2> QED BY <2>1, <2>2, <2>3, <2>4
<1> QED BY <1>1, UnitAlways, PTL
=============================================================================
