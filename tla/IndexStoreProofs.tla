-------------------------- MODULE IndexStoreProofs --------------------------
(***************************************************************************)
(* Proofs about IndexStore, for any units, store tasks, bounds and numbers *)
(* of runs, crashes and edits between them.  What the ids promise holds    *)
(* whatever the database does; what the order of a batch promises holds    *)
(* while no statement is lost without an error.                            *)
(***************************************************************************)
EXTENDS IndexStore, NatSets

Ids == Nat \ {0}

Reading == Nat \X Nat

PathRow == [file : Files, time : Nat]

BatchSet == [unit : Units, file : Ids, hid : Ids \cup {NoId}, time : Ids, from : Reading]

Lefts == {Statements, <<"calls", "path">>, <<"path">>}

HandSet == [batch : BatchSet, left : Lefts]

Labels == {"todo", "parsing", "located", "over"}

\* The types; a unit that is being indexed has an id, a time, and once clang is through
\* with it the contents that were read.
StoreTyped ==
  /\ now \in 1 .. MaxTime /\ mtime \in [Files -> 1 .. now] /\ edits \in [Files -> Nat]
  /\ before \in [Files -> Nat] /\ \A f \in Files : before[f] <= edits[f]
  /\ phase \in {"down", "up", "exited"} /\ runs \in 0 .. MaxRuns /\ next_id \in Ids
  /\ unit \in [Units -> Labels]
  /\ id \in [Units -> Ids \cup {NoId}] /\ hid \in [Units -> Ids \cup {NoId}]
  /\ time \in [Units -> 0 .. now] /\ seen \in [Units -> Reading \cup {Unread}]
  /\ \A u \in Units : unit[u] \in {"parsing", "located"} => id[u] # NoId /\ time[u] # 0
  /\ \A u \in Units : unit[u] = "located" => seen[u] # Unread

\* The same for what is on its way to the database, for what is there, and the history.
QueueTyped ==
  /\ queue \in Seq(BatchSet) /\ hand \in [Stores -> HandSet \cup {Idle}]
  /\ \A k \in 1 .. Len(queue) : queue[k].time <= now
  /\ \A s \in Stores : hand[s] # Idle => hand[s].batch.time <= now

TablesTyped ==
  /\ paths \in [DOMAIN paths -> PathRow] /\ DOMAIN paths \in SUBSET Ids
  /\ \A i \in DOMAIN paths : paths[i].time <= now
  /\ \E n \in Nat : \A i \in DOMAIN paths : i <= n
  /\ DOMAIN defs \in SUBSET Files /\ \A f \in DOMAIN defs : defs[f] \in Ids
  /\ calls \in SUBSET [unit : Units, file : Ids, from : Reading] /\ clean \in BOOLEAN

\* Where the result of a unit is.
InQueue(u) == \E k \in 1 .. Len(queue) : queue[k].unit = u
InHand(u) == \E s \in Stores : hand[s] # Idle /\ hand[s].batch.unit = u
OnTheWay(u) == unit[u] \in {"parsing", "located"} \/ InQueue(u) \/ InHand(u)

\* A unit is sent once in a run, with its id.
SentOnce ==
  /\ \A k \in 1 .. Len(queue) : unit[queue[k].unit] = "over" /\ queue[k].file = id[queue[k].unit]
  /\ \A s \in Stores : hand[s] # Idle =>
       /\ unit[hand[s].batch.unit] = "over" /\ hand[s].batch.file = id[hand[s].batch.unit]
       /\ ~InQueue(hand[s].batch.unit)
  /\ \A j, k \in 1 .. Len(queue) : queue[j].unit = queue[k].unit => j = k
  /\ \A s, r \in Stores :
       hand[s] # Idle /\ hand[r] # Idle /\ hand[s].batch.unit = hand[r].batch.unit => s = r

\* The ids up to next_filepath_id_ are in use, each by one file.
IdsBelow ==
  /\ phase = "up" => \A i \in DOMAIN paths : i < next_id
  /\ \A u \in Units : (id[u] # NoId => id[u] < next_id) /\ (hid[u] # NoId => hid[u] < next_id)
  /\ phase # "up" => \A u \in Units : unit[u] = "todo"
  /\ \A u \in Units : unit[u] = "todo" => id[u] = NoId

\* The row with the id of a unit is the unit's, and not there while the result is on its way.
OwnRow ==
  \A u \in Units : id[u] \in DOMAIN paths => paths[id[u]].file = u /\ ~OnTheWay(u)

IdsInv == /\ StoreTyped /\ QueueTyped /\ TablesTyped
          /\ SentOnce /\ IdsBelow /\ OwnRow /\ IdsInUseDiffer

-----------------------------------------------------------------------------
\* What was read of a file from second t on is what it holds, but for the changes of that
\* second, or the file was changed later.
CurrentOrNewer(f, contents, t) == mtime[f] > t \/ CurrentFor(f, contents, t)

\* The same in the next state.
CurrentThen(f, contents, t) ==
  mtime'[f] > t \/ contents = edits'[f] \/ (mtime'[f] = t /\ contents >= before'[f])

\* What was read of a unit: its own file and its header.
Current(u, from, t) == CurrentOrNewer(u, from[1], t) /\ CurrentOrNewer(Header, from[2], t)
CurrentAfter(u, from, t) == CurrentThen(u, from[1], t) /\ CurrentThen(Header, from[2], t)

ReadCurrent ==
  /\ \A u \in Units : unit[u] = "located" => Current(u, seen[u], time[u])
  /\ \A k \in 1 .. Len(queue) : Current(queue[k].unit, queue[k].from, queue[k].time)
  /\ \A s \in Stores : hand[s] # Idle =>
       Current(hand[s].batch.unit, hand[s].batch.from, hand[s].batch.time)

\* The statements of a batch that are gone were executed.
InOrder ==
  \A s \in Stores : hand[s] # Idle =>
    /\ hand[s].left # Statements => hand[s].batch.unit \in DOMAIN defs
    /\ hand[s].left = <<"path">> => CallsOf(hand[s].batch) \in calls

\* The row of a unit comes with a definition, and with calls that are as current as it.
RowsHaveCalls ==
  \A u \in Units : \A i \in Rows(u) :
    /\ u \in DOMAIN defs
    /\ \E c \in calls : c.unit = u /\ c.file = i /\ Current(u, c.from, paths[i].time)

OrderInv == ReadCurrent /\ InOrder /\ RowsHaveCalls

\* As new as the files of the unit, and a row that is.
New(u, t) == t >= mtime[u] /\ t >= mtime[Header]
HasNewRow(u) == \E i \in Rows(u) : New(u, paths[i].time)

\* While nothing fails and no file is changed, a unit that is done with has a new row, or
\* will have.
CleanInv ==
  clean =>
    /\ \A u \in Units : unit[u] \in {"parsing", "located"} => New(u, time[u])
    /\ \A k \in 1 .. Len(queue) : New(queue[k].unit, queue[k].time)
    /\ \A s \in Stores : hand[s] # Idle => New(hand[s].batch.unit, hand[s].batch.time)
    /\ phase = "up" => \A u \in Units :
         unit[u] = "over" => InQueue(u) \/ InHand(u) \/ HasNewRow(u)
    /\ phase = "exited" => \A u \in Units : HasNewRow(u)

-----------------------------------------------------------------------------
(* What the operators of the module do                                      *)

\* REPLACE of a row.
LEMMA Replaced ==
  ASSUME NEW i, NEW f, NEW t
  PROVE  /\ DOMAIN ReplacePath(i, f, t) = DOMAIN paths \cup {i}
         /\ ReplacePath(i, f, t)[i] = [file |-> f, time |-> t]
         /\ \A j \in DOMAIN paths : j # i => ReplacePath(i, f, t)[j] = paths[j]
BY DEF ReplacePath

\* INSERT IGNORE of the definitions of a batch.
LEMMA Inserted ==
  ASSUME NEW b \in BatchSet, DOMAIN defs \in SUBSET Files, \A f \in DOMAIN defs : defs[f] \in Ids
  PROVE  /\ DOMAIN defs \subseteq DOMAIN InsertDefs(b) /\ b.unit \in DOMAIN InsertDefs(b)
         /\ DOMAIN InsertDefs(b) \in SUBSET Files
         /\ \A f \in DOMAIN InsertDefs(b) : InsertDefs(b)[f] \in Ids
<1>1. b.unit \in Units /\ b.file \in Ids /\ (b.hid # NoId => b.hid \in Ids)
  BY DEF BatchSet
<1> QED BY <1>1 DEF InsertDefs, Files

\* The statements of a batch, one by one.
LEMMA TheLefts ==
  /\ Statements = <<"defs", "calls", "path">> /\ Statements \in Lefts
  /\ \A left \in Lefts :
       /\ left # <<>>
       /\ Head(left) \in {"defs", "calls", "path"}
       /\ Head(left) = "defs" <=> left = Statements
       /\ Head(left) = "path" <=> left = <<"path">>
       /\ Tail(left) = <<>> <=> left = <<"path">>
       /\ left # <<"path">> => Tail(left) \in Lefts /\ Tail(left) # Statements
       /\ Tail(left) = <<"path">> => Head(left) = "calls"
<1> DEFINE a == <<"defs", "calls", "path">>
           b == <<"calls", "path">>
           c == <<"path">>
<1>1. Statements = a /\ Lefts = {a, b, c}
  BY DEF Statements, Lefts
<1>2. Len(a) = 3 /\ Len(b) = 2 /\ Len(c) = 1
  OBVIOUS
<1>3. Head(a) = "defs" /\ Head(b) = "calls" /\ Head(c) = "path"
  OBVIOUS
<1>4. Tail(a) = b /\ Tail(b) = c /\ Tail(c) = <<>>
  OBVIOUS
<1>5. a # b /\ a # c /\ b # c /\ a # <<>> /\ b # <<>> /\ c # <<>>
  BY <1>2
<1> HIDE DEF a, b, c
<1>6. \A left \in Lefts :
       /\ left # <<>>
       /\ Head(left) \in {"defs", "calls", "path"}
       /\ Head(left) = "defs" <=> left = Statements
       /\ Head(left) = "path" <=> left = c
       /\ Tail(left) = <<>> <=> left = c
       /\ left # c => Tail(left) \in Lefts /\ Tail(left) # Statements
       /\ Tail(left) = c => Head(left) = "calls"
  BY <1>1, <1>3, <1>4, <1>5
<1> QED BY <1>1, <1>6 DEF a, c

\* Who stores is not idle.
LEMMA StoringIsNotIdle == HandSet \subseteq Holding /\ Idle \notin HandSet
<1>1. Lefts \subseteq Seq({"defs", "calls", "path"})
  BY DEF Lefts, Statements
<1>2. BatchSet \subseteq [unit : Units, file : Nat, hid : Nat \cup {-1}, time : Nat, from : Nat \X Nat]
  BY DEF BatchSet, Ids, NoId, Reading
<1>3. HandSet \subseteq Holding
  BY <1>1, <1>2 DEF HandSet, Holding
<1> QED BY <1>3, StoreAssumption

\* MAX(filepath_id) is not below any row.
LEMMA MaxPathIdIs ==
  ASSUME TablesTyped
  PROVE  MaxPathId \in Nat /\ \A i \in DOMAIN paths : i <= MaxPathId
<1>1. CASE DOMAIN paths = {}
  <2>1. paths = <<>>
    BY <1>1 DEF TablesTyped
  <2> QED BY <1>1, <2>1 DEF MaxPathId
<1>2. CASE DOMAIN paths # {}
  <2>1. paths # <<>>
    BY <1>2
  <2>2. \E i \in DOMAIN paths : \A j \in DOMAIN paths : j <= i
    BY <1>2, GreatestElement DEF TablesTyped, Ids
  <2>3. MaxPathId = CHOOSE i \in DOMAIN paths : \A j \in DOMAIN paths : j <= i
    BY <2>1 DEF MaxPathId
  <2>4. MaxPathId \in DOMAIN paths /\ \A j \in DOMAIN paths : j <= MaxPathId
    BY <2>2, <2>3
  <2> QED BY <2>4 DEF TablesTyped, Ids
<1> QED BY <1>1, <1>2

\* The times of the files.
LEMMA NewestTimeIs ==
  ASSUME mtime \in [Files -> Nat], NEW u \in Units
  PROVE  /\ NewestTime(u) \in Nat /\ NewestTime(u) >= mtime[u] /\ NewestTime(u) >= mtime[Header]
         /\ NewestTime(u) \in {mtime[u], mtime[Header]}
BY DEF NewestTime, Files

LEMMA IdsInit == Init => IdsInv
<1> SUFFICES ASSUME Init PROVE IdsInv
  OBVIOUS
<1> USE StoreAssumption DEF Init
<1>1. StoreTyped
  BY DEF StoreTyped, AllTodo, NoIds, NoTimes, NoneSeen, Labels, Ids
<1>2. QueueTyped
  <2>1. queue \in Seq(BatchSet)
    BY SMT
  <2> QED BY <2>1 DEF QueueTyped, AllIdle
<1>3. TablesTyped
  <2>1. DOMAIN paths = {} /\ DOMAIN defs = {} /\ calls = {} /\ 0 \in Nat
    OBVIOUS
  <2>2. paths \in [DOMAIN paths -> PathRow]
    BY SMT
  <2> QED BY <2>1, <2>2 DEF TablesTyped
<1>4. SentOnce /\ IdsBelow /\ OwnRow /\ IdsInUseDiffer
  <2>1. Len(queue) = 0 /\ DOMAIN paths = {}
    OBVIOUS
  <2> QED BY <2>1 DEF SentOnce, IdsBelow, OwnRow, IdsInUseDiffer, AllIdle, AllTodo, NoIds
<1> QED BY <1>1, <1>2, <1>3, <1>4 DEF IdsInv

-----------------------------------------------------------------------------
(* The types                                                                *)

\* The batch that a unit sends.
LEMMA BatchType ==
  ASSUME StoreTyped, NEW u \in Units, unit[u] = "located"
  PROVE  Batch(u, time[u]) \in BatchSet /\ time[u] <= now
BY DEF StoreTyped, Batch, BatchSet, Ids

LEMMA StoreTypedNext == StoreTyped /\ TablesTyped /\ [Next]_vars => StoreTyped'
<1> SUFFICES ASSUME StoreTyped, TablesTyped, [Next]_vars PROVE StoreTyped'
  OBVIOUS
<1> USE StoreAssumption DEF StoreTyped, disk, memory, tables, Labels, Ids
<1>0. now \in Nat \ {0} /\ now \in 0 .. now
  OBVIOUS
<1>1. ASSUME ForgetAll, next_id' \in Ids, phase' \in {"down", "up", "exited"},
             runs' \in 0 .. MaxRuns, UNCHANGED disk
      PROVE  StoreTyped'
  BY <1>0, <1>1 DEF ForgetAll, AllTodo, NoIds, NoTimes, NoneSeen
<1>2. CASE Prepare
  <2>1. MaxPathId + 1 \in Ids
    BY MaxPathIdIs
  <2>2. runs + 1 \in 0 .. MaxRuns
    BY <1>2 DEF Prepare
  <2> QED BY <1>1, <1>2, <2>1, <2>2 DEF Prepare
<1>3. CASE Exit \/ Crash
  BY <1>1, <1>3 DEF Exit, Crash, Ends
<1>4. CASE Tick
  <2>1. now' = now + 1 /\ now' \in 1 .. MaxTime
    BY <1>4 DEF Tick
  <2>2. 1 .. now \subseteq 1 .. now' /\ 0 .. now \subseteq 0 .. now'
    BY <2>1
  <2>3. UNCHANGED <<mtime, edits, before, phase, runs, memory>>
    BY <1>4 DEF Tick
  <2>4. mtime' \in [Files -> 1 .. now'] /\ time' \in [Units -> 0 .. now']
    BY <2>2, <2>3
  <2> QED BY <2>1, <2>3, <2>4
<1>5. ASSUME NEW f \in Files, Edit(f) PROVE StoreTyped'
  <2>1. mtime' \in [Files -> 1 .. now] /\ edits' \in [Files -> Nat]
    BY <1>0, <1>5 DEF Edit
  <2>2. before' = [before EXCEPT ![f] = IF mtime[f] = now THEN @ ELSE edits[f]]
        /\ edits' = [edits EXCEPT ![f] = @ + 1]
    BY <1>5 DEF Edit
  <2>3. before' \in [Files -> Nat] /\ \A g \in Files : before'[g] <= edits'[g]
    BY <2>2
  <2> QED BY <1>5, <2>1, <2>3 DEF Edit
<1>6. ASSUME NEW u \in Units, SkipUnit(u) PROVE StoreTyped'
  BY <1>6 DEF SkipUnit
<1>7. ASSUME NEW u \in Units, StartUnit(u) PROVE StoreTyped'
  <2>1. next_id # NoId
    BY DEF NoId
  <2> QED BY <1>0, <1>7, <2>1 DEF StartUnit
<1>8. ASSUME NEW u \in Units, FailUnit(u) \/ SendUnit(u) PROVE StoreTyped'
  <2>1. /\ unit' = [unit EXCEPT ![u] = "over"] /\ time' = [time EXCEPT ![u] = 0]
        /\ seen' = [seen EXCEPT ![u] = Unread]
        /\ UNCHANGED <<disk, phase, runs, next_id, id, hid>>
    BY <1>8 DEF FailUnit, SendUnit, Over
  <2> QED BY <1>0, <2>1
<1>9. ASSUME NEW u \in Units, LocateCached(u) \/ LocateHeader(u) PROVE StoreTyped'
  <2>1. Contents(u) \in Reading /\ Contents(u) # Unread
    BY DEF Contents, Reading, Unread, Files
  <2>2. /\ unit' = [unit EXCEPT ![u] = "located"] /\ seen' = [seen EXCEPT ![u] = Contents(u)]
        /\ UNCHANGED <<disk, phase, runs, id, time>> /\ unit[u] = "parsing"
    BY <1>9 DEF LocateCached, LocateHeader
  <2>3. hid' \in [Units -> Ids \cup {NoId}] /\ next_id' \in Ids
    <3>1. CASE LocateCached(u)
      BY <3>1 DEF LocateCached
    <3>2. CASE LocateHeader(u)
      <4>1. Rows(Header) \subseteq Ids
        BY DEF Rows, TablesTyped
      <4> QED BY <3>2, <4>1 DEF LocateHeader
    <3> QED BY <1>9, <3>1, <3>2
  <2>4. seen' \in [Units -> Reading \cup {Unread}] /\ seen'[u] # Unread
        /\ \A v \in Units : v # u => seen'[v] = seen[v]
    BY <2>1, <2>2
  <2> HIDE DEF Ids
  <2> QED BY <2>2, <2>3, <2>4
<1>10. ASSUME NEW s \in Stores, GetStmts(s) \/ Dml(s) PROVE StoreTyped'
  BY <1>10 DEF GetStmts, Dml
<1>11. CASE UNCHANGED vars
  BY <1>11 DEF vars
<1> QED BY <1>2, <1>3, <1>4, <1>5, <1>6, <1>7, <1>8, <1>9, <1>10, <1>11 DEF Next

\* What is on its way.
LEMMA QueueTypedNext == StoreTyped /\ QueueTyped /\ [Next]_vars => QueueTyped'
<1> SUFFICES ASSUME StoreTyped, QueueTyped, [Next]_vars PROVE QueueTyped'
  OBVIOUS
<1> USE DEF disk, memory, tables
<1>0. /\ now \in Nat /\ queue \in Seq(BatchSet) /\ hand \in [Stores -> HandSet \cup {Idle}]
      /\ \A k \in 1 .. Len(queue) : queue[k] \in BatchSet /\ queue[k].time <= now
      /\ \A s \in Stores : hand[s] # Idle => hand[s] \in HandSet /\ hand[s].batch.time <= now
      /\ \A b \in BatchSet : b.time \in Nat
  <2>1. \A b \in BatchSet : b.time \in Nat
    BY DEF BatchSet, Ids
  <2>2. \A k \in 1 .. Len(queue) : queue[k] \in BatchSet
    BY DEF QueueTyped
  <2> QED BY <2>1, <2>2 DEF StoreTyped, QueueTyped
<1>1. CASE Prepare \/ Exit \/ Crash
  <2>1. ForgetAll
    BY <1>1 DEF Prepare, Exit, Crash, Ends
  <2>2. queue' = <<>> /\ hand' = AllIdle
    BY <2>1 DEF ForgetAll
  <2>3. queue' \in Seq(BatchSet) /\ Len(queue') = 0
    BY <2>2
  <2> QED BY <2>2, <2>3 DEF QueueTyped, AllIdle
<1>2. CASE Tick
  <2>1. now' = now + 1 /\ UNCHANGED <<queue, hand>>
    BY <1>2 DEF Tick
  <2>2. \A s \in Stores : hand[s] # Idle => hand[s].batch.time \in Nat
    BY <1>0 DEF HandSet
  <2>3. \A s \in Stores : hand[s] # Idle => hand[s].batch.time <= now'
    BY <1>0, <2>1, <2>2
  <2>4. \A k \in 1 .. Len(queue) : queue[k].time <= now'
    BY <1>0, <2>1
  <2> QED BY <1>0, <2>1, <2>3, <2>4 DEF QueueTyped
<1>3. ASSUME NEW u \in Units, SendUnit(u) PROVE QueueTyped'
  <2>1. Batch(u, time[u]) \in BatchSet /\ time[u] <= now
    BY <1>3, BatchType DEF SendUnit
  <2>2. queue' = Append(queue, Batch(u, time[u])) /\ UNCHANGED <<now, hand>>
    BY <1>3 DEF SendUnit
  <2>3. Batch(u, time[u]).time = time[u]
    BY DEF Batch
  <2> HIDE DEF Batch
  <2>4. queue' \in Seq(BatchSet) /\ \A k \in 1 .. Len(queue') : queue'[k].time <= now
    BY <1>0, <2>1, <2>2, <2>3
  <2> QED BY <1>0, <2>2, <2>4 DEF QueueTyped
<1>4. ASSUME NEW s \in Stores, GetStmts(s) PROVE QueueTyped'
  <2>1. queue # <<>> /\ queue' = Tail(queue) /\ now' = now
        /\ hand' = [hand EXCEPT ![s] = [batch |-> Head(queue), left |-> Statements]]
    BY <1>4 DEF GetStmts
  <2>2. Head(queue) \in BatchSet /\ Head(queue).time <= now
    BY <1>0, <2>1
  <2>3. queue' \in Seq(BatchSet) /\ \A k \in 1 .. Len(queue') : queue'[k].time <= now
    BY <1>0, <2>1
  <2>4. [batch |-> Head(queue), left |-> Statements] \in HandSet
    BY <2>2, TheLefts DEF HandSet
  <2> QED BY <1>0, <2>1, <2>2, <2>3, <2>4 DEF QueueTyped
<1>5. ASSUME NEW s \in Stores, Dml(s) PROVE QueueTyped'
  <2>1. PICK o \in Outcomes :
          hand' = [hand EXCEPT ![s] = IF Remaining(hand[s].left, o) = <<>> THEN Idle
                                      ELSE [batch |-> hand[s].batch, left |-> Remaining(hand[s].left, o)]]
    BY <1>5 DEF Dml
  <2>2. hand[s] # Idle /\ UNCHANGED <<now, queue>>
    BY <1>5 DEF Dml
  <2>3. hand[s].batch \in BatchSet /\ hand[s].left \in Lefts
    BY <1>0, <2>2 DEF HandSet
  <2>4. Remaining(hand[s].left, o) # <<>> => Remaining(hand[s].left, o) \in Lefts
    BY <2>3, TheLefts DEF Remaining
  <2>5. hand'[s] # Idle => hand'[s] \in HandSet /\ hand'[s].batch = hand[s].batch
    BY <1>0, <2>1, <2>3, <2>4 DEF HandSet
  <2>6. \A r \in Stores : r # s => hand'[r] = hand[r]
    BY <1>0, <2>1
  <2>7. hand' \in [Stores -> HandSet \cup {Idle}]
    BY <1>0, <2>1, <2>5
  <2> QED BY <1>0, <2>2, <2>5, <2>6, <2>7 DEF QueueTyped
<1>6. ASSUME NEW u \in Units,
             SkipUnit(u) \/ StartUnit(u) \/ FailUnit(u) \/ LocateCached(u) \/ LocateHeader(u)
      PROVE  UNCHANGED <<now, queue, hand>>
  BY <1>6 DEF SkipUnit, StartUnit, FailUnit, LocateCached, LocateHeader
<1>7. ASSUME NEW f \in Files, Edit(f) PROVE UNCHANGED <<now, queue, hand>>
  BY <1>7 DEF Edit
<1>8. ASSUME UNCHANGED <<now, queue, hand>> PROVE QueueTyped'
  BY <1>8 DEF QueueTyped
<1>9. CASE UNCHANGED vars
  BY <1>8, <1>9 DEF vars
<1> QED BY <1>1, <1>2, <1>3, <1>4, <1>5, <1>6, <1>7, <1>8, <1>9 DEF Next

\* One statement: it is executed and the next one is due, or it is not, and the rest of the
\* batch is discarded, unless the error was lost.
Executes(s) ==
  /\ Execute(Head(hand[s].left), hand[s].batch)
  /\ clean' = clean
  /\ hand'[s] = IF hand[s].left = <<"path">> THEN Idle
                ELSE [batch |-> hand[s].batch, left |-> Tail(hand[s].left)]

Discards(s) ==
  /\ UNCHANGED tables
  /\ clean' = FALSE
  /\ \/ hand'[s] = Idle
     \/ /\ "lost" \in Outcomes /\ hand[s].left # <<"path">>
        /\ hand'[s] = [batch |-> hand[s].batch, left |-> Tail(hand[s].left)]

LEMMA DmlDoes ==
  ASSUME QueueTyped, TablesTyped, NEW s \in Stores, Dml(s)
  PROVE  /\ phase = "up" /\ hand[s] # Idle /\ hand[s] \in HandSet
         /\ hand[s].batch \in BatchSet /\ hand[s].left \in Lefts
         /\ UNCHANGED <<disk, phase, runs, next_id, unit, id, time, hid, seen, queue>>
         /\ \A r \in Stores : r # s => hand'[r] = hand[r]
         /\ Executes(s) \/ Discards(s)
<1> DEFINE b == hand[s].batch
           left == hand[s].left
<1>1. PICK o \in Outcomes :
        /\ IF o = "ok" THEN Execute(Head(left), b) ELSE UNCHANGED tables
        /\ hand' = [hand EXCEPT ![s] = IF Remaining(left, o) = <<>> THEN Idle
                                       ELSE [batch |-> b, left |-> Remaining(left, o)]]
        /\ clean' = (clean /\ o = "ok")
  BY DEF Dml
<1>2. /\ phase = "up" /\ hand[s] # Idle
      /\ UNCHANGED <<disk, phase, runs, next_id, unit, id, time, hid, seen, queue>>
  BY DEF Dml
<1>3. hand \in [Stores -> HandSet \cup {Idle}] /\ hand[s] \in HandSet
  BY <1>2 DEF QueueTyped
<1>4. b \in BatchSet /\ left \in Lefts
  BY <1>3 DEF HandSet
<1>5. \A r \in Stores : r # s => hand'[r] = hand[r]
  BY <1>1, <1>3
<1>6. hand'[s] = IF Remaining(left, o) = <<>> THEN Idle
                 ELSE [batch |-> b, left |-> Remaining(left, o)]
  BY <1>1, <1>3
<1>7. o \in {"ok", "error", "lost"}
  BY DEF Outcomes, Outcome
<1> HIDE DEF b, left
<1>8. CASE o = "ok"
  <2>1. Remaining(left, o) = Tail(left) /\ (Tail(left) = <<>> <=> left = <<"path">>)
    BY <1>4, <1>8, TheLefts DEF Remaining
  <2>2. Execute(Head(left), b) /\ clean' = clean
    BY <1>1, <1>8 DEF TablesTyped
  <2>3. Executes(s)
    BY <1>6, <2>1, <2>2 DEF Executes, b, left
  <2> QED BY <1>2, <1>3, <1>4, <1>5, <2>3 DEF b, left
<1>9. CASE o = "error"
  <2>1. Remaining(left, o) = <<>>
    BY <1>9 DEF Remaining
  <2>2. UNCHANGED tables /\ clean' = FALSE
    BY <1>1, <1>9 DEF tables
  <2>3. Discards(s)
    BY <1>6, <2>1, <2>2 DEF Discards
  <2> QED BY <1>2, <1>3, <1>4, <1>5, <2>3 DEF b, left
<1>10. CASE o = "lost"
  <2>1. Remaining(left, o) = Tail(left) /\ (Tail(left) = <<>> <=> left = <<"path">>)
    BY <1>4, <1>10, TheLefts DEF Remaining
  <2>2. UNCHANGED tables /\ clean' = FALSE /\ "lost" \in Outcomes
    BY <1>1, <1>10
  <2>3. Discards(s)
    BY <1>6, <2>1, <2>2 DEF Discards, b, left
  <2> QED BY <1>2, <1>3, <1>4, <1>5, <2>3 DEF b, left
<1> QED BY <1>7, <1>8, <1>9, <1>10

\* LocateHeader: a row of the header, no id, or a new id for it and one statement.
LEMMA LocateHeaderDoes ==
  ASSUME StoreTyped, TablesTyped, NEW u \in Units, LocateHeader(u)
  PROVE  /\ phase = "up" /\ unit[u] = "parsing" /\ unit' = [unit EXCEPT ![u] = "located"]
         /\ seen' = [seen EXCEPT ![u] = Contents(u)]
         /\ UNCHANGED <<disk, phase, runs, id, time, queue, hand, defs, calls>>
         /\ \A v \in Units : v # u => hid'[v] = hid[v]
         /\ \/ hid'[u] \in Rows(Header) /\ UNCHANGED <<next_id, paths, clean>>
            \/ hid'[u] = NoId /\ UNCHANGED <<next_id, paths>> /\ clean' = FALSE
            \/ /\ next_id' = next_id + 1 /\ hid'[u] \in {NoId, next_id}
               /\ \/ paths' = ReplacePath(next_id, Header, HeaderTime) /\ clean' = clean
                  \/ paths' = paths /\ clean' = FALSE
<1>1. hid \in [Units -> Ids \cup {NoId}]
  BY DEF StoreTyped
<1>2. CASE \E i \in Rows(Header) : hid' = [hid EXCEPT ![u] = i]
           /\ UNCHANGED <<next_id, paths, clean>>
  BY <1>1, <1>2 DEF LocateHeader
<1>3. CASE hid' = [hid EXCEPT ![u] = NoId] /\ clean' = FALSE /\ UNCHANGED <<next_id, paths>>
  BY <1>1, <1>3 DEF LocateHeader
<1>4. CASE /\ next_id' = next_id + 1
           /\ \E o \in Outcomes :
                /\ hid' = [hid EXCEPT ![u] = IF o = "error" THEN NoId ELSE next_id]
                /\ paths' = IF o = "ok" THEN ReplacePath(next_id, Header, HeaderTime)
                            ELSE paths
                /\ clean' = (clean /\ o = "ok")
  <2>1. PICK o \in Outcomes :
                /\ hid' = [hid EXCEPT ![u] = IF o = "error" THEN NoId ELSE next_id]
                /\ paths' = IF o = "ok" THEN ReplacePath(next_id, Header, HeaderTime)
                            ELSE paths
                /\ clean' = (clean /\ o = "ok")
    BY <1>4
  <2>2. hid'[u] \in {NoId, next_id} /\ \A v \in Units : v # u => hid'[v] = hid[v]
    BY <1>1, <2>1
  <2>3. \/ paths' = ReplacePath(next_id, Header, HeaderTime) /\ clean' = clean
        \/ paths' = paths /\ clean' = FALSE
    <3>1. CASE o = "ok"
      BY <2>1, <3>1 DEF TablesTyped
    <3>2. CASE o # "ok"
      BY <2>1, <3>2
    <3> QED BY <3>1, <3>2
  <2> QED BY <1>4, <2>2, <2>3 DEF LocateHeader
<1> QED BY <1>2, <1>3, <1>4 DEF LocateHeader

\* What is in the database.
LEMMA TablesTypedNext == StoreTyped /\ QueueTyped /\ TablesTyped /\ [Next]_vars => TablesTyped'
<1> SUFFICES ASSUME StoreTyped, QueueTyped, TablesTyped, [Next]_vars PROVE TablesTyped'
  OBVIOUS
<1> USE DEF disk, memory, tables
<1>0. now \in Nat /\ next_id \in Ids
  BY DEF StoreTyped
<1>1. ASSUME UNCHANGED <<now, tables>>, clean' \in BOOLEAN PROVE TablesTyped'
  BY <1>1 DEF TablesTyped
<1>2. ASSUME NEW i \in Ids, NEW f \in Files, NEW t \in 0 .. now,
             paths' = ReplacePath(i, f, t), UNCHANGED <<now, defs, calls>>, clean' \in BOOLEAN
      PROVE  TablesTyped'
  <2>1. /\ DOMAIN paths' = DOMAIN paths \cup {i} /\ paths'[i] = [file |-> f, time |-> t]
        /\ \A j \in DOMAIN paths : j # i => paths'[j] = paths[j]
    BY <1>2 DEF ReplacePath
  <2>2. \A j \in DOMAIN paths' : paths'[j] \in PathRow /\ paths'[j].time <= now
    BY <1>0, <1>2, <2>1 DEF TablesTyped, PathRow
  <2>3. paths' = [j \in DOMAIN paths' |-> paths'[j]]
    BY <1>2 DEF ReplacePath
  <2>4. paths' \in [DOMAIN paths' -> PathRow]
    BY <2>2, <2>3
  <2>5. PICK n \in Nat : \A j \in DOMAIN paths : j <= n
    BY DEF TablesTyped
  <2>6. \A j \in DOMAIN paths : j \in Nat
    BY DEF TablesTyped, Ids
  <2>7. (n + i) \in Nat /\ \A j \in DOMAIN paths' : j <= n + i
    BY <1>2, <2>1, <2>5, <2>6 DEF Ids
  <2> QED BY <1>2, <2>1, <2>2, <2>4, <2>7 DEF TablesTyped
<1>3. CASE Tick
  <2>1. now' = now + 1 /\ UNCHANGED <<tables, clean>>
    BY <1>3 DEF Tick
  <2>2. \A i \in DOMAIN paths : paths[i].time <= now'
    BY <1>0, <2>1 DEF TablesTyped, PathRow
  <2> QED BY <2>1, <2>2 DEF TablesTyped
<1>4. ASSUME NEW u \in Units, LocateHeader(u) PROVE TablesTyped'
  <2>1. UNCHANGED <<now, defs, calls>> /\ clean' \in BOOLEAN
    BY <1>4, LocateHeaderDoes DEF TablesTyped
  <2>2. CASE UNCHANGED paths
    BY <1>1, <2>1, <2>2
  <2>3. CASE paths' = ReplacePath(next_id, Header, HeaderTime)
    <3>1. HeaderTime \in 0 .. now
      BY <1>0 DEF HeaderTime, StoreTyped, Files
    <3>2. Header \in Files
      BY DEF Files
    <3> QED BY <1>0, <1>2, <2>1, <2>3, <3>1, <3>2
  <2> QED BY <1>4, <2>2, <2>3, LocateHeaderDoes
<1>5. ASSUME NEW s \in Stores, Dml(s) PROVE TablesTyped'
  <2> DEFINE b == hand[s].batch
  <2>1. hand[s] # Idle /\ b \in BatchSet /\ UNCHANGED now
        /\ hand[s].left \in Lefts /\ (Executes(s) \/ Discards(s))
    BY <1>5, DmlDoes DEF TablesTyped
  <2>2. /\ b.unit \in Files /\ b.file \in Ids /\ b.time \in 0 .. now
        /\ CallsOf(b) \in [unit : Units, file : Ids, from : Reading]
    <3>1. b.unit \in Units /\ b.file \in Ids /\ b.time \in Ids /\ b.from \in Reading
      BY <2>1 DEF BatchSet
    <3>2. b.time <= now
      BY <2>1 DEF QueueTyped
    <3> QED BY <1>0, <3>1, <3>2 DEF Files, CallsOf, Ids
  <2>3. CASE Discards(s)
    BY <1>1, <2>1, <2>3 DEF Discards
  <2>4. CASE Executes(s)
    <3>1. Execute(Head(hand[s].left), b) /\ clean' \in BOOLEAN
      BY <2>4 DEF Executes, TablesTyped
    <3>2. CASE Head(hand[s].left) = "path"
      <4>1. UNCHANGED <<defs, calls>> /\ paths' = ReplacePath(b.file, b.unit, b.time)
        BY <3>1, <3>2 DEF Execute
      <4> QED BY <1>2, <2>1, <2>2, <3>1, <4>1
    <3>3. CASE Head(hand[s].left) = "calls"
      <4>1. UNCHANGED <<defs, paths>> /\ calls' = calls \cup {CallsOf(b)}
        BY <3>1, <3>3 DEF Execute
      <4> QED BY <2>1, <2>2, <3>1, <4>1 DEF TablesTyped
    <3>4. CASE Head(hand[s].left) = "defs"
      <4>1. UNCHANGED <<calls, paths>> /\ defs' = InsertDefs(b)
        BY <3>1, <3>4 DEF Execute
      <4> QED BY <2>1, <3>1, <4>1, Inserted DEF TablesTyped
    <3> QED BY <2>1, <3>2, <3>3, <3>4, TheLefts
  <2> QED BY <2>1, <2>3, <2>4
<1>6. CASE Prepare \/ Exit \/ Crash
  BY <1>1, <1>6 DEF Prepare, Exit, Crash, Ends, TablesTyped
<1>7. ASSUME NEW f \in Files, Edit(f) PROVE TablesTyped'
  BY <1>1, <1>7 DEF Edit
<1>8. ASSUME NEW u \in Units,
             SkipUnit(u) \/ StartUnit(u) \/ FailUnit(u) \/ LocateCached(u) \/ SendUnit(u)
      PROVE  TablesTyped'
  BY <1>1, <1>8 DEF SkipUnit, StartUnit, FailUnit, LocateCached, SendUnit, TablesTyped
<1>9. ASSUME NEW s \in Stores, GetStmts(s) PROVE TablesTyped'
  BY <1>1, <1>9 DEF GetStmts, TablesTyped
<1>10. CASE UNCHANGED vars
  BY <1>1, <1>10 DEF vars, TablesTyped
<1> QED BY <1>3, <1>4, <1>5, <1>6, <1>7, <1>8, <1>9, <1>10 DEF Next

-----------------------------------------------------------------------------
(* A unit is sent once                                                      *)

\* The process forgets everything.
Forgets == Prepare \/ Exit \/ Crash

\* What happens to one unit before its result is sent.
Works(u) == SkipUnit(u) \/ StartUnit(u) \/ FailUnit(u) \/ LocateCached(u) \/ LocateHeader(u)

LEMMA WorksDoes ==
  ASSUME StoreTyped, NEW u \in Units, Works(u)
  PROVE  /\ phase = "up" /\ UNCHANGED <<queue, hand, phase, now, mtime, edits, before>> /\ unit[u] # "over"
         /\ \A v \in Units : v # u => unit'[v] = unit[v] /\ id'[v] = id[v]
         /\ unit'[u] # "todo"
         /\ \/ id'[u] = id[u] /\ ~StartUnit(u)
            \/ StartUnit(u) /\ id'[u] = next_id /\ unit'[u] = "parsing"
         /\ unit'[u] \in {"parsing", "located"} =>
              StartUnit(u) \/ unit[u] \in {"parsing", "located"}
<1> USE DEF disk, memory, tables
<1>0. unit \in [Units -> Labels] /\ id \in [Units -> Ids \cup {NoId}]
  BY DEF StoreTyped
<1>1. CASE StartUnit(u)
  BY <1>0, <1>1 DEF StartUnit
<1>2. CASE ~StartUnit(u) /\ SkipUnit(u)
  BY <1>0, <1>2 DEF SkipUnit
<1>3. CASE ~StartUnit(u) /\ FailUnit(u)
  BY <1>0, <1>3 DEF FailUnit, Over
<1>4. CASE ~StartUnit(u) /\ LocateCached(u)
  BY <1>0, <1>4 DEF LocateCached
<1>5. CASE ~StartUnit(u) /\ LocateHeader(u)
  BY <1>0, <1>5 DEF LocateHeader
<1> QED BY <1>1, <1>2, <1>3, <1>4, <1>5 DEF Works

LEMMA SendDoes ==
  ASSUME StoreTyped, NEW u \in Units, SendUnit(u)
  PROVE  /\ phase = "up" /\ unit[u] = "located" /\ unit'[u] = "over"
         /\ \A v \in Units : v # u => unit'[v] = unit[v]
         /\ queue' = Append(queue, Batch(u, time[u]))
         /\ Batch(u, time[u]) \in BatchSet /\ Batch(u, time[u]).unit = u
         /\ Batch(u, time[u]).file = id[u] /\ Batch(u, time[u]).time = time[u]
         /\ Batch(u, time[u]).from = seen[u]
         /\ UNCHANGED <<disk, phase, next_id, id, hid, hand, tables, clean>>
<1>1. unit[u] = "located" /\ unit \in [Units -> Labels]
  BY DEF SendUnit, StoreTyped
<1>2. Batch(u, time[u]) \in BatchSet
  BY <1>1, BatchType
<1> QED BY <1>1, <1>2 DEF SendUnit, Over, Batch

LEMMA GetDoes ==
  ASSUME QueueTyped, NEW s \in Stores, GetStmts(s)
  PROVE  /\ phase = "up" /\ hand[s] = Idle /\ hand'[s] = [batch |-> queue[1], left |-> Statements]
         /\ \A r \in Stores : r # s => hand'[r] = hand[r]
         /\ 1 \in 1 .. Len(queue) /\ Len(queue') = Len(queue) - 1
         /\ \A k \in 1 .. Len(queue') : queue'[k] = queue[k + 1] /\ k + 1 \in 1 .. Len(queue)
         /\ UNCHANGED <<disk, phase, next_id, unit, id, time, hid, seen, tables, clean>>
<1>1. queue \in Seq(BatchSet) /\ hand \in [Stores -> HandSet \cup {Idle}]
  BY DEF QueueTyped
<1>2. queue # <<>> /\ queue' = Tail(queue) /\ hand[s] = Idle /\ phase = "up"
      /\ hand' = [hand EXCEPT ![s] = [batch |-> Head(queue), left |-> Statements]]
      /\ UNCHANGED <<disk, phase, next_id, unit, id, time, hid, seen, tables, clean>>
  BY DEF GetStmts
<1>3. Head(queue) = queue[1] /\ 1 \in 1 .. Len(queue) /\ Len(queue') = Len(queue) - 1
      /\ \A k \in 1 .. Len(queue') : queue'[k] = queue[k + 1] /\ k + 1 \in 1 .. Len(queue)
  BY <1>1, <1>2
<1> QED BY <1>1, <1>2, <1>3

LEMMA ForgetDoes ==
  ASSUME Forgets
  PROVE  /\ phase' # "up" \/ Prepare
         /\ Len(queue') = 0 /\ \A s \in Stores : hand'[s] = Idle
         /\ \A u \in Units : unit'[u] = "todo" /\ id'[u] = NoId /\ hid'[u] = NoId
         /\ UNCHANGED <<disk, tables>>
<1>1. ForgetAll /\ UNCHANGED <<disk, tables>> /\ (phase' # "up" \/ Prepare)
  BY DEF Forgets, Prepare, Exit, Crash, Ends
<1>2. queue' = <<>>
  BY <1>1 DEF ForgetAll
<1> QED BY <1>1, <1>2 DEF ForgetAll, AllTodo, NoIds, AllIdle

\* The steps that there are.
LEMMA NextSteps ==
  [Next]_vars =>
    \/ Forgets \/ Tick \/ \E f \in Files : Edit(f)
    \/ \E u \in Units : Works(u) \/ SendUnit(u)
    \/ \E s \in Stores : GetStmts(s) \/ Dml(s)
    \/ UNCHANGED vars
BY DEF Next, Forgets, Works

LEMMA SentOnceNext ==
  StoreTyped /\ QueueTyped /\ TablesTyped /\ SentOnce /\ [Next]_vars => SentOnce'
<1> SUFFICES ASSUME StoreTyped, QueueTyped, TablesTyped, SentOnce, [Next]_vars PROVE SentOnce'
  OBVIOUS
<1>0. /\ queue \in Seq(BatchSet) /\ \A b \in BatchSet : b.unit \in Units
      /\ \A k \in 1 .. Len(queue) : queue[k].unit \in Units
      /\ \A s \in Stores : hand[s] # Idle => hand[s].batch.unit \in Units
  <2>1. \A b \in BatchSet : b.unit \in Units
    BY DEF BatchSet
  <2>2. \A k \in 1 .. Len(queue) : queue[k] \in BatchSet
    BY DEF QueueTyped
  <2>3. \A s \in Stores : hand[s] # Idle => hand[s].batch \in BatchSet
    BY DEF QueueTyped, HandSet
  <2> QED BY <2>1, <2>2, <2>3 DEF QueueTyped
<1>1. CASE Forgets
  BY <1>1, ForgetDoes DEF SentOnce
<1>2. ASSUME UNCHANGED <<queue, hand>>,
             \A v \in Units : unit[v] = "over" => unit'[v] = "over" /\ id'[v] = id[v]
      PROVE  SentOnce'
  BY <1>0, <1>2 DEF SentOnce, InQueue
<1>3. CASE Tick \/ (\E f \in Files : Edit(f)) \/ UNCHANGED vars
  BY <1>2, <1>3 DEF Tick, Edit, vars, memory
<1>4. ASSUME NEW u \in Units, Works(u) PROVE SentOnce'
  BY <1>2, <1>4, WorksDoes
<1>5. ASSUME NEW u \in Units, SendUnit(u) PROVE SentOnce'
  <2> DEFINE b == Batch(u, time[u])
  <2>1. /\ unit[u] = "located" /\ unit'[u] = "over" /\ queue' = Append(queue, b)
        /\ b \in BatchSet /\ b.unit = u /\ b.file = id[u]
        /\ \A v \in Units : v # u => unit'[v] = unit[v]
        /\ UNCHANGED <<id, hand>>
    BY <1>5, SendDoes
  <2> HIDE DEF b
  <2>2. /\ Len(queue') = Len(queue) + 1 /\ queue'[Len(queue) + 1] = b
        /\ \A k \in 1 .. Len(queue) : queue'[k] = queue[k]
        /\ \A k \in 1 .. Len(queue') : k \in 1 .. Len(queue) \/ k = Len(queue) + 1
    BY <1>0, <2>1
  <2>3. ~InQueue(u) /\ ~InHand(u)
    BY <2>1 DEF SentOnce, InQueue, InHand
  <2>4. \A k \in 1 .. Len(queue') :
          unit'[queue'[k].unit] = "over" /\ queue'[k].file = id'[queue'[k].unit]
    BY <1>0, <2>1, <2>2, <2>3 DEF SentOnce, InQueue
  <2>5. \A j, k \in 1 .. Len(queue') : queue'[j].unit = queue'[k].unit => j = k
    BY <2>1, <2>2, <2>3 DEF SentOnce, InQueue
  <2>6. \A s \in Stores : hand[s] # Idle =>
          /\ unit'[hand[s].batch.unit] = "over" /\ hand[s].batch.unit # u
          /\ \A k \in 1 .. Len(queue') : queue'[k].unit # hand[s].batch.unit
    BY <1>0, <2>1, <2>2, <2>3 DEF SentOnce, InQueue, InHand
  <2> QED BY <2>1, <2>4, <2>5, <2>6 DEF SentOnce, InQueue
<1>6. ASSUME NEW s \in Stores, GetStmts(s) PROVE SentOnce'
  <2>1. /\ hand[s] = Idle /\ hand'[s].batch = queue[1]
        /\ \A r \in Stores : r # s => hand'[r] = hand[r]
        /\ 1 \in 1 .. Len(queue) /\ Len(queue') = Len(queue) - 1
        /\ \A k \in 1 .. Len(queue') : queue'[k] = queue[k + 1] /\ k + 1 \in 1 .. Len(queue) /\ k \in Nat
        /\ UNCHANGED <<unit, id>>
    BY <1>6, GetDoes
  <2>2. \A k \in 1 .. Len(queue') :
          /\ unit[queue'[k].unit] = "over" /\ queue'[k].file = id[queue'[k].unit]
          /\ queue'[k].unit # queue[1].unit
    <3> TAKE k \in 1 .. Len(queue')
    <3>1. queue'[k] = queue[k + 1] /\ k + 1 \in 1 .. Len(queue) /\ k + 1 # 1
      BY <2>1
    <3> QED BY <2>1, <3>1 DEF SentOnce
  <2>3. \A j, k \in 1 .. Len(queue') : queue'[j].unit = queue'[k].unit => j = k
    <3> TAKE j, k \in 1 .. Len(queue')
    <3>1. j + 1 = k + 1 => j = k
      OBVIOUS
    <3> QED BY <2>1, <3>1 DEF SentOnce
  <2>4. \A v : (\E k \in 1 .. Len(queue') : queue'[k].unit = v) => InQueue(v)
    BY <2>1 DEF InQueue
  <2>5. InQueue(queue[1].unit)
    BY <2>1 DEF InQueue
  <2>6. \A r \in Stores : hand'[r] # Idle =>
          /\ unit[hand'[r].batch.unit] = "over" /\ hand'[r].batch.file = id[hand'[r].batch.unit]
          /\ \A k \in 1 .. Len(queue') : queue'[k].unit # hand'[r].batch.unit
    <3> TAKE r \in Stores
    <3>1. CASE r = s
      BY <2>1, <2>2, <3>1 DEF SentOnce
    <3>2. CASE r # s
      BY <2>1, <2>4, <3>2 DEF SentOnce
    <3> QED BY <3>1, <3>2
  <2>7. \A q, r \in Stores :
          hand'[q] # Idle /\ hand'[r] # Idle /\ hand'[q].batch.unit = hand'[r].batch.unit => q = r
    BY <2>1, <2>5 DEF SentOnce
  <2> QED BY <2>1, <2>2, <2>3, <2>6, <2>7 DEF SentOnce, InQueue
<1>7. ASSUME NEW s \in Stores, Dml(s) PROVE SentOnce'
  <2>1. /\ hand[s] # Idle /\ UNCHANGED <<unit, id, queue>>
        /\ \A r \in Stores : r # s => hand'[r] = hand[r]
        /\ hand'[s] # Idle => hand'[s].batch = hand[s].batch
    <3>1. Executes(s) \/ Discards(s)
      BY <1>7, DmlDoes
    <3>2. hand'[s] # Idle => hand'[s].batch = hand[s].batch
      BY <3>1 DEF Executes, Discards
    <3> QED BY <1>7, <3>2, DmlDoes
  <2> QED BY <2>1 DEF SentOnce, InQueue
<1> QED BY <1>1, <1>3, <1>4, <1>5, <1>6, <1>7, NextSteps

-----------------------------------------------------------------------------
(* The ids                                                                  *)

\* A result goes on its way when its unit is started, and only then.
LEMMA OnTheWayNext ==
  ASSUME StoreTyped, QueueTyped, TablesTyped, [Next]_vars, NEW v \in Units, OnTheWay(v)'
  PROVE  OnTheWay(v) \/ StartUnit(v)
<1>0. queue \in Seq(BatchSet)
  BY DEF QueueTyped
<1>1. CASE Forgets
  BY <1>1, ForgetDoes DEF OnTheWay, InQueue, InHand
<1>2. CASE Tick \/ (\E f \in Files : Edit(f)) \/ UNCHANGED vars
  BY <1>2 DEF Tick, Edit, vars, memory, OnTheWay, InQueue, InHand
<1>3. ASSUME NEW u \in Units, Works(u) PROVE OnTheWay(v) \/ StartUnit(v)
  BY <1>3, WorksDoes DEF OnTheWay, InQueue, InHand
<1>4. ASSUME NEW u \in Units, SendUnit(u) PROVE OnTheWay(v)
  <2>1. /\ queue' = Append(queue, Batch(u, time[u])) /\ Batch(u, time[u]) \in BatchSet
        /\ Batch(u, time[u]).unit = u /\ UNCHANGED hand /\ unit[u] = "located"
        /\ \A w \in Units : w # u => unit'[w] = unit[w]
    BY <1>4, SendDoes
  <2>2. InQueue(v)' => InQueue(v) \/ v = u
    BY <1>0, <2>1 DEF InQueue
  <2> QED BY <2>1, <2>2 DEF OnTheWay, InHand
<1>5. ASSUME NEW s \in Stores, GetStmts(s) PROVE OnTheWay(v)
  <2>1. InQueue(v)' => InQueue(v)
    BY <1>5, GetDoes DEF InQueue
  <2>2. InHand(v)' => InHand(v) \/ InQueue(v)
    <3>1. /\ hand'[s].batch = queue[1] /\ 1 \in 1 .. Len(queue)
          /\ \A r \in Stores : r # s => hand'[r] = hand[r]
      BY <1>5, GetDoes
    <3> QED BY <3>1 DEF InHand, InQueue
  <2> QED BY <1>5, <2>1, <2>2, GetDoes DEF OnTheWay
<1>6. ASSUME NEW s \in Stores, Dml(s) PROVE OnTheWay(v)
  <2>1. UNCHANGED <<unit, queue>> /\ \A r \in Stores : r # s => hand'[r] = hand[r]
    BY <1>6, DmlDoes
  <2>2. Executes(s) \/ Discards(s)
    BY <1>6, DmlDoes
  <2>3. hand'[s] # Idle => hand'[s].batch = hand[s].batch
    BY <2>2 DEF Executes, Discards
  <2>4. hand[s] # Idle
    BY <1>6, DmlDoes
  <2> QED BY <2>1, <2>3, <2>4 DEF OnTheWay, InHand, InQueue
<1> QED BY <1>1, <1>2, <1>3, <1>4, <1>5, <1>6, NextSteps

\* The rows of filepaths change in one way: a new one is written, either the header's with
\* the next id or that of a unit with its id, by a batch of which nothing else is left.
WritesHeader ==
  /\ phase = "up" /\ next_id' = next_id + 1 /\ next_id \notin DOMAIN paths
  /\ paths' = ReplacePath(next_id, Header, HeaderTime)
  /\ UNCHANGED <<queue, hand, id, defs, calls, disk>>

WritesRow(s, u) ==
  LET b == hand[s].batch
  IN  /\ phase = "up" /\ hand[s] # Idle /\ hand[s].left = <<"path">> /\ b.unit = u
      /\ b.file = id[u] /\ id[u] \notin DOMAIN paths /\ id[u] # NoId
      /\ paths' = ReplacePath(b.file, u, b.time)
      /\ ~OnTheWay(u)'
      /\ UNCHANGED <<next_id, id, hid, defs, calls, disk>>

LEMMA PathsChange ==
  ASSUME IdsInv, [Next]_vars
  PROVE  \/ UNCHANGED paths
         \/ WritesHeader
         \/ \E s \in Stores, u \in Units : WritesRow(s, u) /\ Dml(s)
<1>0. StoreTyped /\ QueueTyped /\ TablesTyped
  BY DEF IdsInv
<1>1. CASE Forgets
  BY <1>1, ForgetDoes DEF tables
<1>2. CASE Tick \/ (\E f \in Files : Edit(f)) \/ UNCHANGED vars
  BY <1>2 DEF Tick, Edit, vars, tables
<1>3. ASSUME NEW u \in Units, Works(u), paths' # paths PROVE WritesHeader
  <2>1. LocateHeader(u)
    BY <1>3 DEF Works, SkipUnit, StartUnit, FailUnit, LocateCached, tables
  <2>2. next_id \notin DOMAIN paths
    <3>1. phase = "up"
      BY <2>1 DEF LocateHeader
    <3>2. next_id \notin {i \in DOMAIN paths : i < next_id} /\ next_id \in Nat
      BY <1>0 DEF StoreTyped, Ids
    <3> QED BY <3>1, <3>2 DEF IdsInv, IdsBelow
  <2> QED BY <1>0, <1>3, <2>1, <2>2, LocateHeaderDoes DEF WritesHeader
<1>4. ASSUME NEW u \in Units, SendUnit(u) PROVE UNCHANGED paths
  BY <1>0, <1>4, SendDoes DEF tables
<1>5. ASSUME NEW s \in Stores, GetStmts(s) PROVE UNCHANGED paths
  BY <1>0, <1>5, GetDoes DEF tables
<1>6. ASSUME NEW s \in Stores, Dml(s), paths' # paths PROVE \E u \in Units : WritesRow(s, u)
  <2> DEFINE b == hand[s].batch
  <2>1. /\ phase = "up" /\ hand[s] # Idle /\ b \in BatchSet /\ hand[s].left \in Lefts
        /\ UNCHANGED <<disk, next_id, unit, id, hid, queue>>
        /\ \A r \in Stores : r # s => hand'[r] = hand[r]
        /\ Executes(s) \/ Discards(s)
    BY <1>0, <1>6, DmlDoes
  <2>2. Executes(s)
    BY <1>6, <2>1 DEF Discards, tables
  <2>3. Head(hand[s].left) = "path"
    BY <1>6, <2>2 DEF Executes, Execute
  <2>4. hand[s].left = <<"path">>
    BY <2>1, <2>3, TheLefts
  <2>5. hand'[s] = Idle /\ paths' = ReplacePath(b.file, b.unit, b.time) /\ UNCHANGED <<defs, calls>>
    BY <2>2, <2>3, <2>4 DEF Executes, Execute
  <2>6. b.unit \in Units /\ b.file \in Ids
    BY <2>1 DEF BatchSet
  <2>7. unit[b.unit] = "over" /\ b.file = id[b.unit] /\ ~InQueue(b.unit)
        /\ \A r \in Stores : r # s /\ hand[r] # Idle => hand[r].batch.unit # b.unit
    BY <2>1 DEF IdsInv, SentOnce
  <2>8. OnTheWay(b.unit)
    BY <2>1 DEF OnTheWay, InHand
  <2>9. id[b.unit] \notin DOMAIN paths
    BY <2>6, <2>8 DEF IdsInv, OwnRow
  <2> DEFINE u == b.unit
  <2>10. ASSUME NEW v \in Units, v = u PROVE ~OnTheWay(v)'
    <3>1. unit'[v] = "over" /\ queue' = queue /\ ~InQueue(v)
      BY <2>1, <2>7, <2>10
    <3>2. \A r \in Stores : hand'[r] # Idle => hand'[r].batch.unit # v
      BY <2>1, <2>5, <2>7, <2>10
    <3> HIDE DEF u
    <3> QED BY <3>1, <3>2 DEF OnTheWay, InQueue, InHand
  <2>11. id[b.unit] # NoId
    BY <2>6, <2>7 DEF Ids, NoId
  <2>12. PICK v \in Units : v = u
    BY <2>6
  <2>13. ~OnTheWay(v)'
    BY <2>10, <2>12
  <2> HIDE DEF u
  <2>14. b.unit = v
    BY <2>12 DEF u
  <2>15. WritesRow(s, v)
    BY <2>1, <2>4, <2>5, <2>7, <2>9, <2>11, <2>13, <2>14 DEF WritesRow
  <2> QED BY <2>15
<1> QED BY <1>1, <1>2, <1>3, <1>4, <1>5, <1>6, NextSteps

\* What happens to next_filepath_id_ and to the header's id before a result is sent.
LEMMA HeaderIds ==
  ASSUME StoreTyped, TablesTyped, NEW u \in Units, Works(u)
  PROVE  /\ next_id' \in {next_id, next_id + 1} /\ (StartUnit(u) => next_id' = next_id + 1)
         /\ \A v \in Units : v # u => hid'[v] = hid[v]
         /\ \/ \E v \in Units : hid'[u] = hid[v]
            \/ hid'[u] = NoId
            \/ hid'[u] \in Rows(Header)
            \/ hid'[u] = next_id /\ next_id' = next_id + 1 /\ UNCHANGED id
<1>0. hid \in [Units -> Ids \cup {NoId}]
  BY DEF StoreTyped
<1>1. CASE SkipUnit(u) \/ FailUnit(u)
  BY <1>0, <1>1 DEF SkipUnit, FailUnit, StartUnit
<1>2. CASE StartUnit(u)
  BY <1>0, <1>2 DEF StartUnit
<1>3. CASE LocateCached(u)
  BY <1>0, <1>3 DEF LocateCached, StartUnit
<1>4. CASE LocateHeader(u)
  <2>1. ~StartUnit(u)
    BY <1>4 DEF LocateHeader, StartUnit
  <2> QED BY <1>4, <2>1, LocateHeaderDoes
<1> QED BY <1>1, <1>2, <1>3, <1>4 DEF Works

LEMMA IdsBelowNext == IdsInv /\ [Next]_vars => IdsBelow'
<1> SUFFICES ASSUME IdsInv, [Next]_vars PROVE IdsBelow'
  OBVIOUS
<1>0. StoreTyped /\ QueueTyped /\ TablesTyped /\ IdsBelow /\ next_id \in Nat
  BY DEF IdsInv, StoreTyped, Ids
<1>1. \A u \in Units : (id[u] # NoId => id[u] \in Nat) /\ (hid[u] # NoId => hid[u] \in Nat)
  BY <1>0 DEF StoreTyped, Ids
<1>2. \A i \in DOMAIN paths : i \in Nat
  BY <1>0 DEF TablesTyped, Ids
<1>3. CASE Forgets
  <2>1. /\ UNCHANGED paths /\ (phase' # "up" \/ Prepare)
        /\ \A u \in Units : unit'[u] = "todo" /\ id'[u] = NoId /\ hid'[u] = NoId
    BY <1>3, ForgetDoes DEF tables
  <2>2. CASE phase' # "up"
    BY <2>1, <2>2 DEF IdsBelow
  <2>3. CASE Prepare
    <3>1. next_id' = MaxPathId + 1
      BY <2>3 DEF Prepare
    <3>2. \A i \in DOMAIN paths : i < next_id'
      BY <1>0, <1>2, <3>1, MaxPathIdIs
    <3> QED BY <2>1, <3>2 DEF IdsBelow
  <2> QED BY <2>1, <2>2, <2>3
<1>4. ASSUME NEW u \in Units, Works(u) PROVE IdsBelow'
  <2>1. \A i \in DOMAIN paths' : i < next_id'
    <3>0. phase = "up" /\ next_id' \in {next_id, next_id + 1}
      BY <1>0, <1>4, WorksDoes, HeaderIds
    <3>1. CASE UNCHANGED paths
      BY <1>0, <1>2, <3>0, <3>1 DEF IdsBelow
    <3>2. CASE LocateHeader(u) /\ paths' # paths
      <4>1. paths' = ReplacePath(next_id, Header, HeaderTime) /\ next_id' = next_id + 1
        BY <1>0, <3>2, LocateHeaderDoes
      <4>2. DOMAIN paths' = DOMAIN paths \cup {next_id}
        BY <4>1 DEF ReplacePath
      <4> QED BY <1>0, <1>2, <3>0, <4>1, <4>2 DEF IdsBelow
    <3> QED BY <1>4, <3>1, <3>2 DEF Works, SkipUnit, StartUnit, FailUnit, LocateCached, tables
  <2>2. \A v \in Units : hid'[v] # NoId => hid'[v] < next_id'
    <3>1. next_id' \in {next_id, next_id + 1}
      BY <1>0, <1>4, HeaderIds
    <3>2. \A i \in Rows(Header) : i < next_id /\ i \in Nat
      BY <1>0, <1>2, <1>4, WorksDoes DEF IdsBelow, Rows
    <3>3. \A v \in Units : v # u => hid'[v] = hid[v]
      BY <1>0, <1>4, HeaderIds
    <3>4. \/ \E v \in Units : hid'[u] = hid[v]
          \/ hid'[u] = NoId
          \/ hid'[u] \in Rows(Header)
          \/ hid'[u] = next_id /\ next_id' = next_id + 1
      BY <1>0, <1>4, HeaderIds
    <3>5. hid'[u] # NoId => hid'[u] < next_id'
      BY <1>0, <1>1, <3>1, <3>2, <3>4 DEF IdsBelow
    <3>6. \A v \in Units : hid[v] # NoId => hid[v] < next_id'
      BY <1>0, <1>1, <3>1 DEF IdsBelow
    <3> QED BY <3>3, <3>5, <3>6
  <2>3. \A v \in Units : id'[v] # NoId => id'[v] < next_id'
    <3>1. next_id' \in {next_id, next_id + 1} /\ (StartUnit(u) => next_id' = next_id + 1)
      BY <1>0, <1>4, HeaderIds
    <3>2. \A v \in Units : v # u => id'[v] = id[v]
      BY <1>0, <1>4, WorksDoes
    <3>3. id'[u] = id[u] \/ (StartUnit(u) /\ id'[u] = next_id)
      BY <1>0, <1>4, WorksDoes
    <3>4. \A v \in Units : id[v] # NoId => id[v] < next_id'
      BY <1>0, <1>1, <3>1 DEF IdsBelow
    <3> QED BY <1>0, <3>1, <3>2, <3>3, <3>4
  <2>4. phase' = "up" /\ \A v \in Units : unit'[v] = "todo" => id'[v] = NoId
    BY <1>0, <1>4, WorksDoes DEF IdsBelow
  <2> QED BY <2>1, <2>2, <2>3, <2>4 DEF IdsBelow
<1>5. ASSUME NEW u \in Units, SendUnit(u) PROVE IdsBelow'
  BY <1>0, <1>5, SendDoes DEF IdsBelow, tables
<1>6. ASSUME NEW s \in Stores, GetStmts(s) PROVE IdsBelow'
  BY <1>0, <1>6, GetDoes DEF IdsBelow, tables
<1>7. ASSUME NEW s \in Stores, Dml(s) PROVE IdsBelow'
  <2>1. phase = "up" /\ UNCHANGED <<phase, next_id, unit, id, hid>>
    BY <1>0, <1>7, DmlDoes
  <2>2. CASE UNCHANGED paths
    BY <1>0, <2>1, <2>2 DEF IdsBelow
  <2>3. ASSUME NEW r \in Stores, NEW u \in Units, WritesRow(r, u) PROVE IdsBelow'
    <3>1. DOMAIN paths' = DOMAIN paths \cup {id[u]} /\ id[u] # NoId
      BY <2>3 DEF WritesRow, ReplacePath
    <3>2. \A i \in DOMAIN paths' : i < next_id
      BY <1>0, <2>1, <3>1 DEF IdsBelow
    <3> QED BY <1>0, <2>1, <3>2 DEF IdsBelow
  <2>4. ~WritesHeader
    BY <1>0, <2>1 DEF WritesHeader
  <2> QED BY <2>2, <2>3, <2>4, PathsChange
<1>8. CASE Tick \/ (\E f \in Files : Edit(f)) \/ UNCHANGED vars
  BY <1>0, <1>8 DEF Tick, Edit, vars, memory, tables, IdsBelow
<1> QED BY <1>3, <1>4, <1>5, <1>6, <1>7, <1>8, NextSteps

LEMMA IdsInUseDifferNext == IdsInv /\ [Next]_vars => IdsInUseDiffer'
<1> SUFFICES ASSUME IdsInv, [Next]_vars PROVE IdsInUseDiffer'
  OBVIOUS
<1>0. StoreTyped /\ QueueTyped /\ TablesTyped /\ IdsBelow /\ IdsInUseDiffer /\ next_id \in Nat
  BY DEF IdsInv, StoreTyped, Ids
<1>1. \A u \in Units : (id[u] # NoId => id[u] \in Nat) /\ (hid[u] # NoId => hid[u] \in Nat)
  BY <1>0 DEF StoreTyped, Ids
<1>2. ASSUME UNCHANGED <<id, hid>> PROVE IdsInUseDiffer'
  BY <1>0, <1>2 DEF IdsInUseDiffer
<1>3. CASE Forgets
  BY <1>3, ForgetDoes DEF IdsInUseDiffer
<1>4. ASSUME NEW u \in Units, Works(u) PROVE IdsInUseDiffer'
  <2>1. \A v \in Units : v # u => id'[v] = id[v] /\ hid'[v] = hid[v]
    BY <1>0, <1>4, WorksDoes, HeaderIds
  <2>2. \A v \in Units : id[v] # next_id /\ hid[v] # next_id
    BY <1>0, <1>1 DEF IdsBelow, NoId
  <2>3. \A v \in Units : id[v] \notin Rows(Header)
    <3>1. Header \notin Units
      BY StoreAssumption
    <3> QED BY <3>1 DEF IdsInv, OwnRow, Rows
  <2>4. CASE StartUnit(u)
    <3>1. id'[u] = next_id /\ UNCHANGED hid
      BY <1>0, <2>4 DEF StartUnit, StoreTyped
    <3> QED BY <1>0, <2>1, <2>2, <3>1 DEF IdsInUseDiffer
  <2>5. CASE ~StartUnit(u)
    <3>1. id'[u] = id[u]
      BY <1>0, <1>4, <2>5, WorksDoes
    <3>2. \/ \E v \in Units : hid'[u] = hid[v]
          \/ hid'[u] = NoId
          \/ hid'[u] \in Rows(Header)
          \/ hid'[u] = next_id
      BY <1>0, <1>4, HeaderIds
    <3>3. \A v \in Units : id'[v] = id[v]
      BY <2>1, <3>1
    <3>4. \A v \in Units : id[v] # NoId => id[v] # hid'[u]
      BY <1>0, <2>2, <2>3, <3>2 DEF IdsInUseDiffer
    <3> QED BY <1>0, <2>1, <3>3, <3>4 DEF IdsInUseDiffer
  <2> QED BY <2>4, <2>5
<1>5. ASSUME NEW u \in Units, SendUnit(u) PROVE IdsInUseDiffer'
  BY <1>0, <1>2, <1>5, SendDoes
<1>6. ASSUME NEW s \in Stores, GetStmts(s) \/ Dml(s) PROVE IdsInUseDiffer'
  BY <1>0, <1>2, <1>6, GetDoes, DmlDoes
<1>7. CASE Tick \/ (\E f \in Files : Edit(f)) \/ UNCHANGED vars
  BY <1>2, <1>7 DEF Tick, Edit, vars, memory
<1> QED BY <1>3, <1>4, <1>5, <1>6, <1>7, NextSteps

LEMMA OwnRowNext == IdsInv /\ [Next]_vars => OwnRow'
<1> SUFFICES ASSUME IdsInv, [Next]_vars, NEW u \in Units, id'[u] \in DOMAIN paths'
             PROVE  paths'[id'[u]].file = u /\ ~OnTheWay(u)'
  BY DEF OwnRow
<1>0. /\ StoreTyped /\ QueueTyped /\ TablesTyped /\ IdsBelow /\ OwnRow /\ IdsInUseDiffer
      /\ next_id \in Nat /\ NoId \notin DOMAIN paths
  BY DEF IdsInv, StoreTyped, TablesTyped, Ids, NoId
<1>1. id[u] # next_id
  BY <1>0 DEF IdsBelow, NoId, StoreTyped, Ids
<1>2. ASSUME UNCHANGED paths, id'[u] = id[u], ~StartUnit(u)
      PROVE  paths'[id'[u]].file = u /\ ~OnTheWay(u)'
  BY <1>0, <1>2, OnTheWayNext DEF OwnRow
<1>3. CASE Forgets
  <2>1. id'[u] = NoId /\ UNCHANGED paths
    BY <1>3, ForgetDoes DEF tables
  <2> QED BY <1>0, <2>1
<1>4. CASE StartUnit(u)
  <2>1. id'[u] = next_id /\ UNCHANGED paths /\ phase = "up"
    BY <1>0, <1>4 DEF StartUnit, StoreTyped, tables
  <2> QED BY <1>0, <2>1 DEF IdsBelow
<1>5. CASE ~Forgets /\ ~StartUnit(u)
  <2>1. id'[u] = id[u]
    <3>1. ASSUME NEW v \in Units, Works(v) PROVE id'[u] = id[u]
      BY <1>0, <1>5, <3>1, WorksDoes
    <3>2. ASSUME NEW v \in Units, SendUnit(v) PROVE id'[u] = id[u]
      BY <1>0, <3>2, SendDoes
    <3>3. ASSUME NEW s \in Stores, GetStmts(s) \/ Dml(s) PROVE id'[u] = id[u]
      BY <1>0, <3>3, GetDoes, DmlDoes
    <3>4. CASE Tick \/ (\E f \in Files : Edit(f)) \/ UNCHANGED vars
      BY <3>4 DEF Tick, Edit, vars, memory
    <3> QED BY <1>5, <3>1, <3>2, <3>3, <3>4, NextSteps
  <2>2. CASE UNCHANGED paths
    BY <1>2, <1>5, <2>1, <2>2
  <2>3. CASE WritesHeader
    <3>1. /\ DOMAIN paths' = DOMAIN paths \cup {next_id}
          /\ \A j \in DOMAIN paths : j # next_id => paths'[j] = paths[j]
      BY <2>3 DEF WritesHeader, ReplacePath
    <3> QED BY <1>0, <1>1, <1>5, <2>1, <3>1, OnTheWayNext DEF OwnRow
  <2>4. ASSUME NEW s \in Stores, NEW v \in Units, WritesRow(s, v)
        PROVE  paths'[id'[u]].file = u /\ ~OnTheWay(u)'
    <3>1. /\ DOMAIN paths' = DOMAIN paths \cup {id[v]} /\ paths'[id[v]].file = v
          /\ \A j \in DOMAIN paths : j # id[v] => paths'[j] = paths[j]
          /\ ~OnTheWay(v)'
      BY <2>4 DEF WritesRow, ReplacePath
    <3>2. CASE u = v
      BY <2>1, <3>1, <3>2
    <3>3. CASE u # v
      <4>1. id[u] # id[v]
        <5>1. id[v] # NoId
          BY <2>4 DEF WritesRow
        <5> QED BY <1>0, <3>3, <5>1 DEF IdsInUseDiffer
      <4> QED BY <1>0, <1>5, <2>1, <3>1, <4>1, OnTheWayNext DEF OwnRow
    <3> QED BY <3>2, <3>3
  <2> QED BY <2>2, <2>3, <2>4, PathsChange
<1> QED BY <1>3, <1>4, <1>5

LEMMA IdsInvNext == IdsInv /\ [Next]_vars => IdsInv'
<1> SUFFICES ASSUME IdsInv, [Next]_vars PROVE IdsInv'
  OBVIOUS
<1>1. StoreTyped /\ QueueTyped /\ TablesTyped /\ SentOnce
  BY DEF IdsInv
<1>2. StoreTyped' /\ QueueTyped' /\ TablesTyped' /\ SentOnce'
  BY <1>1, StoreTypedNext, QueueTypedNext, TablesTypedNext, SentOnceNext
<1>3. IdsBelow' /\ OwnRow' /\ IdsInUseDiffer'
  BY IdsBelowNext, OwnRowNext, IdsInUseDifferNext
<1> QED BY <1>2, <1>3 DEF IdsInv

LEMMA IdsAlways == Spec => []IdsInv
BY IdsInit, IdsInvNext, PTL DEF Spec

-----------------------------------------------------------------------------
(* What the ids promise                                                     *)

\* The variables have their types.
THEOREM StoreTypes == Spec => []TypeOK
<1>1. IdsInv => TypeOK
  <2> SUFFICES ASSUME StoreTyped, QueueTyped, TablesTyped PROVE TypeOK
    BY DEF IdsInv
  <2>1. /\ now \in 1 .. MaxTime /\ mtime \in [Files -> 1 .. now] /\ edits \in [Files -> Nat]
        /\ before \in [Files -> Nat]
        /\ phase \in {"down", "up", "exited"} /\ runs \in 0 .. MaxRuns /\ next_id \in Nat \ {0}
        /\ unit \in [Units -> {"todo", "parsing", "located", "over"}]
        /\ id \in [Units -> Nat \cup {NoId}] /\ hid \in [Units -> Nat \cup {NoId}]
        /\ time \in [Units -> 0 .. now]
        /\ \A u \in Units : seen[u] = Unread \/ seen[u] \in Nat \X Nat
    BY DEF StoreTyped, Labels, Ids, Reading
  <2>2. \A k \in DOMAIN queue : queue[k].unit \in Units /\ queue[k].time \in 1 .. now
    <3>1. DOMAIN queue = 1 .. Len(queue) /\ \A k \in 1 .. Len(queue) : queue[k] \in BatchSet
      BY DEF QueueTyped
    <3>2. \A b \in BatchSet : b.unit \in Units /\ b.time \in Nat \ {0}
      BY DEF BatchSet, Ids
    <3>3. \A k \in 1 .. Len(queue) : queue[k].time <= now
      BY DEF QueueTyped
    <3> QED BY <2>1, <3>1, <3>2, <3>3
  <2>3. /\ DOMAIN paths \subseteq Nat \ {0}
        /\ \A i \in DOMAIN paths : paths[i] \in [file : Files, time : 0 .. now]
    BY <2>1 DEF TablesTyped, Ids, PathRow
  <2>4. /\ DOMAIN defs \subseteq Files /\ \A f \in DOMAIN defs : defs[f] \in Nat \ {0}
        /\ calls \subseteq [unit : Units, file : Nat, from : Nat \X Nat]
    BY DEF TablesTyped, Ids, Reading
  <2> QED BY <2>1, <2>2, <2>3, <2>4 DEF TypeOK
<1> QED BY <1>1, IdsAlways, PTL

\* In one run no file gets the id of another: parse tasks take ids from an atomic counter
\* that starts above all the rows there are (IndexCtx.h:129-130, Main.cc:803-811), and
\* the header's id is that of its row or a new one.
THEOREM IdsStayApart == Spec => []IdsInUseDiffer
BY IdsAlways, PTL DEF IdsInv

\* Whatever crashes, fails or is lost, in whatever run: REPLACE INTO filepaths never finds a
\* row with its id, so that a row written once stays as it is.
THEOREM RowsAreForever == Spec => PathsNeverOverwritten
<1>1. IdsInv /\ [Next]_vars => [\A i \in DOMAIN paths : i \in DOMAIN paths' /\ paths'[i] = paths[i]]_vars
  <2> SUFFICES ASSUME IdsInv, [Next]_vars, NEW i \in DOMAIN paths
               PROVE  i \in DOMAIN paths' /\ paths'[i] = paths[i]
    OBVIOUS
  <2>1. CASE UNCHANGED paths
    BY <2>1
  <2>2. CASE WritesHeader
    BY <2>2 DEF WritesHeader, ReplacePath
  <2>3. ASSUME NEW s \in Stores, NEW u \in Units, WritesRow(s, u)
        PROVE  i \in DOMAIN paths' /\ paths'[i] = paths[i]
    BY <2>3 DEF WritesRow, ReplacePath
  <2> QED BY <2>1, <2>2, <2>3, PathsChange
<1> QED BY <1>1, IdsAlways, PTL DEF Spec, PathsNeverOverwritten

-----------------------------------------------------------------------------
(* The order of the statements                                              *)

\* Fewer recoverable errors in a row than execute_dml_impl makes attempts: then no
\* statement is lost without an error.
FewErrors == MaxErrors < RetryCount - 1

LEMMA NothingLost == FewErrors => "lost" \notin Outcomes
BY StoreAssumption DEF FewErrors, Outcomes, Outcome

\* Definitions and calls stay.
LEMMA TablesGrow ==
  ASSUME StoreTyped, QueueTyped, TablesTyped, [Next]_vars
  PROVE  DOMAIN defs \subseteq DOMAIN defs' /\ calls \subseteq calls'
<1> USE DEF tables
<1>1. CASE Forgets
  BY <1>1, ForgetDoes
<1>2. CASE Tick \/ (\E f \in Files : Edit(f)) \/ UNCHANGED vars
  BY <1>2 DEF Tick, Edit, vars
<1>3. ASSUME NEW u \in Units, Works(u) \/ SendUnit(u) PROVE UNCHANGED <<defs, calls>>
  BY <1>3 DEF Works, SkipUnit, StartUnit, FailUnit, LocateCached, LocateHeader, SendUnit
<1>4. ASSUME NEW s \in Stores, GetStmts(s) PROVE UNCHANGED <<defs, calls>>
  BY <1>4, GetDoes
<1>5. ASSUME NEW s \in Stores, Dml(s)
      PROVE  DOMAIN defs \subseteq DOMAIN defs' /\ calls \subseteq calls'
  <2>1. hand[s].batch \in BatchSet /\ (Executes(s) \/ Discards(s))
    BY <1>5, DmlDoes
  <2>2. DOMAIN defs \subseteq DOMAIN InsertDefs(hand[s].batch)
    BY <2>1, Inserted DEF TablesTyped
  <2> QED BY <2>1, <2>2 DEF Executes, Discards, Execute
<1> QED BY <1>1, <1>2, <1>3, <1>4, <1>5, NextSteps

\* What is current stays so, whatever file is edited.
LEMMA FileStaysCurrent ==
  ASSUME StoreTyped, NEW f \in Files, Edit(f), NEW g \in Files, NEW contents \in Nat,
         NEW t \in 0 .. now, CurrentOrNewer(g, contents, t)
  PROVE  CurrentThen(g, contents, t)
<1>0. /\ mtime[g] \in Nat /\ mtime[g] <= now /\ edits[g] \in Nat /\ before[g] \in Nat
      /\ before[g] <= edits[g] /\ now \in Nat
  BY DEF StoreTyped
<1>1. CASE g # f
  <2>1. mtime'[g] = mtime[g] /\ edits'[g] = edits[g] /\ before'[g] = before[g]
    BY <1>1 DEF Edit, StoreTyped
  <2> QED BY <2>1 DEF CurrentOrNewer, CurrentFor, CurrentThen
<1>2. CASE g = f
  <2>1. mtime'[g] = now /\ before'[g] = IF mtime[g] = now THEN before[g] ELSE edits[g]
    BY <1>2 DEF Edit, StoreTyped
  <2>2. now > t \/ now = t
    BY <1>0
  <2>3. CASE now > t
    BY <2>1, <2>3 DEF CurrentThen
  <2>4. CASE now = t
    <3>1. contents = edits[g] \/ (mtime[g] = t /\ contents >= before[g])
      BY <1>0, <2>4 DEF CurrentOrNewer, CurrentFor
    <3>2. contents >= before'[g]
      BY <1>0, <2>1, <2>4, <3>1
    <3> QED BY <2>1, <2>4, <3>2 DEF CurrentThen
  <2> QED BY <2>2, <2>3, <2>4
<1> QED BY <1>1, <1>2

LEMMA StaysCurrent ==
  ASSUME StoreTyped, [Next]_vars, NEW u \in Units, NEW from \in Reading, NEW t \in 0 .. now,
         Current(u, from, t)
  PROVE  CurrentAfter(u, from, t)
<1> USE DEF disk
<1>1. CASE UNCHANGED <<mtime, edits, before>>
  BY <1>1 DEF Current, CurrentAfter, CurrentOrNewer, CurrentFor, CurrentThen
<1>2. ASSUME NEW f \in Files, Edit(f) PROVE CurrentAfter(u, from, t)
  <2>1. u \in Files /\ Header \in Files /\ from[1] \in Nat /\ from[2] \in Nat
    BY DEF Files, Reading
  <2> QED BY <1>2, <2>1, FileStaysCurrent DEF Current, CurrentAfter
<1>3. ASSUME NEW f \in Units, Works(f) PROVE UNCHANGED <<mtime, edits, before>>
  BY <1>3, WorksDoes
<1>4. ASSUME NEW f \in Units, SendUnit(f) PROVE UNCHANGED <<mtime, edits, before>>
  BY <1>4, SendDoes
<1>5. ASSUME NEW s \in Stores, GetStmts(s) \/ Dml(s) PROVE UNCHANGED <<mtime, edits, before>>
  BY <1>5 DEF GetStmts, Dml
<1>6. ASSUME Forgets \/ Tick \/ UNCHANGED vars PROVE UNCHANGED <<mtime, edits, before>>
  BY <1>6, ForgetDoes DEF Tick, vars
<1> QED BY <1>1, <1>2, <1>3, <1>4, <1>5, <1>6, NextSteps

LEMMA ReadCurrentNext ==
  StoreTyped /\ QueueTyped /\ TablesTyped /\ ReadCurrent /\ [Next]_vars => ReadCurrent'
<1> SUFFICES ASSUME StoreTyped, QueueTyped, TablesTyped, ReadCurrent, [Next]_vars PROVE ReadCurrent'
  OBVIOUS
<1> USE DEF disk
<1> DEFINE Now(u, from, t) == CurrentAfter(u, from, t)
<1>1. \A u \in Units : \A from \in Reading : \A t \in 0 .. now :
        Current(u, from, t) => Now(u, from, t)
  BY StaysCurrent
<1>2. /\ queue \in Seq(BatchSet) /\ now \in Nat
      /\ \A k \in 1 .. Len(queue) :
           queue[k].unit \in Units /\ queue[k].time \in 0 .. now /\ queue[k].from \in Reading
      /\ \A s \in Stores : hand[s] # Idle =>
           /\ hand[s].batch.unit \in Units /\ hand[s].batch.time \in 0 .. now
           /\ hand[s].batch.from \in Reading
      /\ \A u \in Units : time[u] \in 0 .. now /\ (unit[u] = "located" => seen[u] \in Reading)
  <2>1. \A b \in BatchSet : b.unit \in Units /\ b.time \in Nat /\ b.from \in Reading
    BY DEF BatchSet, Ids
  <2>2. \A k \in 1 .. Len(queue) : queue[k] \in BatchSet /\ queue[k].time <= now
    BY DEF QueueTyped
  <2>3. \A s \in Stores : hand[s] # Idle => hand[s].batch \in BatchSet /\ hand[s].batch.time <= now
    BY DEF QueueTyped, HandSet
  <2> QED BY <2>1, <2>2, <2>3 DEF QueueTyped, StoreTyped
<1>3. /\ \A u \in Units : unit[u] = "located" => Now(u, seen[u], time[u])
      /\ \A k \in 1 .. Len(queue) : Now(queue[k].unit, queue[k].from, queue[k].time)
      /\ \A s \in Stores : hand[s] # Idle =>
           Now(hand[s].batch.unit, hand[s].batch.from, hand[s].batch.time)
  BY <1>1, <1>2 DEF ReadCurrent
<1> SUFFICES /\ \A u \in Units : unit'[u] = "located" => Now(u, seen'[u], time'[u])
             /\ \A k \in 1 .. Len(queue') : Now(queue'[k].unit, queue'[k].from, queue'[k].time)
             /\ \A s \in Stores : hand'[s] # Idle =>
                  Now(hand'[s].batch.unit, hand'[s].batch.from, hand'[s].batch.time)
  BY DEF ReadCurrent, Current, CurrentAfter, CurrentOrNewer, CurrentFor, CurrentThen
<1>4. CASE UNCHANGED <<unit, seen, time, queue, hand>>
  BY <1>3, <1>4
<1>5. CASE Forgets
  BY <1>5, ForgetDoes
<1>6. ASSUME NEW u \in Units, Works(u)
      PROVE  /\ \A v \in Units : unit'[v] = "located" => Now(v, seen'[v], time'[v])
             /\ UNCHANGED <<queue, hand>>
  <2>0. /\ unit \in [Units -> Labels] /\ time \in [Units -> 0 .. now]
        /\ seen \in [Units -> Reading \cup {Unread}]
    BY DEF StoreTyped
  <2>1. CASE LocateCached(u) \/ LocateHeader(u)
    <3>1. unit' = [unit EXCEPT ![u] = "located"] /\ seen' = [seen EXCEPT ![u] = Contents(u)]
          /\ UNCHANGED <<time, mtime, edits, before>>
      BY <2>1 DEF LocateCached, LocateHeader
    <3>2. seen'[u] = <<edits'[u], edits'[Header]>>
      BY <2>0, <3>1 DEF Contents
    <3>3. \A v \in Units : v # u => unit'[v] = unit[v] /\ seen'[v] = seen[v] /\ time'[v] = time[v]
      BY <2>0, <3>1
    <3>4. Now(u, seen'[u], time'[u])
      BY <3>2 DEF CurrentAfter, CurrentThen
    <3> HIDE DEF Now
    <3>5. \A v \in Units : v # u /\ unit'[v] = "located" => Now(v, seen'[v], time'[v])
      BY <1>3, <3>3
    <3> QED BY <1>6, <3>4, <3>5, WorksDoes
  <2>2. CASE SkipUnit(u) \/ StartUnit(u) \/ FailUnit(u)
    <3>1. unit'[u] # "located"
          /\ \A v \in Units : v # u => unit'[v] = unit[v] /\ seen'[v] = seen[v] /\ time'[v] = time[v]
      BY <2>0, <2>2 DEF SkipUnit, StartUnit, FailUnit, Over
    <3> HIDE DEF Now
    <3> QED BY <1>3, <1>6, <3>1, WorksDoes
  <2> QED BY <1>6, <2>1, <2>2 DEF Works
<1>7. ASSUME NEW u \in Units, SendUnit(u)
      PROVE  /\ \A v \in Units : unit'[v] = "located" => Now(v, seen'[v], time'[v])
             /\ \A k \in 1 .. Len(queue') : Now(queue'[k].unit, queue'[k].from, queue'[k].time)
             /\ UNCHANGED hand
  <2> DEFINE b == Batch(u, time[u])
  <2>1. /\ unit[u] = "located" /\ unit'[u] = "over" /\ queue' = Append(queue, b)
        /\ b \in BatchSet /\ b.unit = u /\ b.from = seen[u] /\ b.time = time[u]
        /\ \A v \in Units : v # u => unit'[v] = unit[v]
        /\ UNCHANGED hand
    BY <1>7, SendDoes
  <2>2. \A v \in Units : v # u => seen'[v] = seen[v] /\ time'[v] = time[v]
    BY <1>7 DEF SendUnit, Over, StoreTyped
  <2> HIDE DEF b, Now
  <2>3. Now(b.unit, b.from, b.time)
    BY <1>3, <2>1
  <2>4. \A k \in 1 .. Len(queue') : queue'[k] = b \/ (k \in 1 .. Len(queue) /\ queue'[k] = queue[k])
    BY <1>2, <2>1
  <2> QED BY <1>3, <2>1, <2>2, <2>3, <2>4
<1>8. ASSUME NEW s \in Stores, GetStmts(s)
      PROVE  /\ UNCHANGED <<unit, seen, time>>
             /\ \A k \in 1 .. Len(queue') : Now(queue'[k].unit, queue'[k].from, queue'[k].time)
             /\ \A r \in Stores : hand'[r] # Idle =>
                  Now(hand'[r].batch.unit, hand'[r].batch.from, hand'[r].batch.time)
  <2>1. /\ hand'[s].batch = queue[1] /\ 1 \in 1 .. Len(queue)
        /\ \A r \in Stores : r # s => hand'[r] = hand[r]
        /\ \A k \in 1 .. Len(queue') : queue'[k] = queue[k + 1] /\ k + 1 \in 1 .. Len(queue)
        /\ UNCHANGED <<unit, seen, time>>
    BY <1>8, GetDoes
  <2> HIDE DEF Now
  <2> QED BY <1>3, <2>1
<1>9. ASSUME NEW s \in Stores, Dml(s)
      PROVE  /\ UNCHANGED <<unit, seen, time, queue>>
             /\ \A r \in Stores : hand'[r] # Idle =>
                  Now(hand'[r].batch.unit, hand'[r].batch.from, hand'[r].batch.time)
  <2>1. /\ hand[s] # Idle /\ UNCHANGED <<unit, seen, time, queue>>
        /\ \A r \in Stores : r # s => hand'[r] = hand[r]
        /\ Executes(s) \/ Discards(s)
    BY <1>9, DmlDoes
  <2>2. hand'[s] # Idle => hand'[s].batch = hand[s].batch
    BY <2>1 DEF Executes, Discards
  <2> HIDE DEF Now
  <2> QED BY <1>3, <2>1, <2>2
<1>10. CASE Tick \/ (\E f \in Files : Edit(f)) \/ UNCHANGED vars
  BY <1>4, <1>10 DEF Tick, Edit, vars, memory
<1> HIDE DEF Now
<1> QED BY <1>3, <1>5, <1>6, <1>7, <1>8, <1>9, <1>10, NextSteps

LEMMA InOrderNext ==
  FewErrors /\ StoreTyped /\ QueueTyped /\ TablesTyped /\ InOrder /\ [Next]_vars => InOrder'
<1> SUFFICES ASSUME FewErrors, StoreTyped, QueueTyped, TablesTyped, InOrder, [Next]_vars
             PROVE  InOrder'
  OBVIOUS
<1> USE DEF memory
<1>1. DOMAIN defs \subseteq DOMAIN defs' /\ calls \subseteq calls'
  BY TablesGrow
<1>2. ASSUME NEW r \in Stores, hand'[r] = hand[r], hand'[r] # Idle
      PROVE  /\ hand'[r].left # Statements => hand'[r].batch.unit \in DOMAIN defs'
             /\ hand'[r].left = <<"path">> => CallsOf(hand[r].batch) \in calls'
  BY <1>1, <1>2 DEF InOrder
<1>3. CASE UNCHANGED hand
  BY <1>2, <1>3 DEF InOrder, CallsOf
<1>4. CASE Forgets
  BY <1>4, ForgetDoes DEF InOrder
<1>5. ASSUME NEW s \in Stores, GetStmts(s) PROVE InOrder'
  <2>1. hand'[s].left = Statements /\ Statements # <<"path">>
    BY <1>5, GetDoes, TheLefts
  <2>2. \A r \in Stores : r # s => hand'[r] = hand[r]
    BY <1>5, GetDoes
  <2> QED BY <1>2, <2>1, <2>2 DEF InOrder, CallsOf
<1>6. ASSUME NEW s \in Stores, Dml(s) PROVE InOrder'
  <2> DEFINE b == hand[s].batch
             left == hand[s].left
  <2>1. /\ hand[s] # Idle /\ b \in BatchSet /\ left \in Lefts
        /\ \A r \in Stores : r # s => hand'[r] = hand[r]
        /\ Executes(s) \/ Discards(s)
    BY <1>6, DmlDoes
  <2>2. hand'[s] # Idle =>
          /\ hand'[s].batch = b
          /\ hand'[s].left # Statements => b.unit \in DOMAIN defs'
          /\ hand'[s].left = <<"path">> => CallsOf(b) \in calls'
    <3>1. CASE Discards(s)
      BY <3>1, NothingLost DEF Discards
    <3>2. CASE Executes(s) /\ hand'[s] # Idle
      <4>1. /\ left # <<"path">> /\ hand'[s] = [batch |-> b, left |-> Tail(left)]
            /\ Execute(Head(left), b)
        BY <3>2 DEF Executes
      <4>2. Tail(left) \in Lefts /\ Tail(left) # Statements
        BY <2>1, <4>1, TheLefts
      <4>3. b.unit \in DOMAIN defs'
        <5>1. CASE left = Statements
          <6>1. defs' = InsertDefs(b)
            BY <2>1, <4>1, <5>1, TheLefts DEF Execute
          <6> QED BY <2>1, <6>1, Inserted DEF TablesTyped
        <5>2. CASE left # Statements
          BY <1>1, <2>1, <5>2 DEF InOrder
        <5> QED BY <5>1, <5>2
      <4>4. Tail(left) = <<"path">> => CallsOf(b) \in calls'
        BY <2>1, <4>1, TheLefts DEF Execute
      <4> QED BY <4>1, <4>2, <4>3, <4>4
    <3> QED BY <2>1, <3>1, <3>2
  <2> QED BY <1>2, <2>1, <2>2 DEF InOrder, CallsOf
<1>7. ASSUME NEW u \in Units, Works(u) \/ SendUnit(u) PROVE UNCHANGED hand
  BY <1>7, WorksDoes, SendDoes
<1>8. CASE Tick \/ (\E f \in Files : Edit(f)) \/ UNCHANGED vars
  BY <1>3, <1>8 DEF Tick, Edit, vars
<1> QED BY <1>3, <1>4, <1>5, <1>6, <1>7, <1>8, NextSteps

LEMMA RowsHaveCallsNext == IdsInv /\ OrderInv /\ [Next]_vars => RowsHaveCalls'
<1> SUFFICES ASSUME IdsInv, OrderInv, [Next]_vars, NEW u \in Units, NEW i \in DOMAIN paths',
                    paths'[i].file = u
             PROVE  /\ u \in DOMAIN defs'
                    /\ \E c \in calls' :
                         /\ c.unit = u /\ c.file = i
                         /\ CurrentAfter(u, c.from, paths'[i].time)
  BY DEF RowsHaveCalls, Rows, Current, CurrentAfter, CurrentOrNewer, CurrentFor, CurrentThen
<1>0. StoreTyped /\ QueueTyped /\ TablesTyped /\ ReadCurrent /\ InOrder /\ RowsHaveCalls
  BY DEF IdsInv, OrderInv
<1>1. DOMAIN defs \subseteq DOMAIN defs' /\ calls \subseteq calls'
  BY <1>0, TablesGrow
<1>2. CASE i \in DOMAIN paths /\ paths'[i] = paths[i]
  <2>1. PICK c \in calls : c.unit = u /\ c.file = i /\ Current(u, c.from, paths[i].time)
    BY <1>0, <1>2 DEF RowsHaveCalls, Rows
  <2>2. u \in DOMAIN defs
    BY <1>0, <1>2 DEF RowsHaveCalls, Rows
  <2>3. paths[i].time \in 0 .. now
    BY <1>0, <1>2 DEF TablesTyped, PathRow, StoreTyped
  <2>4. CurrentAfter(u, c.from, paths[i].time)
    <3>1. c.from \in Reading
      BY <1>0, <2>1 DEF TablesTyped
    <3> QED BY <1>0, <2>1, <2>3, <3>1, StaysCurrent
  <2>5. c \in calls' /\ u \in DOMAIN defs'
    BY <1>1, <2>2
  <2> QED BY <1>2, <2>1, <2>4, <2>5
<1>3. CASE UNCHANGED paths
  BY <1>2, <1>3
<1>4. CASE WritesHeader
  <2>1. paths'[next_id].file = Header /\ DOMAIN paths' = DOMAIN paths \cup {next_id}
        /\ \A j \in DOMAIN paths : j # next_id => paths'[j] = paths[j]
    BY <1>4 DEF WritesHeader, ReplacePath
  <2>2. Header # u
    BY StoreAssumption
  <2> QED BY <1>2, <2>1, <2>2
<1>5. ASSUME NEW s \in Stores, NEW v \in Units, WritesRow(s, v)
      PROVE  /\ u \in DOMAIN defs'
             /\ \E c \in calls' :
                  /\ c.unit = u /\ c.file = i
                  /\ CurrentAfter(u, c.from, paths'[i].time)
  <2> DEFINE b == hand[s].batch
  <2>1. /\ hand[s] # Idle /\ hand[s].left = <<"path">> /\ b.unit = v /\ b.file = id[v]
        /\ DOMAIN paths' = DOMAIN paths \cup {b.file}
        /\ paths'[b.file] = [file |-> v, time |-> b.time]
        /\ \A j \in DOMAIN paths : j # b.file => paths'[j] = paths[j]
        /\ UNCHANGED disk
    BY <1>5 DEF WritesRow, ReplacePath
  <2>2. v \in DOMAIN defs /\ CallsOf(b) \in calls /\ Current(v, b.from, b.time)
    <3>1. <<"path">> # Statements
      BY TheLefts
    <3> QED BY <1>0, <2>1, <3>1 DEF InOrder, ReadCurrent
  <2>3. CASE i = b.file
    <3>1. u = v /\ paths'[i].time = b.time
      BY <2>1, <2>3
    <3>2. CallsOf(b).unit = v /\ CallsOf(b).file = i /\ CallsOf(b).from = b.from
      BY <2>1, <2>3 DEF CallsOf
    <3>3. CurrentAfter(u, b.from, b.time)
      BY <2>1, <2>2, <3>1
      DEF Current, CurrentAfter, CurrentOrNewer, CurrentFor, CurrentThen, disk
    <3>4. u \in DOMAIN defs' /\ CallsOf(b) \in calls'
      BY <1>1, <2>2, <3>1
    <3> HIDE DEF b
    <3> QED BY <3>1, <3>2, <3>3, <3>4
  <2>4. CASE i # b.file
    BY <1>2, <2>1, <2>4
  <2> QED BY <2>3, <2>4
<1> QED BY <1>3, <1>4, <1>5, PathsChange

LEMMA OrderInit == Init => OrderInv
<1> SUFFICES ASSUME Init PROVE OrderInv
  OBVIOUS
<1>1. Len(queue) = 0 /\ DOMAIN paths = {} /\ \A s \in Stores : hand[s] = Idle
  BY DEF Init, AllIdle
<1>2. \A u \in Units : unit[u] = "todo"
  BY DEF Init, AllTodo
<1> QED BY <1>1, <1>2 DEF OrderInv, ReadCurrent, InOrder, RowsHaveCalls, Rows

LEMMA OrderAlways ==
  ASSUME FewErrors
  PROVE  Spec => [](IdsInv /\ OrderInv)
<1>1. Init => IdsInv /\ OrderInv
  BY IdsInit, OrderInit
<1>2. (IdsInv /\ OrderInv) /\ [Next]_vars => (IdsInv /\ OrderInv)'
  <2> SUFFICES ASSUME IdsInv, OrderInv, [Next]_vars PROVE IdsInv' /\ OrderInv'
    OBVIOUS
  <2>1. StoreTyped /\ QueueTyped /\ TablesTyped /\ ReadCurrent /\ InOrder
    BY DEF IdsInv, OrderInv
  <2>2. ReadCurrent' /\ InOrder'
    BY <2>1, ReadCurrentNext, InOrderNext
  <2>3. IdsInv' /\ RowsHaveCalls'
    BY IdsInvNext, RowsHaveCallsNext
  <2> QED BY <2>2, <2>3 DEF OrderInv
<1> QED BY <1>1, <1>2, PTL DEF Spec

\* While no statement is lost without an error (MYSQLConn.cc:181-212), the row that makes a
\* unit up to date is there only with its definitions and calls: they come before it in the
\* batch (ParseTask.cc:697-706) and a failed one discards the rest, whatever crashes between.
THEOREM RowComesLast == FewErrors => (Spec => []HappensAfterOrFail)
<1> SUFFICES ASSUME FewErrors PROVE Spec => []HappensAfterOrFail
  OBVIOUS
<1>1. IdsInv /\ OrderInv => HappensAfterOrFail
  BY DEF OrderInv, RowsHaveCalls, HappensAfterOrFail
<1> QED BY <1>1, OrderAlways, PTL

\* Under the same condition, whatever is edited, fails or crashes: a unit that
\* check_need_reindex takes for up to date has with its newest row the calls of what its
\* file and its header hold now, but for changes made in the very second of that row: the
\* clock was read before the files (ParseTask.cc:644-653), and the times are compared
\* strictly (IncludeAnalyzer.cc:116-122, 165).
THEOREM UpToDateMeansCurrent == FewErrors => (Spec => []UpToDateIsCurrent)
<1> SUFFICES ASSUME FewErrors PROVE Spec => []UpToDateIsCurrent
  OBVIOUS
<1>1. IdsInv /\ OrderInv => UpToDateIsCurrent
  <2> SUFFICES ASSUME IdsInv, OrderInv, NEW u \in Units, ~NeedsReindex(u), NEW i \in Rows(u),
                      paths[i].time = LastTime(u)
               PROVE  \E c \in calls : /\ c.unit = u /\ c.file = i
                                       /\ CurrentFor(u, c.from[1], LastTime(u))
                                       /\ CurrentFor(Header, c.from[2], LastTime(u))
    BY DEF UpToDateIsCurrent
  <2>1. PICK c \in calls : c.unit = u /\ c.file = i /\ Current(u, c.from, paths[i].time)
    BY DEF OrderInv, RowsHaveCalls
  <2>2. mtime \in [Files -> Nat] /\ paths[i].time \in Nat
    BY DEF IdsInv, StoreTyped, TablesTyped, Rows, PathRow
  <2>3. NewestTime(u) >= mtime[u] /\ NewestTime(u) >= mtime[Header] /\ NewestTime(u) \in Nat
    BY <2>2, NewestTimeIs
  <2>4. mtime[u] \in Nat /\ mtime[Header] \in Nat
    BY <2>2 DEF Files
  <2>5. ~(NewestTime(u) > LastTime(u)) /\ LastTime(u) \in Nat
    BY <2>2 DEF NeedsReindex
  <2>6. ~(mtime[u] > LastTime(u)) /\ ~(mtime[Header] > LastTime(u))
    BY <2>3, <2>4, <2>5
  <2> QED BY <2>1, <2>6 DEF Current, CurrentOrNewer
<1> QED BY <1>1, OrderAlways, PTL

-----------------------------------------------------------------------------
(* A run in which nothing failed                                            *)

\* The newest row of a file.
LEMMA LastTimeIs ==
  ASSUME TablesTyped, now \in Nat, NEW f, Known(f)
  PROVE  /\ \E i \in Rows(f) : paths[i].time = LastTime(f)
         /\ \A i \in Rows(f) : paths[i].time <= LastTime(f)
         /\ LastTime(f) \in Nat
<1> DEFINE T == {paths[i].time : i \in Rows(f)}
<1>1. T \in SUBSET Nat /\ T # {} /\ \A t \in T : t <= now
  BY DEF TablesTyped, Rows, Known, PathRow
<1>2. LastTime(f) = CHOOSE x \in T : \A y \in T : x >= y
  BY DEF LastTime, Max
<1> HIDE DEF T
<1>3. \E x \in T : \A y \in T : y <= x
  BY <1>1, GreatestElement
<1>4. \A x, y \in T : y <= x <=> x >= y
  BY <1>1
<1>5. \E x \in T : \A y \in T : x >= y
  BY <1>3, <1>4
<1>6. LastTime(f) \in T /\ \A y \in T : LastTime(f) >= y
  BY <1>2, <1>5
<1>7. LastTime(f) \in T /\ LastTime(f) \in Nat /\ \A y \in T : y <= LastTime(f)
  BY <1>1, <1>6
<1> QED BY <1>7 DEF T

\* A new row stays one while no file is changed.
LEMMA NewRowStays ==
  ASSUME IdsInv, [Next]_vars, UNCHANGED mtime, NEW u \in Units, HasNewRow(u)
  PROVE  HasNewRow(u)'
<1>1. PICK i \in DOMAIN paths : paths[i].file = u /\ New(u, paths[i].time)
  BY DEF HasNewRow, Rows
<1>2. i \in DOMAIN paths' /\ paths'[i] = paths[i]
  <2>1. CASE UNCHANGED paths
    BY <2>1
  <2>2. CASE WritesHeader
    BY <2>2 DEF WritesHeader, ReplacePath
  <2>3. ASSUME NEW s \in Stores, NEW v \in Units, WritesRow(s, v)
        PROVE  i \in DOMAIN paths' /\ paths'[i] = paths[i]
    BY <2>3 DEF WritesRow, ReplacePath
  <2> QED BY <2>1, <2>2, <2>3, PathsChange
<1> QED BY <1>1, <1>2 DEF HasNewRow, Rows, New

LEMMA CleanInvNext == IdsInv /\ CleanInv /\ [Next]_vars => CleanInv'
<1> SUFFICES ASSUME IdsInv, CleanInv, [Next]_vars, clean' PROVE CleanInv'
  BY DEF CleanInv
<1> USE DEF disk, memory, tables
<1>0. /\ StoreTyped /\ QueueTyped /\ TablesTyped /\ SentOnce /\ IdsBelow
      /\ queue \in Seq(BatchSet) /\ now \in Nat
  BY DEF IdsInv, QueueTyped, StoreTyped
<1>1. ASSUME NEW u \in Units, UNCHANGED mtime, HasNewRow(u) PROVE HasNewRow(u)'
  BY <1>1, NewRowStays
<1>2. ASSUME UNCHANGED <<phase, mtime, unit, time, queue, hand, paths, clean>> PROVE CleanInv'
  BY <1>2 DEF CleanInv, New, InQueue, InHand, HasNewRow, Rows
<1>3. CASE Tick \/ UNCHANGED vars
  BY <1>2, <1>3 DEF Tick, vars
<1>4. ASSUME NEW f \in Files, Edit(f) PROVE FALSE
  BY <1>4 DEF Edit
<1>5. CASE Forgets
  <2>1. /\ Len(queue') = 0 /\ \A s \in Stores : hand'[s] = Idle
        /\ \A u \in Units : unit'[u] = "todo"
        /\ UNCHANGED <<mtime, paths>>
    BY <1>5, ForgetDoes
  <2>2. phase' = "exited" => \A u \in Units : HasNewRow(u)'
    <3>1. CASE Prepare \/ Crash
      BY <3>1 DEF Prepare, Crash, Ends
    <3>2. CASE Exit
      <4>1. /\ clean /\ phase = "up" /\ Len(queue) = 0 /\ \A s \in Stores : hand[s] = Idle
            /\ \A u \in Units : unit[u] = "over"
        BY <3>2 DEF Exit, Ends
      <4>2. \A u \in Units : HasNewRow(u)
        BY <4>1 DEF CleanInv, InQueue, InHand
      <4> QED BY <1>1, <2>1, <4>2
    <3> QED BY <1>5, <3>1, <3>2 DEF Forgets
  <2> QED BY <2>1, <2>2 DEF CleanInv
<1>6. ASSUME NEW u \in Units, Works(u) PROVE CleanInv'
  <2>0. /\ phase = "up" /\ UNCHANGED <<queue, hand, phase, mtime>> /\ unit[u] # "over"
        /\ \A v \in Units : v # u => unit'[v] = unit[v]
    BY <1>0, <1>6, WorksDoes
  <2>1. clean /\ \A v \in Units : v # u => time'[v] = time[v]
    <3>1. CASE LocateHeader(u)
      BY <1>0, <3>1, LocateHeaderDoes
    <3>2. CASE SkipUnit(u) \/ StartUnit(u) \/ FailUnit(u) \/ LocateCached(u)
      BY <1>0, <3>2 DEF SkipUnit, StartUnit, FailUnit, Over, LocateCached, StoreTyped
    <3> QED BY <1>6, <3>1, <3>2 DEF Works
  <2>2. unit'[u] \in {"parsing", "located"} => New(u, time'[u])
    <3>1. CASE StartUnit(u)
      <4>1. time'[u] = now /\ mtime[u] <= now /\ mtime[Header] <= now
        <5>1. mtime \in [Files -> 1 .. now] /\ time \in [Units -> 0 .. now] /\ u \in Files /\ Header \in Files
          BY <1>0 DEF StoreTyped, Files
        <5>2. time'[u] = now
          BY <3>1, <5>1 DEF StartUnit
        <5> QED BY <1>0, <5>1, <5>2
      <4>2. mtime[u] \in Nat /\ mtime[Header] \in Nat
        BY <1>0 DEF StoreTyped, Files
      <4> QED BY <1>0, <4>1, <4>2 DEF New
    <3>2. CASE LocateCached(u) \/ LocateHeader(u)
      <4>1. time'[u] = time[u] /\ unit[u] = "parsing"
        BY <3>2 DEF LocateCached, LocateHeader
      <4> QED BY <2>1, <4>1 DEF CleanInv
    <3>3. CASE SkipUnit(u) \/ FailUnit(u)
      BY <1>0, <3>3 DEF SkipUnit, FailUnit, Over, StoreTyped
    <3> QED BY <1>6, <3>1, <3>2, <3>3 DEF Works
  <2>3. unit'[u] = "over" => HasNewRow(u)
    <3>1. CASE SkipUnit(u)
      <4>1. ~(LastTime(u) <= 0) /\ ~(NewestTime(u) > LastTime(u))
        BY <3>1 DEF SkipUnit, NeedsReindex
      <4>2. Known(u)
        BY <4>1 DEF LastTime
      <4>3. PICK i \in Rows(u) : paths[i].time = LastTime(u) /\ LastTime(u) \in Nat
        BY <1>0, <4>2, LastTimeIs
      <4>4. mtime \in [Files -> Nat] /\ mtime[u] \in Nat /\ mtime[Header] \in Nat
        BY <1>0 DEF StoreTyped, Files
      <4>5. NewestTime(u) \in Nat /\ NewestTime(u) >= mtime[u] /\ NewestTime(u) >= mtime[Header]
        BY <4>4, NewestTimeIs
      <4>6. LastTime(u) >= mtime[u] /\ LastTime(u) >= mtime[Header]
        BY <4>1, <4>3, <4>4, <4>5
      <4> QED BY <4>3, <4>6 DEF HasNewRow, New
    <3>2. CASE StartUnit(u) \/ LocateCached(u) \/ LocateHeader(u)
      BY <1>0, <3>2 DEF StartUnit, LocateCached, LocateHeader, StoreTyped
    <3>3. CASE FailUnit(u)
      BY <3>3 DEF FailUnit
    <3> QED BY <1>6, <3>1, <3>2, <3>3 DEF Works
  <2>4. \A v \in Units : unit'[v] \in {"parsing", "located"} => New(v, time'[v])
    BY <2>0, <2>1, <2>2 DEF CleanInv
  <2>5. \A v \in Units : unit'[v] = "over" => InQueue(v) \/ InHand(v) \/ HasNewRow(v)
    BY <2>0, <2>1, <2>3 DEF CleanInv
  <2>6. \A v \in Units : unit'[v] = "over" => InQueue(v)' \/ InHand(v)' \/ HasNewRow(v)'
    BY <1>1, <2>0, <2>5 DEF InQueue, InHand
  <2>7. \A v, t : New(v, t)' <=> New(v, t)
    BY <2>0 DEF New
  <2> QED BY <2>0, <2>1, <2>4, <2>6, <2>7 DEF CleanInv, New
<1>7. ASSUME NEW u \in Units, SendUnit(u) PROVE CleanInv'
  <2> DEFINE b == Batch(u, time[u])
  <2>1. /\ phase = "up" /\ unit[u] = "located" /\ queue' = Append(queue, b)
        /\ b \in BatchSet /\ b.unit = u /\ b.time = time[u]
        /\ unit'[u] = "over" /\ \A v \in Units : v # u => unit'[v] = unit[v]
        /\ UNCHANGED <<mtime, phase, hand, paths, clean>>
    BY <1>0, <1>7, SendDoes
  <2>2. \A v \in Units : v # u => time'[v] = time[v]
    BY <1>0, <1>7 DEF SendUnit, Over, StoreTyped
  <2> HIDE DEF b
  <2>3. /\ \A k \in 1 .. Len(queue) : k \in 1 .. Len(queue') /\ queue'[k] = queue[k]
        /\ \A k \in 1 .. Len(queue') : queue'[k] = b \/ (k \in 1 .. Len(queue) /\ queue'[k] = queue[k])
        /\ Len(queue) + 1 \in 1 .. Len(queue') /\ queue'[Len(queue) + 1] = b
    BY <1>0, <2>1
  <2>4. New(b.unit, b.time)
    BY <2>1 DEF CleanInv
  <2>5. \A k \in 1 .. Len(queue') : New(queue'[k].unit, queue'[k].time)
    BY <2>1, <2>3, <2>4 DEF CleanInv
  <2>6. \A v \in Units : unit'[v] = "over" => InQueue(v)' \/ InHand(v)' \/ HasNewRow(v)'
    <3>1. InQueue(u)'
      BY <2>1, <2>3 DEF InQueue
    <3>2. \A v \in Units : InQueue(v) => InQueue(v)'
      BY <2>3 DEF InQueue
    <3>3. \A v \in Units : InHand(v) => InHand(v)'
      BY <2>1 DEF InHand
    <3>4. \A v \in Units : v # u /\ unit'[v] = "over" => InQueue(v) \/ InHand(v) \/ HasNewRow(v)
      BY <2>1 DEF CleanInv
    <3> QED BY <1>1, <2>1, <3>1, <3>2, <3>3, <3>4
  <2> QED BY <2>1, <2>2, <2>5, <2>6 DEF CleanInv, New
<1>8. ASSUME NEW s \in Stores, GetStmts(s) PROVE CleanInv'
  <2>1. /\ phase = "up" /\ hand[s] = Idle /\ hand'[s] = [batch |-> queue[1], left |-> Statements]
        /\ \A r \in Stores : r # s => hand'[r] = hand[r]
        /\ 1 \in 1 .. Len(queue) /\ Len(queue') = Len(queue) - 1
        /\ \A k \in 1 .. Len(queue') : queue'[k] = queue[k + 1] /\ k + 1 \in 1 .. Len(queue)
        /\ UNCHANGED <<mtime, phase, unit, time, paths, clean>>
    BY <1>0, <1>8, GetDoes
  <2>2. hand'[s] # Idle
    <3>1. queue[1] \in BatchSet /\ Statements \in Lefts
      BY <1>0, <2>1, TheLefts
    <3>2. hand'[s] \in HandSet
      BY <2>1, <3>1 DEF HandSet
    <3> QED BY <3>2, StoringIsNotIdle
  <2>3. \A v \in Units : InQueue(v) => InQueue(v)' \/ InHand(v)'
    <3> TAKE v \in Units
    <3> HAVE InQueue(v)
    <3>1. PICK k \in 1 .. Len(queue) : queue[k].unit = v
      BY DEF InQueue
    <3>2. CASE k = 1
      BY <2>1, <2>2, <3>1, <3>2 DEF InHand
    <3>3. CASE k # 1
      <4>1. k - 1 \in 1 .. Len(queue') /\ (k - 1) + 1 = k
        BY <1>0, <2>1, <3>3
      <4>2. queue'[k - 1] = queue[k]
        BY <2>1, <4>1
      <4> QED BY <3>1, <4>1, <4>2 DEF InQueue
    <3> QED BY <3>2, <3>3
  <2>4. \A v \in Units : InHand(v) => InHand(v)'
    BY <2>1 DEF InHand
  <2>5. \A v \in Units : unit'[v] = "over" => InQueue(v)' \/ InHand(v)' \/ HasNewRow(v)'
    BY <1>1, <2>1, <2>3, <2>4 DEF CleanInv
  <2>6. /\ \A k \in 1 .. Len(queue') : New(queue'[k].unit, queue'[k].time)
        /\ \A r \in Stores : hand'[r] # Idle => New(hand'[r].batch.unit, hand'[r].batch.time)
    BY <2>1 DEF CleanInv
  <2> QED BY <2>1, <2>5, <2>6 DEF CleanInv, New
<1>9. ASSUME NEW s \in Stores, Dml(s) PROVE CleanInv'
  <2> DEFINE b == hand[s].batch
  <2>1. /\ phase = "up" /\ hand[s] # Idle /\ b \in BatchSet /\ hand[s].left \in Lefts
        /\ UNCHANGED <<mtime, phase, unit, time, queue>>
        /\ \A r \in Stores : r # s => hand'[r] = hand[r]
        /\ Executes(s) \/ Discards(s)
    BY <1>0, <1>9, DmlDoes
  <2>2. clean /\ Execute(Head(hand[s].left), b)
        /\ hand'[s] = IF hand[s].left = <<"path">> THEN Idle
                      ELSE [batch |-> b, left |-> Tail(hand[s].left)]
    BY <2>1 DEF Executes, Discards
  <2>3. b.unit \in Units /\ New(b.unit, b.time)
    BY <2>1, <2>2 DEF BatchSet, CleanInv
  <2>4. \A v \in Units : v # b.unit /\ InHand(v) => InHand(v)'
    BY <2>1 DEF InHand
  <2>5. ASSUME NEW v \in Units, v = b.unit PROVE InHand(v)' \/ HasNewRow(v)'
    <3>1. CASE hand[s].left = <<"path">>
      <4>1. paths' = ReplacePath(b.file, b.unit, b.time)
        BY <2>1, <2>2, <3>1, TheLefts DEF Execute
      <4>2. b.file \in DOMAIN paths' /\ paths'[b.file] = [file |-> v, time |-> b.time]
        BY <2>5, <4>1 DEF ReplacePath
      <4>3. b.time >= mtime'[v] /\ b.time >= mtime'[Header]
        BY <2>1, <2>3, <2>5 DEF New
      <4> HIDE DEF b
      <4>4. paths'[b.file].file = v /\ paths'[b.file].time = b.time
        BY <4>2
      <4> QED BY <4>2, <4>3, <4>4 DEF HasNewRow, Rows, New
    <3>2. CASE hand[s].left # <<"path">>
      <4>1. hand'[s].batch = b /\ hand'[s].left \in Lefts
        BY <2>1, <2>2, <3>2, TheLefts
      <4>2. hand'[s] # Idle
        <5>1. hand'[s] = [batch |-> b, left |-> Tail(hand[s].left)]
          BY <2>2, <3>2
        <5>2. Tail(hand[s].left) \in Lefts
          BY <2>1, <3>2, TheLefts
        <5>3. hand'[s] \in HandSet
          BY <2>1, <5>1, <5>2 DEF HandSet
        <5> QED BY <5>3, StoringIsNotIdle
      <4> QED BY <2>5, <4>1, <4>2 DEF InHand
    <3> QED BY <3>1, <3>2
  <2>6. \A v \in Units : unit'[v] = "over" => InQueue(v)' \/ InHand(v)' \/ HasNewRow(v)'
    <3> TAKE v \in Units
    <3> HAVE unit'[v] = "over"
    <3>1. InQueue(v) \/ InHand(v) \/ HasNewRow(v)
      BY <2>1, <2>2 DEF CleanInv
    <3>2. InQueue(v) => InQueue(v)'
      BY <2>1 DEF InQueue
    <3>3. HasNewRow(v) => HasNewRow(v)'
      BY <1>1, <2>1
    <3> QED BY <2>4, <2>5, <3>1, <3>2, <3>3
  <2>7. \A r \in Stores : hand'[r] # Idle => New(hand'[r].batch.unit, hand'[r].batch.time)
    BY <2>1, <2>2 DEF CleanInv
  <2> QED BY <2>1, <2>2, <2>6, <2>7 DEF CleanInv, New
<1> QED BY <1>3, <1>4, <1>5, <1>6, <1>7, <1>8, <1>9, NextSteps

LEMMA CleanAlways == Spec => [](IdsInv /\ CleanInv)
<1>1. Init => IdsInv /\ CleanInv
  <2> SUFFICES ASSUME Init PROVE CleanInv
    BY IdsInit
  <2>1. /\ Len(queue) = 0 /\ phase = "down" /\ \A s \in Stores : hand[s] = Idle
        /\ \A u \in Units : unit[u] = "todo"
    BY DEF Init, AllIdle, AllTodo
  <2> QED BY <2>1 DEF CleanInv
<1>2. (IdsInv /\ CleanInv) /\ [Next]_vars => (IdsInv /\ CleanInv)'
  BY IdsInvNext, CleanInvNext
<1> QED BY <1>1, <1>2, PTL DEF Spec

\* A unit with a new row is up to date.
LEMMA NewRowIsUpToDate ==
  ASSUME IdsInv, NEW u \in Units, HasNewRow(u)
  PROVE  Rows(u) # {} /\ LastTime(u) >= NewestTime(u)
<1>0. TablesTyped /\ now \in Nat /\ mtime \in [Files -> Nat] /\ mtime[u] \in Nat /\ mtime[Header] \in Nat
  BY DEF IdsInv, StoreTyped, Files
<1>1. PICK i \in Rows(u) : paths[i].time >= mtime[u] /\ paths[i].time >= mtime[Header]
  BY DEF HasNewRow, New
<1>2. Known(u)
  BY <1>1 DEF Known
<1>3. paths[i].time <= LastTime(u) /\ LastTime(u) \in Nat
  BY <1>0, <1>1, <1>2, LastTimeIs
<1>4. paths[i].time \in Nat
  BY <1>0, <1>1 DEF TablesTyped, Rows, PathRow
<1>5. NewestTime(u) \in {mtime[u], mtime[Header]}
  BY <1>0, NewestTimeIs
<1>6. LastTime(u) >= NewestTime(u)
  BY <1>0, <1>1, <1>3, <1>4, <1>5
<1> QED BY <1>1, <1>6

\* A run that exits and in which nothing failed leaves every unit as new as its file and its
\* header, whatever earlier runs did: do_indexing returns when everything sent is stored
\* (Main.cc:286-329), and what check_need_reindex skips has a row that is as new
\* (IncludeAnalyzer.cc:91-165).
THEOREM CleanRunIsUpToDate ==
  Spec => [](phase = "exited" /\ clean => \A u \in Units : LastTime(u) >= NewestTime(u))
<1>1. IdsInv /\ CleanInv =>
        (phase = "exited" /\ clean => \A u \in Units : LastTime(u) >= NewestTime(u))
  BY NewRowIsUpToDate DEF CleanInv
<1> QED BY <1>1, CleanAlways, PTL

\* With no statement lost without an error, in this run or before, the definitions and the
\* calls of every unit are there too.
THEOREM CleanRunsAreComplete == FewErrors => (Spec => []CleanRunIsComplete)
<1> SUFFICES ASSUME FewErrors PROVE Spec => []CleanRunIsComplete
  OBVIOUS
<1>1. IdsInv /\ CleanInv /\ OrderInv => CleanRunIsComplete
  <2> SUFFICES ASSUME IdsInv, CleanInv, OrderInv, phase = "exited", clean, NEW u \in Units
               PROVE  /\ LastTime(u) >= NewestTime(u) /\ u \in DOMAIN defs
                      /\ \E c \in calls : c.unit = u
    BY DEF CleanRunIsComplete
  <2>1. Rows(u) # {} /\ LastTime(u) >= NewestTime(u)
    BY NewRowIsUpToDate DEF CleanInv
  <2> QED BY <2>1 DEF OrderInv, RowsHaveCalls
<1> QED BY <1>1, CleanAlways, OrderAlways, PTL
=============================================================================
