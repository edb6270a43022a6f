--------------------------- MODULE CallPathProofs ---------------------------
(***************************************************************************)
(* What is proved of the searches of call paths, for any database and any  *)
(* query: the recursion visits a function once and is no deeper than the   *)
(* functions visited, it finds a path if and only if there is one, and     *)
(* what it prints is a chain of calls.                                     *)
(***************************************************************************)
EXTENDS CallPath, FiniteSetTheorems, SequenceTheorems, TLAPS

Activations == [todo : SUBSET Usrs, at : {{}} \cup {{u} : u \in Usrs}]

\* The callers some activation has still to search.
Pending == UNION {stack[i].todo : i \in 1 .. Len(stack)}

\* Only what Start reaches is searched or left to search.
OnlyReachable == searched \subseteq Reachable /\ Pending \subseteq Reachable

\* While nothing is found, what is known to be reachable is searched, to no avail,
\* or still to be searched by some activation, in spite of the cycles cut short.
NothingSkipped ==
  status = "searching" =>
    /\ result = <<>>
    /\ Start \subseteq searched \cup Pending
    /\ \A u \in searched : FALSE \in Hits(u) /\ Callees(u) \subseteq searched \cup Pending

FoundReachable ==
  status = "returning" => result # <<>> /\ \E u \in Reachable : TRUE \in Hits(u)

SearchInv == OnlyReachable /\ NothingSkipped /\ FoundReachable /\ FoundIffReachable

\* The depth of the recursion, and whose activations these are.
DepthInv == /\ IsFiniteSet(searched)
            /\ \A i \in 1 .. Len(stack) : stack[i].at \subseteq searched
            /\ RecursionBounded
-----------------------------------------------------------------------------
(* Operators over the database, which no step changes.                      *)

LEMMA Fixed ==
  ASSUME UNCHANGED <<table, query>>
  PROVE  /\ Start' = Start /\ Reachable' = Reachable
         /\ \A u : Callees(u)' = Callees(u) /\ Hits(u)' = Hits(u)
BY DEF Start, Reachable, Closed, Callees, Hits

LEMMA StartTyped == ASSUME TypeOK PROVE Start \subseteq Usrs
BY TablesAssumption DEF TypeOK, Start

LEMMA StartReachable == ASSUME TypeOK PROVE Start \subseteq Reachable
BY StartTyped DEF Reachable

LEMMA CalleesReachable == ASSUME NEW u \in Reachable PROVE Callees(u) \subseteq Reachable
<1>1. SUFFICES ASSUME NEW c \in Callees(u), NEW us \in SUBSET Usrs, Start \subseteq us, Closed(us)
               PROVE  c \in us
  BY DEF Reachable, Callees
<1>2. u \in us
  BY <1>1 DEF Reachable
<1>3. QED
  BY <1>1, <1>2 DEF Closed

-----------------------------------------------------------------------------
(* The stack: what its steps do to it and to Pending.                       *)

LEMMA PoppedStack ==
  ASSUME stack \in Seq(Activations), stack # <<>>
  PROVE  /\ Popped \in Seq(Activations) /\ Len(Popped) = Len(stack) - 1
         /\ \A i \in 1 .. Len(Popped) : Popped[i] = stack[i]
         /\ Len(stack) \in Nat \ {0} /\ Top \in Activations
BY DEF Popped, Top

LEMMA PoppedPending ==
  ASSUME stack \in Seq(Activations), stack # <<>>, stack' = Popped
  PROVE  Pending' \subseteq Pending /\ Pending \subseteq Pending' \cup Top.todo
<1> USE PoppedStack
<1>1. Pending' \subseteq Pending
  BY DEF Pending
<1>2. ASSUME NEW i \in 1 .. Len(stack), i # Len(stack) PROVE stack[i].todo \subseteq Pending'
  <2>1. i \in 1 .. Len(stack') /\ stack'[i] = stack[i]
    BY <1>2
  <2>2. QED
    BY <2>1 DEF Pending
<1>3. QED
  BY <1>1, <1>2 DEF Pending, Top

\* Top without u.
TopLeft(u) == [stack EXCEPT ![Len(stack)].todo = @ \ {u}]

LEMMA AdvancedStack ==
  ASSUME stack \in Seq(Activations), stack # <<>>, NEW u, stack' = TopLeft(u)
  PROVE  /\ stack' \in Seq(Activations) /\ Len(stack') = Len(stack)
         /\ \A i \in 1 .. Len(stack) : stack'[i].at = stack[i].at
         /\ \A i \in 1 .. Len(stack) :
              stack'[i].todo = IF i = Len(stack) THEN stack[i].todo \ {u} ELSE stack[i].todo
<1>1. Len(stack) \in Nat \ {0} /\ Top \in Activations
  BY PoppedStack
<1>2. DEFINE left == [Top EXCEPT !.todo = @ \ {u}]
<1>3. left \in Activations /\ left.at = Top.at /\ left.todo = Top.todo \ {u}
  BY <1>1 DEF Activations
<1>4. stack' = [stack EXCEPT ![Len(stack)] = left]
  BY DEF TopLeft, Top
<1> HIDE DEF left
<1>5. stack' \in Seq(Activations) /\ Len(stack') = Len(stack)
  BY <1>1, <1>3, <1>4
<1>6. \A i \in 1 .. Len(stack) : stack'[i] = IF i = Len(stack) THEN left ELSE stack[i]
  BY <1>1, <1>4
<1>7. QED
  BY <1>3, <1>5, <1>6 DEF Top

LEMMA PushedStack ==
  ASSUME stack \in Seq(Activations), stack # <<>>, NEW u \in Usrs, NEW us \in SUBSET Usrs,
         stack' = Append([stack EXCEPT ![Len(stack)] = [todo |-> @.todo \ {u}, at |-> {u}]], Frame(us))
  PROVE  /\ stack' \in Seq(Activations) /\ Len(stack') = Len(stack) + 1
         /\ stack'[Len(stack)] = [todo |-> Top.todo \ {u}, at |-> {u}]
         /\ stack'[Len(stack) + 1] = Frame(us)
         /\ \A i \in 1 .. Len(stack) - 1 : stack'[i] = stack[i]
<1> DEFINE left == [todo |-> Top.todo \ {u}, at |-> {u}]
           adv == [stack EXCEPT ![Len(stack)] = left]
<1>1. Len(stack) \in Nat \ {0} /\ Top \in Activations
  BY PoppedStack
<1>2. left \in Activations /\ Frame(us) \in Activations
  BY <1>1 DEF Activations, Frame
<1>3. stack' = Append(adv, Frame(us))
  BY DEF Top
<1> HIDE DEF left
<1>4. /\ adv \in Seq(Activations) /\ Len(adv) = Len(stack)
      /\ \A i \in 1 .. Len(stack) : adv[i] = IF i = Len(stack) THEN left ELSE stack[i]
  BY <1>1, <1>2, ExceptSeq
<1> HIDE DEF adv
<1>5. /\ Append(adv, Frame(us)) \in Seq(Activations)
      /\ Len(Append(adv, Frame(us))) = Len(adv) + 1
      /\ \A i \in 1 .. Len(adv) : Append(adv, Frame(us))[i] = adv[i]
      /\ Append(adv, Frame(us))[Len(adv) + 1] = Frame(us)
  <2> DEFINE f == Frame(us)
  <2> HIDE DEF f
  <2>1. SUFFICES /\ Append(adv, f) \in Seq(Activations)
                 /\ Len(Append(adv, f)) = Len(adv) + 1
                 /\ \A i \in 1 .. Len(adv) : Append(adv, f)[i] = adv[i]
                 /\ Append(adv, f)[Len(adv) + 1] = f
    BY DEF f
  <2>2. f \in Activations
    BY <1>2 DEF f
  <2>3. QED
    BY <1>4, <2>2, AppendProperties
<1>6. stack' \in Seq(Activations) /\ Len(stack') = Len(stack) + 1
  BY <1>3, <1>4, <1>5
<1>7. \A i \in 1 .. Len(stack) : stack'[i] = IF i = Len(stack) THEN left ELSE stack[i]
  BY <1>3, <1>4, <1>5
<1>8. stack'[Len(stack) + 1] = Frame(us)
  BY <1>3, <1>4, <1>5
<1>9. stack'[Len(stack)] = [todo |-> Top.todo \ {u}, at |-> {u}]
  <2>1. stack'[Len(stack)] = left
    BY <1>1, <1>7
  <2>2. QED
    BY <2>1 DEF left
<1>10. \A i \in 1 .. Len(stack) - 1 : stack'[i] = stack[i]
  BY <1>1, <1>7
<1>11. QED
  BY <1>6, <1>8, <1>9, <1>10

LEMMA AdvancedPending ==
  ASSUME stack \in Seq(Activations), stack # <<>>, NEW u, stack' = TopLeft(u)
  PROVE  Pending' \subseteq Pending /\ Pending \subseteq Pending' \cup {u}
<1>1. /\ Len(stack') = Len(stack)
      /\ \A i \in 1 .. Len(stack) :
           stack'[i].todo = IF i = Len(stack) THEN stack[i].todo \ {u} ELSE stack[i].todo
  BY AdvancedStack
<1>2. ASSUME NEW i \in 1 .. Len(stack)
      PROVE  /\ stack'[i].todo \subseteq stack[i].todo
             /\ stack[i].todo \subseteq stack'[i].todo \cup {u}
  BY <1>1
<1>3. Pending' \subseteq Pending
  BY <1>1, <1>2 DEF Pending
<1>4. Pending \subseteq Pending' \cup {u}
  BY <1>1, <1>2 DEF Pending
<1>5. QED
  BY <1>3, <1>4

LEMMA PushedPending ==
  ASSUME stack \in Seq(Activations), stack # <<>>, NEW u \in Usrs, NEW us \in SUBSET Usrs,
         stack' = Append([stack EXCEPT ![Len(stack)] = [todo |-> @.todo \ {u}, at |-> {u}]], Frame(us))
  PROVE  Pending' \subseteq Pending \cup us /\ Pending \cup us \subseteq Pending' \cup {u}
<1>0. \A i \in 1 .. Len(stack) - 1 : stack'[i] = stack[i]
  BY PushedStack
<1>1. Len(stack) \in Nat \ {0} /\ Len(stack') = Len(stack) + 1
  BY PushedStack, PoppedStack
<1>2. stack'[Len(stack)].todo = Top.todo \ {u} /\ stack'[Len(stack) + 1].todo = us
  <2>1. /\ stack'[Len(stack)] = [todo |-> Top.todo \ {u}, at |-> {u}]
        /\ stack'[Len(stack) + 1] = [todo |-> us, at |-> {}]
    BY PushedStack DEF Frame
  <2>2. QED
    BY <2>1
<1>3. Pending' \subseteq Pending \cup us
  <2>1. ASSUME NEW i \in 1 .. Len(stack') PROVE stack'[i].todo \subseteq Pending \cup us
    <3>1. CASE i = Len(stack) + 1
      BY <1>2, <3>1
    <3>2. CASE i = Len(stack)
      BY <1>1, <1>2, <3>2 DEF Pending, Top
    <3>3. CASE i \in 1 .. Len(stack) - 1
      BY <1>0, <1>1, <3>3 DEF Pending
    <3>4. QED
      BY <1>1, <3>1, <3>2, <3>3
  <2>2. QED
    BY <2>1 DEF Pending
<1>4. ASSUME NEW i \in 1 .. Len(stack) PROVE stack[i].todo \subseteq Pending' \cup {u}
  <2>1. CASE i = Len(stack)
    BY <1>1, <1>2, <2>1 DEF Pending, Top
  <2>2. CASE i # Len(stack)
    <3>1. i \in 1 .. Len(stack') /\ stack'[i] = stack[i]
      BY <1>0, <1>1, <2>2
    <3>2. QED
      BY <3>1 DEF Pending
  <2>3. QED
    BY <2>1, <2>2
<1>5. us \subseteq Pending'
  <2>1. Len(stack) + 1 \in 1 .. Len(stack')
    BY <1>1
  <2>2. QED
    BY <1>2, <2>1 DEF Pending
<1>6. Pending \subseteq Pending' \cup {u}
  BY <1>4 DEF Pending
<1>7. QED
  BY <1>3, <1>5, <1>6

-----------------------------------------------------------------------------
(* Types.                                                                   *)

LEMMA TypesInit == Init => TypeOK
<1>1. SUFFICES ASSUME Init PROVE TypeOK
  OBVIOUS
<1>2. Start \subseteq Usrs
  BY <1>1, TablesAssumption DEF Init, Start
<1>3. Frame(Start) \in Activations
  BY <1>2 DEF Frame, Activations
<1>4. QED
  BY <1>1, <1>3 DEF Init, TypeOK, Activations

\* Every variable has its type in every state (the search of Main.cc:511-556,
\* 612-656 keeps USRs in searched_caller_usr and names in result).
THEOREM CallPathTypes == Spec => []TypeOK
<1>1. Init => TypeOK
  BY TypesInit
<1>2. TypeOK /\ [Next]_vars => TypeOK'
  <2>1. SUFFICES ASSUME TypeOK, [Next]_vars PROVE TypeOK'
    OBVIOUS
  <2> DEFINE Names == {query.to} \cup {NameOf[u] : u \in Usrs}
  <2>2. stack \in Seq(Activations) /\ result \in Seq(Names) /\ searched \subseteq Usrs
    BY <2>1 DEF TypeOK, Activations
  <2>3. SUFFICES ASSUME UNCHANGED <<table, query>>
                 PROVE  /\ stack' \in Seq(Activations) /\ result' \in Seq(Names)
                        /\ searched' \subseteq Usrs
                        /\ status' \in {"searching", "returning", "done"}
    BY <2>1 DEF TypeOK, Activations, Next, Step, vars, AlreadySearched, Descend, Hit,
                ReturnFalse, ReturnTrue, Answer
  <2>4. ASSUME NEW u \in Usrs, AlreadySearched(u) PROVE stack' \in Seq(Activations)
    BY <2>2, <2>4, AdvancedStack DEF AlreadySearched, TopLeft
  <2>5. ASSUME NEW u \in Usrs, Descend(u) PROVE stack' \in Seq(Activations)
    <3>1. Callees(u) \in SUBSET Usrs
      BY DEF Callees
    <3>2. QED
      BY <2>2, <2>5, <3>1, PushedStack DEF Descend
  <2>6. ASSUME NEW u \in Usrs, Hit(u) PROVE stack' \in Seq(Activations) /\ result' \in Seq(Names)
    BY <2>2, <2>6, PoppedStack DEF Hit, PushedOnHit
  <2>7. ASSUME ReturnFalse PROVE stack' \in Seq(Activations)
    BY <2>2, <2>7, PoppedStack DEF ReturnFalse
  <2>8. ASSUME ReturnTrue PROVE stack' \in Seq(Activations) /\ result' \in Seq(Names)
    <3>1. stack' \in Seq(Activations) /\ Top \in Activations
      BY <2>2, <2>8, PoppedStack DEF ReturnTrue
    <3>2. PICK u \in Top.at : result' = Append(result, NameOf[u])
      BY <2>8 DEF ReturnTrue
    <3>3. u \in Usrs
      BY <3>1 DEF Activations
    <3>4. QED
      BY <2>2, <3>1, <3>2, <3>3
  <2>9. QED
    BY <2>1, <2>2, <2>4, <2>5, <2>6, <2>7, <2>8
       DEF Next, Step, vars, AlreadySearched, Descend, Hit, ReturnFalse, ReturnTrue, Answer, TypeOK
<1>3. QED
  BY <1>1, <1>2, PTL DEF Spec
-----------------------------------------------------------------------------
(* A path is found if and only if there is one.                             *)

LEMMA SearchInvInit == Init => SearchInv
<1>1. SUFFICES ASSUME Init PROVE SearchInv
  OBVIOUS
<1>2. TypeOK
  BY <1>1, TypesInit
<1>3. Pending = Start
  BY <1>1 DEF Init, Pending, Frame
<1>4. OnlyReachable
  BY <1>1, <1>2, <1>3, StartReachable DEF Init, OnlyReachable
<1>5. QED
  BY <1>1, <1>3, <1>4 DEF Init, SearchInv, NothingSkipped, FoundReachable, FoundIffReachable

\* A step that only takes from Pending what has been searched.
LEMMA SearchInvAdvances ==
  ASSUME SearchInv, UNCHANGED <<table, query, status, searched, result>>, status = "searching",
         Pending' \subseteq Pending, Pending \subseteq Pending' \cup searched
  PROVE  SearchInv'
<1>1. /\ Start' = Start /\ Reachable' = Reachable
      /\ \A u : Callees(u)' = Callees(u) /\ Hits(u)' = Hits(u)
  BY Fixed
<1>2. OnlyReachable'
  BY <1>1 DEF SearchInv, OnlyReachable
<1>3. NothingSkipped'
  BY <1>1 DEF SearchInv, NothingSkipped
<1>4. QED
  BY <1>2, <1>3 DEF SearchInv, FoundReachable, FoundIffReachable

LEMMA SearchInvNext == TypeOK /\ SearchInv /\ [Next]_vars => SearchInv'
<1>1. SUFFICES ASSUME TypeOK, SearchInv, [Next]_vars PROVE SearchInv'
  OBVIOUS
<1>2. UNCHANGED <<table, query>>
  BY <1>1 DEF Next, Step, vars, AlreadySearched, Descend, Hit, ReturnFalse, ReturnTrue, Answer
<1>3. /\ Start' = Start /\ Reachable' = Reachable
      /\ \A u : Callees(u)' = Callees(u) /\ Hits(u)' = Hits(u)
  BY <1>2, Fixed
<1>4. stack \in Seq(Activations) /\ result \in Seq({query.to} \cup {NameOf[u] : u \in Usrs})
  BY <1>1 DEF TypeOK, Activations
<1>5. ASSUME NEW u \in Usrs, AlreadySearched(u) PROVE SearchInv'
  <2>1. Pending' \subseteq Pending /\ Pending \subseteq Pending' \cup {u}
    BY <1>4, <1>5, AdvancedPending DEF AlreadySearched, TopLeft
  <2>2. QED
    BY <1>1, <1>5, <2>1, SearchInvAdvances DEF AlreadySearched
<1>6. ASSUME NEW u \in Usrs, Descend(u) PROVE SearchInv'
  <2>1. /\ Pending' \subseteq Pending \cup Callees(u)
        /\ Pending \cup Callees(u) \subseteq Pending' \cup {u}
    <3>1. Callees(u) \in SUBSET Usrs
      BY DEF Callees
    <3>2. QED
      BY <1>4, <1>6, <3>1, PushedPending DEF Descend
  <2>2. u \in Pending
    BY <1>4, <1>6, PoppedStack DEF Descend, Pending, Top
  <2>3. u \in Reachable /\ Callees(u) \subseteq Reachable
    BY <1>1, <2>2, CalleesReachable DEF SearchInv, OnlyReachable
  <2>4. OnlyReachable'
    BY <1>1, <1>3, <1>6, <2>1, <2>3 DEF SearchInv, OnlyReachable, Descend
  <2>5. NothingSkipped'
    BY <1>1, <1>3, <1>6, <2>1 DEF SearchInv, NothingSkipped, Descend
  <2>6. QED
    BY <1>6, <2>4, <2>5 DEF Descend, SearchInv, FoundReachable, FoundIffReachable
<1>7. ASSUME NEW u \in Usrs, Hit(u) PROVE SearchInv'
  <2>1. Pending' \subseteq Pending
    BY <1>4, <1>7, PoppedPending DEF Hit
  <2>2. u \in Reachable
    <3>1. u \in Pending
      BY <1>4, <1>7, PoppedStack DEF Hit, Pending, Top
    <3>2. QED
      BY <1>1, <3>1 DEF SearchInv, OnlyReachable
  <2>3. OnlyReachable'
    BY <1>1, <1>3, <1>7, <2>1, <2>2 DEF SearchInv, OnlyReachable, Hit
  <2>4. FoundReachable'
    BY <1>3, <1>7, <2>2 DEF FoundReachable, Hit
  <2>5. QED
    BY <1>7, <2>3, <2>4 DEF Hit, SearchInv, NothingSkipped, FoundIffReachable
<1>8. ASSUME ReturnFalse PROVE SearchInv'
  <2>1. Pending' \subseteq Pending /\ Pending \subseteq Pending'
    BY <1>4, <1>8, PoppedPending DEF ReturnFalse
  <2>2. QED
    BY <1>1, <1>8, <2>1, SearchInvAdvances DEF ReturnFalse
<1>9. ASSUME ReturnTrue PROVE SearchInv'
  <2>1. Pending' \subseteq Pending
    BY <1>4, <1>9, PoppedPending DEF ReturnTrue
  <2>2. result' # <<>>
    <3>1. PICK u : result' = Append(result, NameOf[u])
      BY <1>9 DEF ReturnTrue
    <3>2. QED
      BY <1>4, <3>1, AppendProperties
  <2>3. OnlyReachable'
    BY <1>1, <1>3, <1>9, <2>1 DEF SearchInv, OnlyReachable, ReturnTrue
  <2>4. FoundReachable'
    BY <1>1, <1>3, <1>9, <2>2 DEF SearchInv, FoundReachable, ReturnTrue
  <2>5. QED
    BY <1>9, <2>3, <2>4 DEF ReturnTrue, SearchInv, NothingSkipped, FoundIffReachable
<1>10. ASSUME Answer PROVE SearchInv'
  <2>1. Pending = {} /\ Pending' = {}
    BY <1>10 DEF Answer, Pending
  <2>2. OnlyReachable'
    BY <1>1, <1>3, <1>10, <2>1 DEF SearchInv, OnlyReachable, Answer
  <2>3. FoundIffReachable'
    <3>1. CASE status = "returning"
      BY <1>1, <1>3, <1>10, <3>1 DEF Answer, SearchInv, FoundReachable, FoundIffReachable
    <3>2. CASE status = "searching"
      <4>1. Start \subseteq searched /\ Closed(searched) /\ \A u \in searched : FALSE \in Hits(u)
        BY <1>1, <2>1, <3>2 DEF SearchInv, NothingSkipped, Closed
      <4>2. Reachable \subseteq searched
        BY <1>1, <4>1 DEF TypeOK, Reachable
      <4>3. result = <<>> /\ result' = <<>>
        BY <1>1, <1>10, <3>2 DEF Answer, SearchInv, NothingSkipped
      <4>4. QED
        BY <1>3, <4>1, <4>2, <4>3 DEF FoundIffReachable
    <3>3. QED
      BY <1>10, <3>1, <3>2 DEF Answer
  <2>4. QED
    BY <1>10, <2>2, <2>3 DEF Answer, SearchInv, NothingSkipped, FoundReachable
<1>11. CASE UNCHANGED vars
  BY <1>1, <1>3, <1>11 DEF vars, SearchInv, OnlyReachable, NothingSkipped, FoundReachable,
                           FoundIffReachable, Pending
<1>12. QED
  BY <1>1, <1>5, <1>6, <1>7, <1>8, <1>9, <1>10, <1>11 DEF Next, Step

\* For any calls, cyclic or not, and any order of the rows, the depth first search that
\* never searches a function twice (Main.cc:526, 626) finds a path if and only if
\* there is one.
THEOREM FoundIffThereIsOne == Spec => []FoundIffReachable
<1>1. Spec => []TypeOK
  BY CallPathTypes
<1>2. SearchInv => FoundIffReachable
  BY DEF SearchInv
<1>3. QED
  BY <1>1, <1>2, SearchInvInit, SearchInvNext, PTL DEF Spec
-----------------------------------------------------------------------------
(* The depth of the recursion.                                              *)

\* A step that pushes nothing.
LEMMA DepthInvShrinks ==
  ASSUME DepthInv, IsFiniteSet(searched'), searched \subseteq searched',
         Len(stack) \in Nat, Len(stack') \in Nat, Len(stack') <= Len(stack),
         \A i \in 1 .. Len(stack') : stack'[i].at = stack[i].at
  PROVE  DepthInv'
<1>1. Cardinality(searched) \in Nat /\ Cardinality(searched') \in Nat
      /\ Cardinality(searched) <= Cardinality(searched')
  BY FS_CardinalityType, FS_Subset DEF DepthInv
<1>2. Len(stack') <= Cardinality(searched') + 1
  BY <1>1 DEF DepthInv, RecursionBounded
<1>3. \A i \in 1 .. Len(stack') : i \in 1 .. Len(stack)
  OBVIOUS
<1>4. QED
  BY <1>2, <1>3 DEF DepthInv, RecursionBounded

LEMMA DepthInvDescend ==
  ASSUME TypeOK, DepthInv, NEW u \in Usrs, Descend(u)
  PROVE  DepthInv'
<1>1. Len(stack) \in Nat \ {0} /\ Len(stack') = Len(stack) + 1
      /\ stack'[Len(stack)] = [todo |-> Top.todo \ {u}, at |-> {u}]
      /\ stack'[Len(stack) + 1] = [todo |-> Callees(u), at |-> {}]
      /\ \A i \in 1 .. Len(stack) - 1 : stack'[i] = stack[i]
  <2>1. Callees(u) \in SUBSET Usrs
    BY DEF Callees
  <2>2. stack \in Seq(Activations)
    BY DEF TypeOK, Activations
  <2>3. QED
    BY <2>1, <2>2, PushedStack, PoppedStack DEF Descend, Frame
<1>2. u \notin searched /\ searched' = searched \cup {u}
  BY DEF Descend
<1>3. /\ IsFiniteSet(searched') /\ Cardinality(searched') = Cardinality(searched) + 1
      /\ Cardinality(searched) \in Nat
  BY <1>2, FS_AddElement, FS_CardinalityType DEF DepthInv
<1>4. Len(stack') <= Cardinality(searched') + 1
  BY <1>1, <1>3 DEF DepthInv, RecursionBounded
<1>5. \A i \in 1 .. Len(stack') : stack'[i].at = IF i = Len(stack) + 1 THEN {}
                                               ELSE IF i = Len(stack) THEN {u} ELSE stack[i].at
  <2>1. stack'[Len(stack)].at = {u} /\ stack'[Len(stack) + 1].at = {}
    BY <1>1
  <2>2. ASSUME NEW i \in 1 .. Len(stack'), i # Len(stack), i # Len(stack) + 1
        PROVE  stack'[i] = stack[i]
    <3>1. i \in 1 .. Len(stack) - 1
      BY <1>1, <2>2
    <3>2. QED
      BY <1>1, <3>1
  <2>3. QED
    BY <2>1, <2>2
<1>6. \A i \in 1 .. Len(stack) - 1 : i \in 1 .. Len(stack) /\ stack[i].at \subseteq searched
  BY <1>1 DEF DepthInv
<1>7. \A i \in 1 .. Len(stack') : stack'[i].at \subseteq searched'
  BY <1>1, <1>2, <1>5, <1>6
<1>8. \A i, j \in 1 .. Len(stack') : i # j => stack'[i].at \cap stack'[j].at = {}
  <2>1. \A i, j \in 1 .. Len(stack) - 1 : i # j => stack[i].at \cap stack[j].at = {}
    BY <1>6 DEF DepthInv, RecursionBounded
  <2>2. \A i \in 1 .. Len(stack) - 1 : u \notin stack[i].at
    BY <1>2, <1>6
  <2>3. \A i \in 1 .. Len(stack') : i \in 1 .. Len(stack) - 1 \/ i = Len(stack) \/ i = Len(stack) + 1
    BY <1>1
  <2>4. QED
    BY <1>1, <1>5, <2>1, <2>2, <2>3
<1>9. QED
  BY <1>3, <1>4, <1>7, <1>8 DEF DepthInv, RecursionBounded

\* The recursion (Main.cc:547, 649) is never deeper than the functions searched, and a
\* function has one activation at a time, whatever cycles the calls make.
THEOREM RecursionIsBounded == Spec => []RecursionBounded
<1>1. Init => DepthInv
  <2>1. SUFFICES ASSUME Init PROVE DepthInv
    OBVIOUS
  <2>2. Len(stack) = 1 /\ stack[1].at = {} /\ searched = {}
    BY <2>1 DEF Init, Frame
  <2>3. QED
    BY <2>2, FS_EmptySet DEF DepthInv, RecursionBounded
<1>2. TypeOK /\ DepthInv /\ [Next]_vars => DepthInv'
  <2>1. SUFFICES ASSUME TypeOK, DepthInv, [Next]_vars PROVE DepthInv'
    OBVIOUS
  <2>2. stack \in Seq(Activations) /\ Len(stack) \in Nat /\ IsFiniteSet(searched)
    BY <2>1 DEF TypeOK, Activations, DepthInv
  <2>3. ASSUME NEW u \in Usrs, AlreadySearched(u) PROVE DepthInv'
    <3>1. Len(stack') = Len(stack) /\ \A i \in 1 .. Len(stack) : stack'[i].at = stack[i].at
      BY <2>2, <2>3, AdvancedStack DEF AlreadySearched, TopLeft
    <3>2. searched' = searched
      BY <2>3 DEF AlreadySearched
    <3>3. QED
      BY <2>1, <2>2, <3>1, <3>2, DepthInvShrinks
  <2>4. ASSUME stack # <<>>, stack' = Popped, searched \subseteq searched', IsFiniteSet(searched')
        PROVE  DepthInv'
    <3>1. /\ Len(stack') \in Nat /\ Len(stack') <= Len(stack)
          /\ \A i \in 1 .. Len(stack') : stack'[i].at = stack[i].at
      BY <2>2, <2>4, PoppedStack
    <3>2. QED
      BY <2>1, <2>2, <2>4, <3>1, DepthInvShrinks
  <2>5. ASSUME NEW u \in Usrs, Hit(u) PROVE DepthInv'
    BY <2>2, <2>4, <2>5, FS_AddElement DEF Hit
  <2>6. CASE ReturnFalse
    BY <2>2, <2>4, <2>6 DEF ReturnFalse
  <2>7. CASE ReturnTrue
    BY <2>2, <2>4, <2>7 DEF ReturnTrue
  <2>8. CASE Answer \/ UNCHANGED vars
    BY <2>1, <2>8 DEF Answer, vars, DepthInv, RecursionBounded
  <2>9. QED
    BY <2>1, <2>3, <2>5, <2>6, <2>7, <2>8, DepthInvDescend DEF Next, Step
<1>3. DepthInv => RecursionBounded
  BY DEF DepthInv
<1>4. QED
  BY <1>1, <1>2, <1>3, CallPathTypes, PTL DEF Spec

-----------------------------------------------------------------------------
(* The path that is found.                                                  *)

\* What an activation searches: the functions of the name asked for, or the callees of
\* the caller that the activation before it is searching.
Called(i) == IF i = 1 THEN Start ELSE UNION {Callees(u) : u \in stack[i - 1].at}

\* The callers and the last function that result stands for, last first, are a chain of
\* calls that goes on from the last activation.
LeadsOn(us, k) ==
  /\ us[1] \in Called(Len(stack) + 1)
  /\ \A i \in 1 .. k - 1 : us[i + 1] \in Callees(us[i])
  /\ TRUE \in Hits(us[k])
  /\ result[1] = PushedOnHit(us[k])
  /\ \A i \in 1 .. k - 1 : result[k + 1 - i] = NameOf[us[i]]

\* The activations are a chain of calls, too, each of them but the last one in a caller.
PathInv ==
  /\ status # "done" => \A i \in 1 .. Len(stack) : stack[i].at \subseteq Called(i)
  /\ status = "searching" =>
       \A i \in 1 .. Len(stack) : /\ stack[i].todo \subseteq Called(i)
                                  /\ i < Len(stack) => stack[i].at # {}
  /\ status = "returning" =>
       /\ \A i \in 1 .. Len(stack) : stack[i].at # {}
       /\ Len(result) \in Nat \ {0}
       /\ \E us \in [1 .. Len(result) -> Usrs] : LeadsOn(us, Len(result))
  /\ PathFollowsCalls

LEMMA PathInvInit == Init => PathInv
<1> SUFFICES ASSUME Init PROVE PathInv
  OBVIOUS
<1>1. Len(stack) = 1 /\ stack[1].at = {} /\ stack[1].todo = Start
  BY DEF Init, Frame
<1> QED BY <1>1 DEF Init, PathInv, Called, PathFollowsCalls

\* A step that leaves the activations below the top where they are leaves what they search.
LEMMA CalledStays ==
  ASSUME UNCHANGED <<table, query>>, NEW i, i = 1 \/ stack'[i - 1].at = stack[i - 1].at
  PROVE  Called(i)' = Called(i)
BY Fixed DEF Called

\* What PathInv says of the activations.
LEMMA PathInvUses ==
  ASSUME TypeOK, PathInv, stack # <<>>
  PROVE  /\ Len(stack) \in Nat \ {0} /\ Len(stack) \in 1 .. Len(stack)
         /\ status # "done" => Top.at \subseteq Called(Len(stack))
         /\ status = "searching" => Top.todo \subseteq Called(Len(stack))
<1>1. Len(stack) \in Nat \ {0}
  BY DEF TypeOK
<1>2. Len(stack) \in 1 .. Len(stack)
  BY <1>1
<1> QED BY <1>1, <1>2 DEF PathInv, Top

\* Activations of a shorter or equal stack with the same callers.
LEMMA StillChained ==
  ASSUME TypeOK, PathInv, UNCHANGED <<table, query>>, status # "done",
         Len(stack') \in Nat, Len(stack') <= Len(stack),
         \A i \in 1 .. Len(stack') : stack'[i].at = stack[i].at
  PROVE  /\ \A i \in 1 .. Len(stack') : stack'[i].at \subseteq Called(i)'
         /\ \A i \in 1 .. Len(stack') + 1 : Called(i)' = Called(i)
<1>1. \A i \in 1 .. Len(stack') + 1 : i = 1 \/ i - 1 \in 1 .. Len(stack')
  OBVIOUS
<1>2. \A i \in 1 .. Len(stack') + 1 : Called(i)' = Called(i)
  BY <1>1, CalledStays
<1>3. \A i \in 1 .. Len(stack') : i \in 1 .. Len(stack) /\ i \in 1 .. Len(stack') + 1
  BY DEF TypeOK
<1>4. \A i \in 1 .. Len(stack') : stack'[i].at \subseteq Called(i)'
  BY <1>2, <1>3 DEF PathInv
<1> QED BY <1>2, <1>4

LEMMA PathInvDescend ==
  ASSUME TypeOK, PathInv, NEW u \in Usrs, Descend(u)
  PROVE  PathInv'
<1>1. /\ Len(stack) \in Nat \ {0} /\ Len(stack') = Len(stack) + 1
      /\ stack'[Len(stack)] = [todo |-> Top.todo \ {u}, at |-> {u}]
      /\ stack'[Len(stack) + 1] = [todo |-> Callees(u), at |-> {}]
      /\ \A i \in 1 .. Len(stack) - 1 : stack'[i] = stack[i]
  <2>1. Callees(u) \in SUBSET Usrs
    BY DEF Callees
  <2>2. stack \in Seq(Activations)
    BY DEF TypeOK, Activations
  <2>3. QED
    BY <2>1, <2>2, PushedStack, PoppedStack DEF Descend, Frame
<1>2. /\ UNCHANGED <<table, query>> /\ status = "searching" /\ status' = "searching"
      /\ u \in Top.todo /\ Top.todo \subseteq Called(Len(stack))
  BY PathInvUses DEF Descend
<1>3. \A i \in 1 .. Len(stack) : Called(i)' = Called(i)
  <2>1. \A i \in 1 .. Len(stack) : i = 1 \/ i - 1 \in 1 .. Len(stack) - 1
    BY <1>1
  <2>2. \A i \in 1 .. Len(stack) : i = 1 \/ stack'[i - 1] = stack[i - 1]
    BY <1>1, <2>1
  <2> QED BY <1>2, <2>2, CalledStays
<1>4. \A i \in 1 .. Len(stack') : i \in 1 .. Len(stack) - 1 \/ i = Len(stack) \/ i = Len(stack) + 1
  BY <1>1
<1>5. stack'[Len(stack)].todo = Top.todo \ {u} /\ stack'[Len(stack)].at = {u}
      /\ stack'[Len(stack) + 1].todo = Callees(u) /\ stack'[Len(stack) + 1].at = {}
  BY <1>1
<1>6. ASSUME NEW i \in 1 .. Len(stack') 
      PROVE  /\ stack'[i].at \subseteq Called(i)' /\ stack'[i].todo \subseteq Called(i)'
             /\ i < Len(stack') => stack'[i].at # {}
  <2>1. CASE i \in 1 .. Len(stack) - 1
    <3>1. stack'[i] = stack[i] /\ i \in 1 .. Len(stack) /\ i < Len(stack)
      BY <1>1, <2>1
    <3> QED BY <1>2, <1>3, <3>1 DEF PathInv
  <2>2. CASE i = Len(stack)
    <3>1. i \in 1 .. Len(stack)
      BY <1>1, <2>2
    <3> QED BY <1>2, <1>3, <1>5, <2>2, <3>1
  <2>3. CASE i = Len(stack) + 1
    <3>1. i # 1 /\ i - 1 = Len(stack)
      BY <1>1, <2>3
    <3>2. Callees(u)' = Callees(u)
      BY <1>2, Fixed
    <3>3. stack'[i - 1].at = {u}
      BY <1>5, <3>1
    <3>4. Called(i)' = Callees(u)
      BY <3>1, <3>2, <3>3 DEF Called
    <3> QED BY <1>1, <1>5, <2>3, <3>4
  <2> QED BY <1>4, <2>1, <2>2, <2>3
<1> QED BY <1>2, <1>6 DEF PathInv, PathFollowsCalls

LEMMA PathInvHit ==
  ASSUME TypeOK, PathInv, NEW u \in Usrs, Hit(u)
  PROVE  PathInv'
<1>1. /\ UNCHANGED <<table, query>> /\ status = "searching" /\ status' = "returning"
      /\ stack # <<>> /\ stack' = Popped /\ result' = <<PushedOnHit(u)>> /\ TRUE \in Hits(u)
      /\ u \in Top.todo
  BY DEF Hit
<1>2. /\ Len(stack) \in Nat \ {0} /\ Len(stack') = Len(stack) - 1
      /\ \A i \in 1 .. Len(stack') : stack'[i] = stack[i]
  BY <1>1, PoppedStack DEF TypeOK, Activations
<1>3. /\ \A i \in 1 .. Len(stack') : stack'[i].at \subseteq Called(i)'
      /\ \A i \in 1 .. Len(stack') + 1 : Called(i)' = Called(i)
  BY <1>1, <1>2, StillChained
<1>4. \A i \in 1 .. Len(stack') : stack'[i].at # {}
  <2>1. \A i \in 1 .. Len(stack') : i \in 1 .. Len(stack) /\ i < Len(stack)
    BY <1>2
  <2> QED BY <1>1, <1>2, <2>1 DEF PathInv
<1>5. Len(result') = 1 /\ result'[1] = PushedOnHit(u)
  BY <1>1
<1>6. u \in Called(Len(stack))
  BY <1>1, PathInvUses
<1> DEFINE us == [i \in 1 .. 1 |-> u]
<1>7. LeadsOn(us, 1)'
  <2>1. Len(stack') + 1 = Len(stack) /\ Len(stack) \in 1 .. Len(stack') + 1
    BY <1>2
  <2>2. \A i \in 1 .. Len(stack') + 1 : i = Len(stack') + 1 => u \in Called(i)'
    BY <1>3, <1>6, <2>1
  <2>3. u \in Called(Len(stack) + 1)'
    BY <2>1, <2>2
  <2>4. TRUE \in Hits(u)' /\ PushedOnHit(u)' = PushedOnHit(u)
    BY <1>1, Fixed DEF PushedOnHit
  <2>5. us[1] = u /\ 1 .. 1 - 1 = {}
    OBVIOUS
  <2> HIDE DEF us
  <2> QED BY <1>5, <2>3, <2>4, <2>5 DEF LeadsOn
<1>8. us \in [1 .. 1 -> Usrs]
  OBVIOUS
<1> HIDE DEF us
<1>9. \E vs \in [1 .. Len(result') -> Usrs] : LeadsOn(vs, Len(result))'
  BY <1>5, <1>7, <1>8
<1> QED BY <1>1, <1>3, <1>4, <1>5, <1>9 DEF PathInv, PathFollowsCalls

LEMMA PathInvReturnTrue ==
  ASSUME TypeOK, PathInv, ReturnTrue
  PROVE  PathInv'
<1> DEFINE k == Len(result)
<1>1. /\ UNCHANGED <<table, query, status>> /\ status = "returning"
      /\ stack # <<>> /\ stack' = Popped
  BY DEF ReturnTrue
<1>2. PICK v \in Top.at : result' = Append(result, NameOf[v])
  BY DEF ReturnTrue
<1>3. /\ Len(stack) \in Nat \ {0} /\ Len(stack') = Len(stack) - 1 /\ Top \in Activations
      /\ \A i \in 1 .. Len(stack') : stack'[i] = stack[i]
  BY <1>1, PoppedStack DEF TypeOK, Activations
<1>4. Top.at = {v} /\ v \in Usrs
  BY <1>2, <1>3 DEF Activations
<1>5. /\ \A i \in 1 .. Len(stack') : stack'[i].at \subseteq Called(i)'
      /\ \A i \in 1 .. Len(stack') + 1 : Called(i)' = Called(i)
  BY <1>1, <1>3, StillChained
<1>6. \A i \in 1 .. Len(stack') : stack'[i].at # {}
  <2>1. \A i \in 1 .. Len(stack') : i \in 1 .. Len(stack)
    BY <1>3
  <2> QED BY <1>1, <1>3, <2>1 DEF PathInv
<1>7. k \in Nat \ {0}
  BY <1>1 DEF PathInv
<1>8. /\ Len(result') = k + 1 /\ result'[k + 1] = NameOf[v]
      /\ \A i \in 1 .. k : result'[i] = result[i]
  <2>1. result \in Seq({query.to} \cup {NameOf[u] : u \in Usrs})
    BY DEF TypeOK
  <2> QED BY <1>2, <1>4, <2>1, AppendProperties
<1>9. PICK us \in [1 .. k -> Usrs] : LeadsOn(us, k)
  BY <1>1 DEF PathInv
<1>10. PICK ws \in [1 .. k + 1 -> Usrs] :
         /\ ws[1] = v
         /\ \A i \in 1 .. k : ws[i + 1] = us[i]
         /\ \A i \in 2 .. k : ws[i] = us[i - 1]
  <2> DEFINE xs == [i \in 1 .. k + 1 |-> IF i = 1 THEN v ELSE us[i - 1]]
  <2>1. xs \in [1 .. k + 1 -> Usrs]
    BY <1>4, <1>7, <1>9
  <2>2. xs[1] = v /\ (\A i \in 1 .. k : xs[i + 1] = us[i]) /\ \A i \in 2 .. k : xs[i] = us[i - 1]
    BY <1>7
  <2> QED BY <2>1, <2>2
<1> HIDE DEF k
<1>11. us[1] \in Callees(v)
  <2>1. us[1] \in Called(Len(stack) + 1) /\ Len(stack) + 1 # 1 /\ (Len(stack) + 1) - 1 = Len(stack)
    BY <1>3, <1>9 DEF LeadsOn
  <2>2. Called(Len(stack) + 1) = UNION {Callees(u) : u \in stack[Len(stack)].at}
    BY <2>1 DEF Called
  <2> QED BY <1>4, <2>1, <2>2 DEF Top
<1>12. \A i \in 1 .. k : ws[i + 1] \in Callees(ws[i])
  <2> TAKE i \in 1 .. k
  <2>1. CASE i = 1
    BY <1>10, <1>11, <2>1
  <2>2. CASE i # 1
    <3>1. i \in 2 .. k /\ i - 1 \in 1 .. k - 1 /\ (i - 1) + 1 = i
      BY <1>7, <2>2
    <3>2. us[i] \in Callees(us[i - 1])
      BY <1>9, <3>1 DEF LeadsOn
    <3> QED BY <1>10, <3>1, <3>2
  <2> QED BY <2>1, <2>2
<1>13. TRUE \in Hits(ws[k + 1]) /\ result'[1] = PushedOnHit(ws[k + 1])
  <2>1. 1 \in 1 .. k /\ k \in 1 .. k
    BY <1>7
  <2> QED BY <1>8, <1>9, <1>10, <2>1 DEF LeadsOn
<1>14. \A i \in 1 .. k : result'[k + 2 - i] = NameOf[ws[i]]
  <2> TAKE i \in 1 .. k
  <2>1. CASE i = 1
    BY <1>7, <1>8, <1>10, <2>1
  <2>2. CASE i # 1
    <3>1. i \in 2 .. k /\ i - 1 \in 1 .. k - 1 /\ k + 1 - (i - 1) = k + 2 - i /\ k + 2 - i \in 1 .. k
      BY <1>7, <2>2
    <3>2. result[k + 2 - i] = NameOf[us[i - 1]]
      BY <1>9, <3>1 DEF LeadsOn
    <3> QED BY <1>8, <1>10, <3>1, <3>2
  <2> QED BY <2>1, <2>2
<1>15. ws[1] \in Called(Len(stack))
  BY <1>1, <1>4, <1>10, PathInvUses
<1>16. ASSUME NEW m, m = k + 1 PROVE LeadsOn(ws, m)'
  <2>1. Len(stack') + 1 = Len(stack) /\ Len(stack) \in 1 .. Len(stack') + 1
    BY <1>3
  <2>2. \A i \in 1 .. Len(stack') + 1 : i = Len(stack') + 1 => ws[1] \in Called(i)'
    BY <1>5, <1>15, <2>1
  <2>3. /\ \A u : Callees(u)' = Callees(u) /\ Hits(u)' = Hits(u)
        /\ \A u : PushedOnHit(u)' = PushedOnHit(u)
    BY <1>1, Fixed DEF PushedOnHit
  <2>4. m - 1 = k /\ \A i \in 1 .. k : m + 1 - i = k + 2 - i
    BY <1>7, <1>16
  <2>5. \A i \in 1 .. m - 1 : ws[i + 1] \in Callees(ws[i])' /\ result'[m + 1 - i] = NameOf[ws[i]]
    BY <1>12, <1>14, <2>3, <2>4
  <2>6. \A i : i = Len(stack') + 1 => ws[1] \in Called(i)'
    BY <2>1, <2>2
  <2>7. TRUE \in Hits(ws[m])' /\ result'[1] = PushedOnHit(ws[m])'
    BY <1>13, <1>16, <2>3
  <2> QED BY <2>5, <2>6, <2>7 DEF LeadsOn
<1>17. \E vs \in [1 .. Len(result') -> Usrs] : LeadsOn(vs, Len(result))'
  <2>1. PICK m : m = k + 1
    OBVIOUS
  <2>2. LeadsOn(ws, m)'
    BY <1>16, <2>1
  <2> QED BY <1>8, <1>10, <2>1, <2>2
<1>18. Len(result') \in Nat \ {0} /\ status' = "returning"
  BY <1>1, <1>7, <1>8
<1> QED BY <1>5, <1>6, <1>17, <1>18 DEF PathInv, PathFollowsCalls

LEMMA PathInvAnswer ==
  ASSUME TypeOK, SearchInv, PathInv, Answer
  PROVE  PathInv'
<1>1. UNCHANGED <<table, query, result, stack>> /\ status' = "done" /\ stack = <<>>
      /\ status \in {"searching", "returning"}
  BY DEF Answer
<1>2. \A u : Callees(u)' = Callees(u) /\ Hits(u)' = Hits(u) /\ PushedOnHit(u)' = PushedOnHit(u)
      /\ Start' = Start
  BY <1>1, Fixed DEF PushedOnHit
<1>3. CASE result = <<>>
  BY <1>1, <1>3 DEF PathInv, PathFollowsCalls
<1>4. CASE result # <<>>
  <2>1. status = "returning"
    BY <1>1, <1>4 DEF SearchInv, NothingSkipped
  <2> DEFINE k == Len(result)
  <2>2. k \in Nat \ {0}
    BY <2>1 DEF PathInv
  <2>3. PICK us \in [1 .. k -> Usrs] : LeadsOn(us, k)
    BY <2>1 DEF PathInv
  <2>4. us[1] \in Start
    <3>1. Len(stack) + 1 = 1
      BY <1>1
    <3> QED BY <2>3, <3>1 DEF LeadsOn, Called
  <2>5. Len(Path) = k /\ \A i \in 1 .. k : Path[i] = result[k + 1 - i]
    BY <2>2 DEF Path
  <2>6. Len(us) = k
    BY <2>2, <2>3
  <2> HIDE DEF k
  <2>7. Chain(us) /\ TRUE \in Hits(us[k])
    BY <2>3, <2>4, <2>6 DEF Chain, LeadsOn
  <2>8. \A i \in 1 .. k - 1 : Path[i] = NameOf[us[i]]
    <3>1. \A i \in 1 .. k - 1 : i \in 1 .. k
      BY <2>2
    <3> QED BY <2>3, <2>5, <3>1 DEF LeadsOn
  <2>9. Path[k] = PushedOnHit(us[k])
    <3>1. k \in 1 .. k /\ k + 1 - k = 1
      BY <2>2
    <3> QED BY <2>3, <2>5, <3>1 DEF LeadsOn
  <2>10. \E vs \in [1 .. Len(Path) -> Usrs] :
           /\ Chain(vs) /\ TRUE \in Hits(vs[Len(vs)])
           /\ \A i \in 1 .. Len(Path) - 1 : Path[i] = NameOf[vs[i]]
           /\ Path[Len(Path)] = PushedOnHit(vs[Len(vs)])
    BY <2>3, <2>5, <2>6, <2>7, <2>8, <2>9
  <2>11. Path' = Path /\ \A vs : Chain(vs)' = Chain(vs)
    BY <1>1, <1>2 DEF Path, Chain
  <2>12. PathFollowsCalls'
    BY <1>2, <2>10, <2>11 DEF PathFollowsCalls
  <2> QED BY <1>1, <2>12 DEF PathInv
<1> QED BY <1>3, <1>4

LEMMA PathInvNext == TypeOK /\ SearchInv /\ PathInv /\ [Next]_vars => PathInv'
<1> SUFFICES ASSUME TypeOK, SearchInv, PathInv, [Next]_vars PROVE PathInv'
  OBVIOUS
<1>1. stack \in Seq(Activations) /\ Len(stack) \in Nat
  BY DEF TypeOK, Activations
<1>2. ASSUME NEW u \in Usrs, AlreadySearched(u) PROVE PathInv'
  <2>1. UNCHANGED <<table, query, status>> /\ status = "searching" /\ status' = "searching"
    BY <1>2 DEF AlreadySearched
  <2>2. /\ Len(stack') = Len(stack) /\ \A i \in 1 .. Len(stack) : stack'[i].at = stack[i].at
        /\ \A i \in 1 .. Len(stack) :
             stack'[i].todo = IF i = Len(stack) THEN stack[i].todo \ {u} ELSE stack[i].todo
    BY <1>1, <1>2, AdvancedStack DEF AlreadySearched, TopLeft
  <2>3. /\ \A i \in 1 .. Len(stack') : stack'[i].at \subseteq Called(i)'
        /\ \A i \in 1 .. Len(stack') + 1 : Called(i)' = Called(i)
    BY <1>1, <2>1, <2>2, StillChained
  <2>4. \A i \in 1 .. Len(stack') : i \in 1 .. Len(stack') + 1
    BY <1>1, <2>2
  <2>5. \A i \in 1 .. Len(stack') :
          stack'[i].todo \subseteq Called(i)' /\ (i < Len(stack') => stack'[i].at # {})
    BY <2>1, <2>2, <2>3, <2>4 DEF PathInv
  <2> QED BY <2>1, <2>3, <2>5 DEF PathInv, PathFollowsCalls
<1>3. CASE ReturnFalse
  <2>1. UNCHANGED <<table, query, status>> /\ status = "searching" /\ status' = "searching"
        /\ stack # <<>> /\ stack' = Popped
    BY <1>3 DEF ReturnFalse
  <2>2. /\ Len(stack) \in Nat \ {0} /\ Len(stack') = Len(stack) - 1
        /\ \A i \in 1 .. Len(stack') : stack'[i] = stack[i]
    BY <1>1, <2>1, PoppedStack
  <2>3. /\ \A i \in 1 .. Len(stack') : stack'[i].at \subseteq Called(i)'
        /\ \A i \in 1 .. Len(stack') + 1 : Called(i)' = Called(i)
    BY <2>1, <2>2, StillChained
  <2>4. \A i \in 1 .. Len(stack') : i \in 1 .. Len(stack') + 1 /\ i \in 1 .. Len(stack) /\ i < Len(stack)
    BY <2>2
  <2>5. \A i \in 1 .. Len(stack') :
          stack'[i].todo \subseteq Called(i)' /\ (i < Len(stack') => stack'[i].at # {})
    BY <2>1, <2>2, <2>3, <2>4 DEF PathInv
  <2> QED BY <2>1, <2>3, <2>5 DEF PathInv, PathFollowsCalls
<1>4. CASE UNCHANGED vars
  <2>1. UNCHANGED <<table, query, status, stack, result>>
    BY <1>4 DEF vars
  <2>2. /\ \A u : Callees(u)' = Callees(u) /\ Hits(u)' = Hits(u) /\ PushedOnHit(u)' = PushedOnHit(u)
        /\ Start' = Start
    BY <2>1, Fixed DEF PushedOnHit
  <2>3. \A i : Called(i)' = Called(i)
    BY <2>1, CalledStays
  <2>4. \A us, m : LeadsOn(us, m)' <=> LeadsOn(us, m)
    <3>1. \A i : i = Len(stack) + 1 => Called(i)' = Called(i) /\ Len(stack') + 1 = Len(stack) + 1
      BY <2>1, <2>3
    <3> QED BY <2>1, <2>2, <3>1 DEF LeadsOn
  <2>5. Path' = Path /\ \A us : Chain(us)' <=> Chain(us)
    BY <2>1, <2>2 DEF Path, Chain
  <2>6. PathFollowsCalls'
    BY <2>1, <2>2, <2>5 DEF PathFollowsCalls, PathInv
  <2> QED BY <2>1, <2>3, <2>4, <2>6 DEF PathInv
<1> QED BY <1>2, <1>3, <1>4, PathInvDescend, PathInvHit, PathInvReturnTrue, PathInvAnswer
        DEF Next, Step

\* For any calls, cyclic or not: the path that is printed is a chain of calls from a function
\* of the name asked for, and ends as the query asks, because each activation that returns
\* true pushes the caller whose callees it searched (Main.cc:540-550, 643-652).
THEOREM PrintedPathIsOne == Spec => []PathFollowsCalls
<1>1. PathInv => PathFollowsCalls
  BY DEF PathInv
<1> QED BY <1>1, CallPathTypes, SearchInvInit, SearchInvNext, PathInvInit, PathInvNext, PTL DEF Spec
=============================================================================
