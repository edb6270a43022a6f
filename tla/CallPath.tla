----------------------------- MODULE CallPath -----------------------------
(***************************************************************************)
(* The queries --callpath and --throwpath (src/indexer/Main.cc:501-702): a *)
(* depth first search over the rows of table func_calls, for any one call  *)
(* path from a function to another one, or to a function that might throw. *)
(* Functions are told apart by their USR, asked for and printed by their   *)
(* qualified name, which several functions may share.                      *)
(*                                                                         *)
(* The search is recursive in the code; here each activation is a frame of *)
(* a stack.  MySQL returns rows in an order of its own: a frame keeps the  *)
(* callers it has left as a set.                                           *)
(***************************************************************************)
EXTENDS Integers, Sequences, FiniteSets

CONSTANTS Usrs,
          NameOf,   \* Usrs -> qualified names
          Queries,  \* the queries that are considered
          Tables    \* kind of query -> the contents of the database considered

\* A table: defs, the functions defined; calls, the pairs of caller and callee;
\* throws, the rows of calls whose column caller_might_throw is set.
ASSUME TablesAssumption ==
  \A q \in Queries : \A t \in Tables[q.kind] : /\ t.defs \subseteq Usrs
                                               /\ t.calls \subseteq Usrs \X Usrs
                                               /\ t.throws \subseteq t.calls

\* Main.cc:569 refuses a path from a name to itself.
ASSUME QueriesAssumption == \A q \in Queries : /\ q.kind \in {"callpath", "throwpath"}
                                               /\ q.from # q.to

VARIABLES
  table,     \* the database, which a search does not change
  query,     \* the command line: kind, from, to
  status,    \* "searching", "returning" true from the recursion, "done"
  stack,     \* the activations: the callers left and the one being searched
  searched,  \* searched_caller_usr
  result     \* result, in the order of its push_backs

vars == <<table, query, status, stack, searched, result>>

Callees(u) == {c \in Usrs : <<u, c>> \in table.calls}

Start == {u \in table.defs : NameOf[u] = query.from}

Frame(us) == [todo |-> us, at |-> {}]

Init == /\ query \in Queries /\ table \in Tables[query.kind]
        /\ status = "searching"
        /\ stack = <<Frame(Start)>>
        /\ searched = {}
        /\ result = <<>>

\* search_callpath looks for a callee of the name asked for; search_throwpath reads
\* caller_might_throw in one of the caller's rows, whichever comes first.
Hits(u) ==
  IF query.kind = "callpath"
  THEN {\E c \in Callees(u) : NameOf[c] = query.to}
  ELSE {(<<u, c>> \in table.throws) : c \in Callees(u)}
       \cup (IF Callees(u) = {} THEN {FALSE} ELSE {})

\* What is pushed on a hit: the callee, or the caller that might throw.
PushedOnHit(u) == IF query.kind = "callpath" THEN query.to ELSE NameOf[u]

Top == stack[Len(stack)]

Popped == [i \in 1 .. Len(stack) - 1 |-> stack[i]]

-----------------------------------------------------------------------------
RetrySearched(u) ==   \* mutant: the loop does not go on to the next caller
  /\ status = "searching" /\ stack # <<>> /\ u \in Top.todo \cap searched
  /\ UNCHANGED vars

\* continue: the caller has been searched, or is being searched further up.
AlreadySearched(u) ==
  /\ status = "searching" /\ stack # <<>> /\ u \in Top.todo \cap searched
  /\ stack' = [stack EXCEPT ![Len(stack)].todo = @ \ {u}]
  /\ UNCHANGED <<table, query, status, searched, result>>

VisitUnmarked(u) ==   \* mutant: the caller is not inserted in searched_caller_usr
  /\ status = "searching" /\ stack # <<>> /\ u \in Top.todo \ searched
  /\ FALSE \in Hits(u)
  /\ stack' = Append([stack EXCEPT ![Len(stack)] = [todo |-> @.todo \ {u}, at |-> {u}]],
                     Frame(Callees(u)))
  /\ UNCHANGED <<table, query, status, searched, result>>

\* No hit: search the callees of u, one level deeper (none, if u has no rows).
Descend(u) ==
  /\ status = "searching" /\ stack # <<>> /\ u \in Top.todo \ searched
  /\ FALSE \in Hits(u)
  /\ searched' = searched \cup {u}
  /\ stack' = Append([stack EXCEPT ![Len(stack)] = [todo |-> @.todo \ {u}, at |-> {u}]],
                     Frame(Callees(u)))
  /\ UNCHANGED <<table, query, status, result>>

HitInsertsName(u) ==   \* mutant: the set of searched callers is given the name
  /\ status = "searching" /\ stack # <<>> /\ u \in Top.todo \ searched
  /\ TRUE \in Hits(u)
  /\ searched' = searched \cup {NameOf[u]}
  /\ result' = <<PushedOnHit(u)>>
  /\ stack' = Popped
  /\ status' = "returning"
  /\ UNCHANGED <<table, query>>

\* push_back and return true.
Hit(u) ==
  /\ status = "searching" /\ stack # <<>> /\ u \in Top.todo \ searched
  /\ TRUE \in Hits(u)
  /\ searched' = searched \cup {u}
  /\ result' = <<PushedOnHit(u)>>
  /\ stack' = Popped
  /\ status' = "returning"
  /\ UNCHANGED <<table, query>>

ReturnAll ==   \* mutant: the search ends with the first caller that leads nowhere
  /\ status = "searching" /\ stack # <<>> /\ Top.todo = {}
  /\ stack' = <<>>
  /\ UNCHANGED <<table, query, status, searched, result>>

\* return false: the caller of this activation goes on with its loop.
ReturnFalse ==
  /\ status = "searching" /\ stack # <<>> /\ Top.todo = {}
  /\ stack' = Popped
  /\ UNCHANGED <<table, query, status, searched, result>>

ReturnUnpushed ==   \* mutant: an activation that returns true pushes nothing
  /\ status = "returning" /\ stack # <<>>
  /\ stack' = Popped
  /\ UNCHANGED <<table, query, status, searched, result>>

\* return true: each activation pushes the caller whose callees it searched.
ReturnTrue ==
  /\ status = "returning" /\ stack # <<>>
  /\ \E u \in Top.at : result' = Append(result, NameOf[u])
  /\ stack' = Popped
  /\ UNCHANGED <<table, query, status, searched>>

\* The path found, if any, is reversed and printed.
Answer ==
  /\ status \in {"searching", "returning"} /\ stack = <<>>
  /\ status' = "done"
  /\ UNCHANGED <<table, query, stack, searched, result>>

Step == \/ \E u \in Usrs : AlreadySearched(u) \/ Descend(u) \/ Hit(u)
        \/ ReturnFalse \/ ReturnTrue \/ Answer

Next == Step \/ (status = "done" /\ UNCHANGED vars)

Spec == Init /\ [][Next]_vars

\* The query runs to its end: one thread, and a database that answers.
FairSpec == Spec /\ WF_vars(Step)

-----------------------------------------------------------------------------
(* Properties                                                               *)

\* Every variable has its type.
TypeOK == /\ query \in Queries /\ table \in Tables[query.kind]
          /\ status \in {"searching", "returning", "done"}
          /\ stack \in Seq([todo : SUBSET Usrs, at : {{}} \cup {{u} : u \in Usrs}])
          /\ searched \subseteq Usrs
          /\ result \in Seq({query.to} \cup {NameOf[u] : u \in Usrs})

Closed(us) == \A u \in us : Callees(u) \subseteq us

\* The functions that Start calls, directly or not, and Start: the least closed set.
Reachable == {u \in Usrs : \A us \in SUBSET Usrs : Start \subseteq us /\ Closed(us) => u \in us}

\* Whatever cycles the calls make and in whatever order the rows come, although
\* no function is searched twice (Main.cc:526, 626): a path is found if and only
\* if some function that can be reached has what is searched for.
FoundIffReachable ==
  status = "done" =>
    /\ result # <<>> => \E u \in Reachable : TRUE \in Hits(u)
    /\ result = <<>> => \A u \in Reachable : FALSE \in Hits(u)

Path == [i \in 1 .. Len(result) |-> result[Len(result) + 1 - i]]

\* A chain of calls from Start.
Chain(us) == us[1] \in Start /\ \A i \in 1 .. Len(us) - 1 : us[i + 1] \in Callees(us[i])

\* The printed path follows the calls (Main.cc:540-550, 643-652).  A call path has
\* the function asked for at its end, and the place before it skips one caller; a
\* throw path ends in the function that might throw.
PathFollowsCalls ==
  status = "done" /\ result # <<>> =>
    \E us \in [1 .. Len(Path) -> Usrs] :
      /\ Chain(us) /\ TRUE \in Hits(us[Len(us)])
      /\ \A i \in 1 .. Len(Path) - 1 : Path[i] = NameOf[us[i]]
      /\ Path[Len(Path)] = PushedOnHit(us[Len(us)])

\* The recursion is never deeper than the functions searched, on cyclic calls too:
\* no function has two activations at once.
RecursionBounded ==
  /\ Len(stack) <= Cardinality(searched) + 1
  /\ \A i, j \in 1 .. Len(stack) : i # j => stack[i].at \cap stack[j].at = {}

\* The recursion ends (Main.cc:511-554, 612-656), whatever cycles the calls make.
SearchEnds == <>(status = "done")
=============================================================================
