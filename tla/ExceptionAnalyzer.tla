------------------------- MODULE ExceptionAnalyzer -------------------------
(***************************************************************************)
(* The static analysis behind func_might_throw: which exceptions can leave *)
(* a function, computed over its syntax tree and the functions it calls.   *)
(*                                                                         *)
(* A program is a function from functions to records of a body (a          *)
(* statement, or NoBody), the initializers of a constructor and the types  *)
(* of an exception specification.  A statement is one of                   *)
(*   [op |-> "throw", type]     [op |-> "rethrow"]                         *)
(*   [op |-> "call", func, args]      calls and constructions              *)
(*   [op |-> "block", body]           any other statement, with children   *)
(*   [op |-> "try", block, handlers]  handlers with a type and a body      *)
(***************************************************************************)
EXTENDS Integers, Sequences, SequencesExt

CONSTANTS bases,         \* each exception type -> its base classes
          Ignored,       \* the types that do not count: AssertionError, std::bad_alloc
          CatchAll,      \* the type of a catch(...)
          NoBody,
          MaxTraceLevel

ASSUME AnalyzerAssumption ==
  /\ \A t \in DOMAIN bases : bases[t] \subseteq DOMAIN bases \ {t}
  /\ Ignored \subseteq DOMAIN bases /\ CatchAll \notin DOMAIN bases
  /\ MaxTraceLevel \in Nat

-----------------------------------------------------------------------------
(* ExceptionInfo                                                            *)

\* createNonThrowing starts from State::Throwing; only the filters correct that.
NonThrowing == [state |-> "Throwing", unknown |-> FALSE, thrown |-> {}]
UnknownInfo == [state |-> "Unknown", unknown |-> TRUE, thrown |-> {}]
Cleared == [state |-> "NotThrowing", unknown |-> FALSE, thrown |-> {}]

Register(info, types) ==
  IF types = {} THEN info
  ELSE [info EXCEPT !.state = "Throwing", !.thrown = @ \cup types]

Merge(a, b) ==
  [state |-> IF b.state = "Throwing" \/ (b.state = "Unknown" /\ a.state = "NotThrowing")
             THEN b.state ELSE a.state,
   unknown |-> a.unknown \/ b.unknown,
   thrown |-> a.thrown \cup b.thrown]

Reevaluated(info) ==
  [info EXCEPT !.state = IF info.thrown # {} THEN "Throwing"
                         ELSE IF info.unknown THEN "Unknown" ELSE "NotThrowing"]

Without(info, types) == Reevaluated([info EXCEPT !.thrown = @ \ types])

CaughtExactly(types, c) == types \cap {c}   \* mutant: derived classes are not caught

CaughtBy(types, c) == {t \in types : t = c \/ c \in bases[t]}

-----------------------------------------------------------------------------
(* throwsException                                                          *)

RECURSIVE OfFunction(_, _, _, _), OfStmt(_, _, _, _, _)

OfFunction(P, f, stack, level) ==
  IF f \in stack \/ level >= MaxTraceLevel THEN NonThrowing
  ELSE IF P[f].body # NoBody
  THEN FoldLeft(LAMBDA info, init : Merge(info, OfStmt(P, init, {}, stack \cup {f}, level + 1)),
                OfStmt(P, P[f].body, {}, stack \cup {f}, level + 1), P[f].inits)
  ELSE Register(UnknownInfo, P[f].spec)

\* What the try block leaves, and what its handlers make of it one after the other.
OfHandlers(P, s, caught, stack, level) ==
  LET Handle(acc, h) ==
        LET hit == CaughtBy(acc.uncaught.thrown, h.type)
            Rethrown(types) == OfStmt(P, h.body, types, stack, level)
        IN  IF h.type = CatchAll
            THEN [results |-> Merge(acc.results, Rethrown(acc.uncaught.thrown)),
                  uncaught |-> Cleared]
            ELSE [results |-> IF hit = {} THEN acc.results
                              ELSE Merge(acc.results, Rethrown({h.type})),
                  uncaught |-> Without(acc.uncaught, hit)]
      end == FoldLeft(Handle, [results |-> NonThrowing,
                               uncaught |-> OfStmt(P, s.block, caught, stack, level)],
                      s.handlers)
  IN  Merge(end.results, end.uncaught)

\* The arguments of a call, and of the constructor of what is thrown, are not visited.
OfStmt(P, s, caught, stack, level) ==
  IF level >= MaxTraceLevel THEN NonThrowing
  ELSE CASE s.op = "throw" -> Register(NonThrowing, {s.type})
         [] s.op = "rethrow" -> Register(NonThrowing, caught)
         [] s.op = "call" -> Merge(NonThrowing, OfFunction(P, s.func, stack, level + 1))
         [] s.op = "try" -> OfHandlers(P, s, caught, stack, level + 1)
         [] s.op = "block" ->
              FoldLeft(LAMBDA info, c : Merge(info, OfStmt(P, c, caught, stack, level + 1)),
                       NonThrowing, s.body)

\* analyze of a fresh analyzer, whose cache is empty.
Analyze(P, f) ==
  LET info == OfFunction(P, f, {}, 0)
  IN  IF info.state = "Throwing" THEN Without(info, Ignored) ELSE info

func_might_throw(P, f) == Analyze(P, f).state = "Throwing"

-----------------------------------------------------------------------------
(* What a program does, to compare the analysis with: the exceptions that    *)
(* can leave a statement when current is what a rethrow throws, any child   *)
(* of a block can be reached, and functions without a body throw what they  *)
(* declare.                                                                 *)

RECURSIVE Escapes(_, _, _, _)

Escapes(P, s, current, stack) ==
  CASE s.op = "throw" -> {s.type}
    [] s.op = "rethrow" -> current
    [] s.op = "block" -> UNION {Escapes(P, s.body[i], current, stack) : i \in DOMAIN s.body}
    [] s.op = "call" ->
         UNION {Escapes(P, s.args[i], current, stack) : i \in DOMAIN s.args}
           \cup (IF s.func \in stack THEN {}
                 ELSE IF P[s.func].body = NoBody THEN P[s.func].spec
                 ELSE UNION {Escapes(P, p, {}, stack \cup {s.func}) :
                             p \in {P[s.func].body} \cup ToSet(P[s.func].inits)})
    [] s.op = "try" ->
         LET Matching(t) == SelectSeq(s.handlers,
                              LAMBDA h : h.type \in {CatchAll, t} \cup bases[t])
         IN  UNION {IF Matching(t) = <<>> THEN {t}
                    ELSE Escapes(P, Head(Matching(t)).body, {t}, stack) :
                    t \in Escapes(P, s.block, current, stack)}

Throws(P, f) ==
  Escapes(P, [op |-> "call", func |-> f, args |-> <<>>], {}, {}) \ Ignored # {}

\* Every statement of a statement, itself included.
RECURSIVE Within(_)
Within(s) ==
  LET parts == CASE s.op = "block" -> ToSet(s.body)
                 [] s.op = "call" -> ToSet(s.args)
                 [] s.op = "try" -> {s.block} \cup {s.handlers[i].body : i \in DOMAIN s.handlers}
                 [] OTHER -> {}
  IN  {s} \cup UNION {Within(p) : p \in parts}
=============================================================================
