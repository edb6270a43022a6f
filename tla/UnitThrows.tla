----------------------------- MODULE UnitThrows -----------------------------
(***************************************************************************)
(* What PViewConsumer asks ExceptionAnalyzer when clang is at a symbol of  *)
(* a unit, and whether the answer that is stored is right.  A definition   *)
(* has a body and the initializers of a constructor, a declaration the     *)
(* types of its exception specification.                                   *)
(***************************************************************************)
EXTENDS UnitIndex, ExceptionAnalyzer

\* The program that clang has read up to symbol k of unit u.
Visible(u, k) ==
  LET Seen(f, kind) == {u[j] : j \in {i \in 1 .. k : u[i].kind = kind /\ u[i].usr = f}}
  IN  [f \in Usrs |->
         IF Seen(f, "def") # {}
         THEN LET d == CHOOSE d \in Seen(f, "def") : TRUE
              IN  [body |-> d.body, inits |-> d.inits, spec |-> {}]
         ELSE [body |-> NoBody, inits |-> <<>>, spec |-> UNION {d.spec : d \in Seen(f, "decl")}]]

MightThrowAt(u, k, f) == func_might_throw(Visible(u, k), f)

\* The statements of the bodies that P has, and the handlers among them.
StmtsOf(P) == UNION {Within(P[f].body) : f \in {f \in DOMAIN P : P[f].body # NoBody}}
HandlersOf(P) == UNION {ToSet(s.handlers) : s \in {s \in StmtsOf(P) : s.op = "try"}}

\* Three forms the analysis is known to get wrong: it does not look into arguments; it
\* takes what a handler for a base class rethrows for the base class; and it counts what
\* the handler of a catch(...) throws although nothing may reach it.
HidesInArguments(P) == \E s \in StmtsOf(P) : s.op = "call" /\ s.args # <<>>
RethrowsAsBase(P) == \E h \in HandlersOf(P) :
                       /\ \E t \in DOMAIN bases : h.type \in bases[t]
                       /\ \E s \in Within(h.body) : s.op = "rethrow"
CatchesAll(P) == \E h \in HandlersOf(P) : h.type = CatchAll

\* func_might_throw "should not have false-positive" (ParseTask.h:265-270), and throw paths
\* need that it misses nothing: for functions whose bodies clang has seen it says what the
\* program does, but for the three forms.
MightThrowIsRight ==
  pos > 1 =>
    LET last == Unit[pos - 1]
        P == Visible(Unit, pos - 1)
        might == Last(func_defs).might
    IN  last.kind = "def" /\ ~RethrowsAsBase(P) =>
          /\ ~HidesInArguments(P) /\ Throws(P, last.usr) => might
          /\ ~CatchesAll(P) /\ might => Throws(P, last.usr)
=============================================================================
