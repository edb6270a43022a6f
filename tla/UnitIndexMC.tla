---------------------------- MODULE UnitIndexMC ----------------------------
(* Instances of UnitIndex: one unit with each program of a family whose     *)
(* functions throw, catch and rethrow, and a few pairs of units that share  *)
(* a header, with symbols of every kind.                                    *)
EXTENDS UnitThrows

\* An exception, a class derived from it, and AssertionError.
const_bases == [Base |-> {}, Derived |-> {"Base"}, Assertion |-> {}]

\* Two functions named f, two others, one of which is in the header, one that is not in the
\* project's files and a macro.
const_NameOf == [f1 |-> "f", f2 |-> "f", g |-> "g", h |-> "h", ext |-> "ext", M |-> "M"]

\* The functions called in a statement, in the order clang meets them.
RECURSIVE CallsIn(_)
CallsIn(s) ==
  LET Of(ss) == FlattenSeq([i \in DOMAIN ss |-> CallsIn(ss[i])])
  IN  CASE s.op = "call" -> <<s.func>> \o Of(s.args)
        [] s.op = "block" -> Of(s.body)
        [] s.op = "try" -> CallsIn(s.block) \o Of([i \in DOMAIN s.handlers |-> s.handlers[i].body])
        [] OTHER -> <<>>

Skip == [op |-> "block", body |-> <<>>]
Seq2(a, b) == [op |-> "block", body |-> <<a, b>>]
Throw(t) == [op |-> "throw", type |-> t]
Rethrow == [op |-> "rethrow"]
CallTo(f) == [op |-> "call", func |-> f, args |-> <<>>]
CallWith(f, a) == [op |-> "call", func |-> f, args |-> <<a>>]
Try(s, hs) == [op |-> "try", block |-> s, handlers |-> hs]
Catch(t, s) == [type |-> t, body |-> s]

\* Symbols: a definition with the calls in its body and initializers, which may be in another
\* file than the name is, and single ones.
Definition(f, name, loc, body, inits) ==
  LET called == CallsIn([op |-> "block", body |-> <<body>> \o inits])
  IN  <<[kind |-> "def", usr |-> f, loc |-> name, body |-> body, inits |-> inits]>>
        \o [k \in DOMAIN called |-> [kind |-> "call", usr |-> called[k], loc |-> loc, caller |-> f]]
Def(f, loc, body) == Definition(f, loc, loc, body, <<>>)
Ctor(f, loc, init) == Definition(f, loc, loc, Skip, <<init>>)
DefByMacro(f, loc, body) == Definition(f, Outside, loc, body, <<>>)
Decl(f, loc, types) == <<[kind |-> "decl", usr |-> f, loc |-> loc, spec |-> types]>>
Other(kind, f, loc) == <<[kind |-> kind, usr |-> f, loc |-> loc]>>

\* The programs: g, and a function around a try that calls g.
Bodies == {Skip, Throw("Base"), Throw("Derived"), Throw("Assertion"), CallTo("ext"),
           Try(Throw("Derived"), <<Catch("Base", Rethrow)>>)}
Handlers(ss) == {Catch(t, s) : t \in {"Base", "Derived", CatchAll}, s \in ss}
Tries == {Try(s, <<c>>) : s \in {CallTo("g"), Seq2(Throw("Base"), CallTo("g"))},
                          c \in Handlers({Skip, Rethrow, Throw("Base"), CallTo("g")})}
  \cup {Try(CallTo("g"), <<c, d>>) : c \in Handlers({Skip, Rethrow}),
                                   d \in Handlers({Skip, Throw("Derived")})}
Arounds == {Try(s, <<c>>) : s \in Tries, c \in Handlers({Skip, Rethrow})}
  \cup {Seq2(s, CallTo("g")) : s \in Tries} \cup {CallWith("ext", CallTo("g"))}

ThrowSources ==
  {<<Def("g", "a.cc", b) \o Def("f1", "a.cc", s)>> : b \in Bodies, s \in Tries \cup Arounds}

Included == Decl("g", Header, {"Base"}) \o Other("macro", "M", Header)
              \o Def("h", Header, Seq2(CallTo("g"), CallTo("g")))

UnitSources ==
  {<<Included \o Def("f1", "a.cc", Seq2(CallTo("h"), CallWith("g", CallTo("h"))))
       \o Other("init", "f1", "a.cc") \o Other("expand", "M", "a.cc")
       \o Def("ext", Outside, CallTo("h")) \o DefByMacro("f2", "a.cc", CallTo("f1")),
     Included \o Other("expand", "M", "b.cc") \o s>> :
     s \in {<<>>, Def("g", "b.cc", Throw("Base")) \o Ctor("f2", "b.cc", CallTo("g"))}}

const_Sources == ThrowSources \cup UnitSources
=============================================================================
