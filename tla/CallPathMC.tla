----------------------------- MODULE CallPathMC -----------------------------
(* Small instances of CallPath: for a call path, every set of calls between *)
(* four functions; for a throw path, every table of up to MaxThrowCalls     *)
(* calls between them, with every choice of flags.                          *)
EXTENDS CallPath, FiniteSetsExt, TLC

CONSTANTS a1, a2, b, c, MaxThrowCalls

MCUsrs == {a1, a2, b, c}

\* Two functions share a name.
MCNameOf == (a1 :> "A") @@ (a2 :> "A") @@ (b :> "B") @@ (c :> "C")

MCCalls == {e \in MCUsrs \X MCUsrs : e[1] # e[2]}

MCCallTables ==
  {[defs |-> MCUsrs, calls |-> calls, throws |-> {}] : calls \in SUBSET MCCalls}

MCThrowTables ==
  UNION {{[defs |-> MCUsrs \ {c}, calls |-> calls, throws |-> throws] : throws \in SUBSET calls} :
         calls \in UNION {kSubset(k, MCCalls) : k \in 0 .. MaxThrowCalls}}

MCTables == [callpath |-> MCCallTables, throwpath |-> MCThrowTables]

MCQueries == {[kind |-> "callpath", from |-> "A", to |-> "B"],
              [kind |-> "throwpath", from |-> "A", to |-> ""]}
=============================================================================
