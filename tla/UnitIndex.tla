----------------------------- MODULE UnitIndex -----------------------------
(***************************************************************************)
(* What a parse task makes of the translation units it indexes: the        *)
(* symbols that clang reports to PViewConsumer and PViewPPCallBack, the    *)
(* rows collected from them, the statements that send_indexed_result       *)
(* batches the rows into, and the listings of callers and callees that the *)
(* tables then give.                                                       *)
(*                                                                         *)
(* A unit is the sequence of symbols that clang reports, each of a kind,   *)
(* with a USR and the file of its location:                                *)
(*   "def"     function definition            "decl"   its declaration     *)
(*   "call"    call inside of the function "caller"                        *)
(*   "init"    call outside of a function                                  *)
(*   "macro"   #define                        "expand" macro expansion     *)
(* A file id stands for its file (module IndexStore allocates them), and a *)
(* function for its USR.  Here no statement fails (again IndexStore).      *)
(* Whether a function might throw is what MightThrow says (UnitThrows).    *)
(***************************************************************************)
EXTENDS Integers, Sequences, SequencesExt, FiniteSetsExt, Functions

CONSTANTS Sources,   \* the sequences of units to index
          NameOf,    \* each USR -> its qualified name
          Outside,   \* any file that is not in the project
          Header,    \* a file that units include
          NoFile,    \* a file id below 0
          NoCaller,  \* an empty caller_usr
          BatchSize, \* FLAGS_db_update_batch_size
          MightThrow(_, _, _)  \* what clang's AST says of a function at a symbol of a unit

Usrs == DOMAIN NameOf
Kinds == {"def", "decl", "call", "init", "macro", "expand"}

InProject(s, kinds) == s.kind \in kinds /\ s.loc # Outside

ASSUME IndexAssumption == BatchSize \in Nat \ {0} /\ NoCaller \notin Usrs

\* A call that clang reports inside of a function names it.  The function need not be one of
\* the project although its call is: both are located by their spelling, and a name that a
\* macro of another file pastes or spells, as TEST of gtest does, is not of the project.
ASSUME SourceAssumption ==
  \A units \in Sources :
    /\ units \in Seq(ToSet(units))
    /\ \A u \in ToSet(units) :
         /\ u \in Seq(ToSet(u))
         /\ \A k \in DOMAIN u :
              /\ u[k].kind \in Kinds /\ u[k].usr \in Usrs /\ u[k].loc # NoFile
              /\ u[k].kind = "call" => u[k].caller \in Usrs

VARIABLES
  source,        \* the units, which never change
  n,             \* the unit that was claimed last
  pos,           \* the next symbol of unit n, 0 between two units
  cached,        \* local_filepath_cache_ has the header
  func_defs,     \* the definitions collected
  func_calls,    \* the calls collected
  next_call_id,  \* next_func_call_id_
  fd_start,      \* the next row of func_defs to put into a statement
  fc_start,      \* the next row of func_calls
  stmts,         \* the statements made of unit n so far
  queue,         \* the statements sent and not yet stored
  defs,          \* table func_definitions: usr -> row
  calls,         \* table func_calls: func_call_id -> row
  paths,         \* table filepaths: the units with a row
  failed,        \* history: the units that clang could not index
  missed,        \* history: the units with a symbol in a file without an id
  origin         \* history: the symbol that each call id was given to

collected == <<func_defs, func_calls, next_call_id, origin>>
batching == <<fd_start, fc_start, stmts>>
tables == <<defs, calls, paths>>
vars == <<source, n, pos, cached, collected, batching, queue, tables, failed, missed>>

Init == /\ source \in Sources /\ n = 0 /\ pos = 0 /\ cached = FALSE
        /\ func_defs = <<>> /\ func_calls = <<>> /\ next_call_id = 1
        /\ fd_start = 1 /\ fc_start = 1 /\ stmts = <<>> /\ queue = <<>>
        /\ defs = <<>> /\ calls = <<>> /\ paths = {}
        /\ failed = {} /\ missed = {} /\ origin = <<>>

-----------------------------------------------------------------------------
(* The consumers                                                            *)

Unit == source[n]
At == Unit[pos]
Sees(kinds) == n > 0 /\ pos \in DOMAIN Unit /\ At.kind \in kinds

\* The file of the range that gen_decl_info looks up for function f: its body's, or its
\* declaration's.
RangeOf(f) ==
  LET Locs(kind) == {Unit[j].loc : j \in {k \in 1 .. pos : Unit[k].kind = kind /\ Unit[k].usr = f}}
  IN  IF Locs("def") # {} THEN Locs("def") ELSE Locs("decl")

\* gen_source_location for a symbol at loc, then for its range: the file of the symbol,
\* and whether the cache then has the header, for which query_or_assign_file_id may fail.
Located(loc, ranges) ==
  LET asks == Header \in {loc} \cup ranges
      Lost(c) == [file |-> IF loc \in {Header, Outside} THEN NoFile ELSE loc, cached |-> c]
  IN  {[file |-> IF loc = Outside THEN NoFile ELSE loc, cached |-> cached \/ asks]}
        \cup (IF asks /\ ~cached THEN {Lost(FALSE), Lost(Header \in ranges)} ELSE {})

Locate(l) == /\ cached' = l.cached
             /\ missed' = IF l.file = NoFile /\ At.loc # Outside THEN missed \cup {n} ELSE missed
             /\ pos' = pos + 1

AddDef(usr, file, might) ==
  func_defs' = Append(func_defs, [usr |-> usr, file |-> file, might |-> might])

Call(caller, might, usr, file) ==
  [id |-> next_call_id, caller |-> caller, might |-> might, usr |-> usr, file |-> file]

AddCallSameId(caller, might, usr, file) ==   \* mutant: the id is handed out again
  /\ func_calls' = Append(func_calls, Call(caller, might, usr, file))
  /\ origin' = Append(origin, <<n, pos>>)
  /\ UNCHANGED next_call_id

AddCall(caller, might, usr, file) ==
  /\ func_calls' = Append(func_calls, Call(caller, might, usr, file))
  /\ origin' = Append(origin, <<n, pos>>)
  /\ next_call_id' = next_call_id + 1

HandleDef ==
  /\ Sees({"def"})
  /\ \E l \in Located(At.loc, RangeOf(At.usr)) :
       Locate(l) /\ AddDef(At.usr, l.file, MightThrow(Unit, pos, At.usr))
  /\ UNCHANGED <<source, n, func_calls, next_call_id, origin, batching, queue, tables, failed>>

HandleDecl ==
  /\ Sees({"decl"})
  /\ \E l \in Located(At.loc, RangeOf(At.usr)) : Locate(l)
  /\ UNCHANGED <<source, n, collected, batching, queue, tables, failed>>

\* The caller of a call is the function around it, if there is one.
Caller == IF At.kind = "call" THEN At.caller ELSE NoCaller

HandleCall ==
  /\ Sees({"call", "init"})
  /\ \E l \in Located(At.loc, RangeOf(At.usr)) :
       /\ Locate(l)
       /\ AddCall(Caller, Caller # NoCaller /\ MightThrow(Unit, pos, Caller), At.usr, l.file)
  /\ UNCHANGED <<source, n, func_defs, batching, queue, tables, failed>>

\* func_might_throw of a macro's DeclInfo is never set: any value may be stored.
MacroDefined ==
  /\ Sees({"macro"})
  /\ \E l \in Located(At.loc, {At.loc}), might \in BOOLEAN :
       Locate(l) /\ AddDef(At.usr, l.file, might)
  /\ UNCHANGED <<source, n, func_calls, next_call_id, origin, batching, queue, tables, failed>>

MacroExpands ==
  /\ Sees({"expand"})
  /\ \E l \in Located(At.loc, {}) :
       Locate(l) /\ AddCall(NoCaller, FALSE, At.usr, l.file)
  /\ UNCHANGED <<source, n, func_defs, batching, queue, tables, failed>>

-----------------------------------------------------------------------------
(* index_translation_unit and send_indexed_result                           *)

Begin ==
  /\ pos = 0 /\ n < Len(source)
  /\ n' = n + 1 /\ pos' = 1
  /\ UNCHANGED <<source, cached, collected, batching, queue, tables, failed, missed>>

KeepCollected ==   \* mutant: nothing is cleared
  /\ UNCHANGED <<func_defs, func_calls>>
  /\ fd_start' = 1 /\ fc_start' = 1 /\ stmts' = <<>>

\* ParseTaskTranslationUnitGuard, and the locals of send_indexed_result, go out of scope.
ClearCollected == /\ func_defs' = <<>> /\ func_calls' = <<>>
                  /\ fd_start' = 1 /\ fc_start' = 1 /\ stmts' = <<>>

\* clang crashes, stops with an error or has reported one by the end, before any
\* statement is made.
Fail ==
  /\ pos > 0 /\ fd_start = 1 /\ fc_start = 1
  /\ pos' = 0 /\ failed' = failed \cup {n} /\ ClearCollected
  /\ UNCHANGED <<source, n, cached, next_call_id, origin, queue, tables, missed>>

Through == pos > 0 /\ pos = Len(Unit) + 1

\* The rows that are not skipped: those with a file, and for calls with a caller.
ValidDefs == {i \in DOMAIN func_defs : func_defs[i].file # NoFile}
ValidCalls == {i \in DOMAIN func_calls : /\ func_calls[i].file # NoFile
                                         /\ func_calls[i].caller # NoCaller}

BatchEndBelow(rows, valid, start) ==   \* mutant: one row is counted too many
  Min({k \in start .. Len(rows) + 1 :
         k = Len(rows) + 1 \/ Cardinality(valid \cap (start .. k - 1)) = BatchSize + 1})

\* Where a batch that begins at start ends: after BatchSize rows, skipped ones apart.
BatchEnd(rows, valid, start) ==
  Min({k \in start .. Len(rows) + 1 :
         k = Len(rows) + 1 \/ Cardinality(valid \cap (start .. k - 1)) = BatchSize})

\* A statement has the rows by their place; one without rows is not made.
AddStmt(table, rows, taken) ==
  stmts' = IF taken = {} THEN stmts
           ELSE Append(stmts, [table |-> table, rows |-> [i \in taken |-> rows[i]]])

gen_batch_update_func_defs_stmt ==
  /\ Through /\ fd_start <= Len(func_defs)
  /\ fd_start' = BatchEnd(func_defs, ValidDefs, fd_start)
  /\ AddStmt("defs", func_defs, ValidDefs \cap (fd_start .. fd_start' - 1))
  /\ UNCHANGED <<source, n, pos, cached, collected, fc_start, queue, tables, failed, missed>>

gen_batch_update_func_calls_stmt ==
  /\ Through /\ fd_start > Len(func_defs) /\ fc_start <= Len(func_calls)
  /\ fc_start' = BatchEnd(func_calls, ValidCalls, fc_start)
  /\ AddStmt("calls", func_calls, ValidCalls \cap (fc_start .. fc_start' - 1))
  /\ UNCHANGED <<source, n, pos, cached, collected, fd_start, queue, tables, failed, missed>>

send_indexed_result ==
  /\ Through /\ fd_start > Len(func_defs) /\ fc_start > Len(func_calls)
  /\ queue' = queue \o Append(stmts, [table |-> "paths", rows |-> <<[unit |-> n]>>])
  /\ pos' = 0 /\ ClearCollected
  /\ UNCHANGED <<source, n, cached, next_call_id, origin, tables, failed, missed>>

\* INSERT IGNORE of the rows of stmt, each with the key that Key gives it: the row of an
\* equal key stays, the one before it in the statement or in the table.
InsertIgnore(table, rows, keys) ==
  LET First(k) == Min({i \in DOMAIN rows : keys[i] = k})
  IN  [k \in DOMAIN table \cup Range(keys) |-> IF k \in DOMAIN table THEN table[k] ELSE rows[First(k)]]

\* The next statement is stored.
Store ==
  /\ queue # <<>>
  /\ LET stmt == Head(queue)
     IN  /\ defs' = IF stmt.table # "defs" THEN defs
                    ELSE InsertIgnore(defs, stmt.rows, [i \in DOMAIN stmt.rows |-> stmt.rows[i].usr])
         /\ calls' = IF stmt.table # "calls" THEN calls
                     ELSE InsertIgnore(calls, stmt.rows, [i \in DOMAIN stmt.rows |-> stmt.rows[i].id])
         /\ paths' = IF stmt.table # "paths" THEN paths ELSE paths \cup {row.unit : row \in Range(stmt.rows)}
  /\ queue' = Tail(queue)
  /\ UNCHANGED <<source, n, pos, cached, collected, batching, failed, missed>>

Next == \/ Begin \/ Fail \/ send_indexed_result \/ Store
        \/ gen_batch_update_func_defs_stmt \/ gen_batch_update_func_calls_stmt
        \/ HandleDef \/ HandleDecl \/ HandleCall \/ MacroDefined \/ MacroExpands

Spec == Init /\ [][Next]_vars

-----------------------------------------------------------------------------
(* The listings: the calls under each function of a name, and the name of    *)
(* each caller, with the number of lines they take.                         *)

Names == Range(NameOf)
Named(name) == {f \in Usrs : NameOf[f] = name}

\* How many rows are of calls from one of callers to one of callees.
Rows(callers, callees) ==
  Cardinality({i \in DOMAIN calls : calls[i].caller \in callers /\ calls[i].usr \in callees})

CalleesOf(name) ==
  [u \in DOMAIN defs \cap Named(name) |-> [callee \in Names |-> Rows({u}, Named(callee))]]

CallersOf(name) ==
  [caller \in Names |-> Rows(DOMAIN defs \cap Named(caller), Named(name))]

-----------------------------------------------------------------------------
(* Properties                                                               *)

\* Every variable has its type.
TypeOK == /\ n \in 0 .. Len(source) /\ pos \in Nat /\ (pos > 0 => n > 0)
          /\ n > 0 => pos <= Len(Unit) + 1
          /\ cached \in BOOLEAN /\ next_call_id \in Nat \ {0}
          /\ \A i \in DOMAIN func_calls : func_calls[i].id < next_call_id
          /\ DOMAIN defs \subseteq Usrs
          /\ \A i \in DOMAIN calls : i < next_call_id /\ calls[i].id = i
          /\ paths \subseteq 1 .. n \ failed

\* An INSERT without rows, or with more than the batch size, is no statement the server
\* takes; it would discard the rest of the unit.
StatementsHaveRows ==
  \A i \in DOMAIN queue : Cardinality(DOMAIN queue[i].rows) \in 1 .. BatchSize

\* What the source says: the definitions and the calls in functions of the project's
\* files, in the units that clang could index.
Indexed == DOMAIN source \ failed

Symbols(kinds) ==
  UNION {{<<i, k>> : k \in {k \in DOMAIN source[i] : InProject(source[i][k], kinds)}} : i \in Indexed}

SourceDefs == {source[p[1]][p[2]].usr : p \in Symbols({"def", "macro"})}

SourceCalls(callers, callees) ==
  Cardinality({p \in Symbols({"call"}) : /\ source[p[1]][p[2]].caller \in callers
                                         /\ source[p[1]][p[2]].usr \in callees})

AllStored == n = Len(source) /\ pos = 0 /\ queue = <<>> /\ missed = {}

\* Once every unit is indexed and stored, the listings of callers and callees are what the
\* source says: each call once for each unit that contains it, nothing of a unit that
\* failed, whatever was skipped and wherever a batch ended (ParseTask.cc:213-330,
\* Main.cc:337-499); a caller is listed only if some unit defines it in the project
\* (Main.cc:489-494).
ListingsFollowSource ==
  AllStored =>
    /\ paths = Indexed /\ DOMAIN defs = SourceDefs
    /\ \A name \in Names :
         /\ \A u \in DOMAIN CalleesOf(name) : \A callee \in Names :
              CalleesOf(name)[u][callee] = SourceCalls({u}, Named(callee))
         /\ \A caller \in Names :
              CallersOf(name)[caller] = SourceCalls(SourceDefs \cap Named(caller), Named(name))
=============================================================================
