----------------------------- MODULE TaskCounts -----------------------------
(***************************************************************************)
(* How many tasks do_main asks for (src/indexer/Main.cc:849-878), how many *)
(* do_indexing starts, and how many workers the pool has for them.  cpus   *)
(* is hardware_concurrency(), flag the value of --max_dop, 0 if it is not  *)
(* given, cmds the number of compile commands.                             *)
(***************************************************************************)
EXTENDS Integers, FiniteSetsExt

Workers(cpus) == cpus * 3

\* 80 % of the CPUs.
DefaultDop(cpus) == Max({1, (cpus * 4) \div 5})

WantedDop(cpus, flag) == IF flag = 0 THEN DefaultDop(cpus) ELSE flag

MaxDop(cpus, flag) == Max({3, Min({WantedDop(cpus, flag), Min({cpus * 3, Workers(cpus)})})})

StoreTasks(cpus, flag) == Max({2, MaxDop(cpus, flag) \div 8})

ParseTasks(cpus, flag) == MaxDop(cpus, flag) - StoreTasks(cpus, flag)

\* Never more parse tasks than commands, and half as many extra store tasks after them.
StartedParseTasks(cpus, flag, cmds) == Min({ParseTasks(cpus, flag), cmds})

StartedExtraStores(cpus, flag, cmds) == StartedParseTasks(cpus, flag, cmds) \div 2
=============================================================================
