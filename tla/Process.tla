------------------------------- MODULE Process -------------------------------
(***************************************************************************)
(* The process manager of lib/c/kernel/process.c.  Programs run in kernel  *)
(* context, and process_exec() saves current_process around the program,   *)
(* so that a program may call process_exec() in its turn: calls nest (with *)
(* MAX_DEPTH = 1 they do not).  Each is a frame of `calls', innermost      *)
(* first, and goes through the stages load, place, args and running.  A    *)
(* stage is one step with all of its error returns; nothing else runs      *)
(* meanwhile.                                                              *)
(*                                                                         *)
(* A heap block is named by what it is for: <<pid, kind, index>>.  The     *)
(* allocator may refuse any request, the file system any file.  What is    *)
(* followed here is which blocks kmalloc() gave out and which of them were *)
(* handed to kfree(); that kfree() returns early for a block that was      *)
(* freed and reused, so that it stays in use, is KHeap's subject.          *)
(***************************************************************************)
EXTENDS Integers, FiniteSets, SequencesExt

CONSTANTS
  MAX_FDS,          \* IPO_MAX_FDS
  MAX_ARGV_COUNT,
  Argcs,            \* the argument counts callers pass
  MAX_PID,          \* bound on next_pid
  MAX_DEPTH         \* bound on the nesting of process_exec()

ASSUME LimitsAssumption ==
  /\ MAX_FDS \in Nat /\ MAX_ARGV_COUNT \in Nat /\ Argcs \subseteq Nat
  /\ MAX_PID \in Nat /\ MAX_DEPTH \in Nat

VARIABLES
  unfreed,          \* the blocks kmalloc() gave out that were not handed to kfree()
  fds,              \* descriptors in use
  process_list,     \* pids, head first
  current_process,  \* a pid, 0 for NULL
  next_pid,
  proc,             \* of a process: is binary_base set, is argv_kernel set, argc
  calls,            \* the process_exec() calls in progress
  ret,              \* what the last one to return returned
  ran               \* history: the processes whose program ran to its end

vars == <<unfreed, fds, process_list, current_process, next_pid, proc, calls, ret, ran>>

Pids == 1 .. MAX_PID
Stages == {"load", "place", "args", "running"}
Kinds == {"proc", "image", "base", "argv", "arg"}
NewProc == [binary_base |-> FALSE, argv_kernel |-> FALSE, argc |-> 0]

Struct(p) == <<p, "proc", 0>>
Image(p)  == <<p, "image", 0>>
Base(p)   == <<p, "base", 0>>
Argv(p)   == <<p, "argv", 0>>
Args(p, n) == {<<p, "arg", i>> : i \in 0 .. (n - 1)}

-----------------------------------------------------------------------------
\* What process_cleanup() hands to kfree().
Frees(p) ==
  {Struct(p)} \cup (IF proc[p].binary_base THEN {Base(p)} ELSE {})
    \cup (IF proc[p].argv_kernel THEN {Argv(p)} \cup Args(p, proc[p].argc) ELSE {})

\* The list without p: the head, or the first match behind it.
Unlinked(p) ==
  IF process_list # <<>> /\ Head(process_list) = p THEN Tail(process_list)
  ELSE RemoveFirst(process_list, p)

\* current_process after the program of frame f has returned.
Restored(f) == f.old

Top == Head(calls)
At(stage) == calls # <<>> /\ Top.pc = stage

\* Move the innermost call on.
Advance(stage) == calls' = <<[Top EXCEPT !.pc = stage]>> \o Tail(calls)

-----------------------------------------------------------------------------
(***************************************************************************)
(* Plausible mistakes, used only to check that the properties notice them. *)
(***************************************************************************)
EveryArgument(argc) == argc
AbortWithoutImage(r, released) ==
  /\ unfreed' = unfreed \ Frees(Top.pid)
  /\ process_list' = Unlinked(Top.pid)
  /\ calls' = Tail(calls) /\ ret' = r
  /\ UNCHANGED <<current_process, next_pid, proc, ran>>

-----------------------------------------------------------------------------
\* process_cleanup() and return r; `released' was freed just before.
Abort(r, released) ==
  /\ unfreed' = (unfreed \ released) \ Frees(Top.pid)
  /\ process_list' = Unlinked(Top.pid)
  /\ calls' = Tail(calls) /\ ret' = r
  /\ UNCHANGED <<current_process, next_pid, proc, ran>>

-----------------------------------------------------------------------------
Init ==
  /\ unfreed = {} /\ fds = 0
  /\ process_list = <<>> /\ current_process = 0 /\ next_pid = 1
  /\ proc = [p \in Pids |-> NewProc]
  /\ calls = <<>> /\ ret = 0 /\ ran = {}

\* The terminal, autorun or a running program calls process_exec().
process_exec(argc) ==
  /\ calls = <<>> \/ At("running")
  /\ \/ ret' = -2 /\ UNCHANGED <<unfreed, process_list, next_pid, calls>>
     \/ /\ next_pid <= MAX_PID /\ Len(calls) < MAX_DEPTH
        /\ unfreed' = unfreed \cup {Struct(next_pid)}
        /\ process_list' = <<next_pid>> \o process_list
        /\ calls' = <<[pid |-> next_pid, pc |-> "load", argc |-> argc, old |-> 0]>> \o calls
        /\ next_pid' = next_pid + 1
        /\ UNCHANGED ret
  /\ UNCHANGED <<fds, current_process, proc, ran>>

\* No such file, a directory, too small or too large; no memory; no
\* descriptor; a read error; a bad header; or the image.
load_ipob_file ==
  /\ At("load")
  /\ \/ Abort(-1, {}) /\ UNCHANGED fds
     \/ Abort(-3, {}) /\ UNCHANGED fds
     \/ fds = MAX_FDS /\ Abort(-4, {}) /\ UNCHANGED fds
     \/ fds < MAX_FDS /\ fds' = fds + 1 /\ \E r \in {-4, -2} : Abort(r, {})
     \/ /\ fds < MAX_FDS /\ fds' = fds + 1
        /\ unfreed' = unfreed \cup {Image(Top.pid)}
        /\ Advance("place")
        /\ UNCHANGED <<process_list, current_process, next_pid, proc, ret, ran>>

\* Memory for the program, the copy, and the end of the temporary image.
allocate_process_memory ==
  /\ At("place")
  /\ \/ Abort(-5, {Image(Top.pid)})
     \/ /\ unfreed' = (unfreed \cup {Base(Top.pid)}) \ {Image(Top.pid)}
        /\ proc' = [proc EXCEPT ![Top.pid].binary_base = TRUE]
        /\ Advance("args")
        /\ UNCHANGED <<process_list, current_process, next_pid, ret, ran>>
  /\ UNCHANGED fds

\* The number of arguments is limited.
Limited(argc) == IF argc > MAX_ARGV_COUNT THEN MAX_ARGV_COUNT ELSE argc

\* n of the argc pointers are copied before a NULL one or the last.
setup_arguments(n) ==
  LET p    == Top.pid
      argc == Limited(Top.argc)
  IN  /\ At("args") /\ n <= argc
      /\ \/ argc > 0 /\ n = 0 /\ Abort(-7, {})                   \* no array
         \/ /\ n < argc                                          \* no copy n
            /\ unfreed' = (unfreed \cup {Argv(p)} \cup Args(p, n)) \ Frees(p)
            /\ process_list' = Unlinked(p)
            /\ calls' = Tail(calls) /\ ret' = -7
            /\ UNCHANGED <<current_process, next_pid, proc, ran>>
         \/ /\ unfreed' = IF argc = 0 THEN unfreed ELSE unfreed \cup {Argv(p)} \cup Args(p, n)
            /\ proc' = [proc EXCEPT ![p].argv_kernel = argc > 0, ![p].argc = n]
            /\ calls' = <<[Top EXCEPT !.pc = "running", !.old = current_process]>> \o Tail(calls)
            /\ current_process' = p
            /\ UNCHANGED <<process_list, next_pid, ret, ran>>
      /\ UNCHANGED fds

\* The entry point returns; the pid is read back from the freed struct,
\* which kfree() has not overwritten.
entry_point_returns ==
  /\ At("running")
  /\ current_process' = Restored(Top)
  /\ unfreed' = unfreed \ Frees(Top.pid)
  /\ process_list' = Unlinked(Top.pid)
  /\ calls' = Tail(calls) /\ ret' = Top.pid
  /\ ran' = ran \cup {Top.pid}
  /\ UNCHANGED <<fds, next_pid, proc>>

Next ==
  \/ \E argc \in Argcs : process_exec(argc)
  \/ load_ipob_file
  \/ allocate_process_memory
  \/ calls # <<>> /\ \E n \in 0 .. Top.argc : setup_arguments(n)
  \/ entry_point_returns

Spec == Init /\ [][Next]_vars

-----------------------------------------------------------------------------
(***************************************************************************)
(* Properties.                                                             *)
(***************************************************************************)
InProgress == {calls[k].pid : k \in DOMAIN calls}

\* Blocks are named after processes, frames hold a stage, ids are bounded.
TypeOK ==
  /\ unfreed \subseteq Pids \X Kinds \X (0 .. MAX_ARGV_COUNT)
  /\ fds \in 0 .. MAX_FDS
  /\ process_list \in Seq(Pids)
  /\ current_process \in Pids \cup {0}
  /\ next_pid \in 1 .. (MAX_PID + 1)
  /\ proc \in [Pids -> [binary_base : BOOLEAN, argv_kernel : BOOLEAN, argc : 0 .. MAX_ARGV_COUNT]]
  /\ calls \in Seq([pid : Pids, pc : Stages, argc : Argcs, old : Pids \cup {0}])
  /\ ret \in Pids \cup (-7 .. 0)
  /\ ran \subseteq Pids

\* Calls nest: the process list is exactly the calls in progress, innermost
\* first, whichever of their error returns nested calls take, and
\* process_get_current() names the innermost program that is running: a
\* nested program that returns or fails to load gives it back.
CallsNest ==
  /\ process_list = [k \in DOMAIN calls |-> calls[k].pid]
  /\ LET running == {k \in DOMAIN calls : calls[k].pc = "running"}
     IN  current_process = IF running = {} THEN 0
                           ELSE calls[CHOOSE k \in running : \A j \in running : k <= j].pid

\* Every block is handed to kfree() once.  Not twice: what process_cleanup()
\* would hand over for a call in progress has not been yet, on no error path
\* and below no running program.  And not never: when a call is over, by
\* whichever return, nothing is left of it but, when a copy of an argument
\* could not be allocated, the array and the copies before it
\* (process.c:106), and of a program that ran not even these.
FreedOnce ==
  /\ \A p \in InProgress : Frees(p) \subseteq unfreed
  /\ \A b \in unfreed : b[1] \in InProgress \/ (b[2] \in {"argv", "arg"} /\ b[1] \notin ran)

=============================================================================
