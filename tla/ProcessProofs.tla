---------------------------- MODULE ProcessProofs ----------------------------
(***************************************************************************)
(* Proofs about Process: for every number of descriptors, arguments and    *)
(* processes and every depth of nesting, process_exec() keeps its list,    *)
(* its current process and what it has still to free in order.             *)
(***************************************************************************)
EXTENDS Process, TLAPS

Frame == [pid : Pids, pc : Stages, argc : Argcs, old : Pids \cup {0}]

(***************************************************************************)
(* The inductive invariant.  Pids are handed out in order and never again, *)
(* so the frames are told apart by them; only the innermost call can be    *)
(* anywhere but in its program, so the others' saved current_process is    *)
(* the pid of the frame behind.                                            *)
(***************************************************************************)
Runner(k) == IF k > Len(calls) THEN 0 ELSE calls[k].pid

Ordered ==
  /\ \A j, k \in 1 .. Len(calls) : j < k => calls[j].pid > calls[k].pid
  /\ \A k \in 1 .. Len(calls) : calls[k].pid < next_pid
Listed == process_list = [k \in 1 .. Len(calls) |-> calls[k].pid]
Suspended == \A k \in 2 .. Len(calls) : calls[k].pc = "running"
Saved ==
  /\ \A k \in 1 .. Len(calls) : calls[k].pc = "running" => calls[k].old = Runner(k + 1)
  /\ current_process = IF At("running") THEN Runner(1) ELSE Runner(2)

\* What a frame's stage says of its process, and which blocks it has.
Staged ==
  /\ \A k \in 1 .. Len(calls) :
       /\ proc[calls[k].pid].binary_base = (calls[k].pc \in {"args", "running"})
       /\ calls[k].pc # "running" => ~proc[calls[k].pid].argv_kernel
  /\ \A p \in Pids : p >= next_pid => proc[p] = NewProc
Owned ==
  \A k \in 1 .. Len(calls) :
    /\ Frees(calls[k].pid) \subseteq unfreed
    /\ \A b \in unfreed : b[1] = calls[k].pid =>
         b \in Frees(calls[k].pid) \/ (calls[k].pc = "place" /\ b = Image(calls[k].pid))
Gone ==
  /\ \A b \in unfreed : b[1] < next_pid /\ b[1] \notin ran
  /\ \A p \in ran : p < next_pid
  /\ \A k \in 1 .. Len(calls) : calls[k].pid \notin ran
\* Of a call that is over only copies of arguments may be left.
Cleaned ==
  \A b \in unfreed : b[2] \in {"argv", "arg"} \/ \E k \in 1 .. Len(calls) : b[1] = calls[k].pid

IInv == TypeOK /\ Ordered /\ Listed /\ Suspended /\ Saved /\ Staged /\ Owned /\ Gone /\ Cleaned

------------------------------------------------------------------------------
(***************************************************************************)
(* Sequences: what the frames are after a push, a pop or a change of the   *)
(* innermost one.                                                          *)
(***************************************************************************)
\* A pushed element is the first, the others move back by one.
LEMMA Pushed ==
  ASSUME NEW S, NEW x \in S, NEW s \in Seq(S)
  PROVE  /\ <<x>> \o s \in Seq(S) /\ Len(<<x>> \o s) = Len(s) + 1
         /\ (<<x>> \o s)[1] = x
         /\ \A k \in 2 .. (Len(s) + 1) : (<<x>> \o s)[k] = s[k - 1]
OBVIOUS

\* Without its first element a sequence has the others, moved up by one.
LEMMA Popped ==
  ASSUME NEW S, NEW s \in Seq(S), s # <<>>
  PROVE  /\ Tail(s) \in Seq(S) /\ Len(s) \in Nat /\ Len(s) > 0 /\ Len(Tail(s)) = Len(s) - 1
         /\ Head(s) = s[1] /\ s[1] \in S
         /\ \A k \in 1 .. (Len(s) - 1) : Tail(s)[k] = s[k + 1]
OBVIOUS

\* The head of a sequence that has one.
LEMMA FirstIsHead ==
  ASSUME NEW S, NEW s \in Seq(S), Len(s) > 0
  PROVE  s # <<>> /\ Head(s) = s[1]
OBVIOUS

\* With another first element the others stay where they are.
LEMMA Replaced ==
  ASSUME NEW S, NEW s \in Seq(S), s # <<>>, NEW x \in S
  PROVE  /\ <<x>> \o Tail(s) \in Seq(S) /\ Len(<<x>> \o Tail(s)) = Len(s)
         /\ (<<x>> \o Tail(s))[1] = x
         /\ \A k \in 2 .. Len(s) : (<<x>> \o Tail(s))[k] = s[k]
<1>1. /\ Tail(s) \in Seq(S) /\ Len(s) \in Nat /\ Len(Tail(s)) = Len(s) - 1
      /\ \A k \in 1 .. (Len(s) - 1) : Tail(s)[k] = s[k + 1]
  BY Popped
<1>2. /\ <<x>> \o Tail(s) \in Seq(S) /\ Len(<<x>> \o Tail(s)) = Len(Tail(s)) + 1
      /\ (<<x>> \o Tail(s))[1] = x
      /\ \A k \in 2 .. (Len(Tail(s)) + 1) : (<<x>> \o Tail(s))[k] = Tail(s)[k - 1]
  BY <1>1, Pushed
<1> QED
  BY <1>1, <1>2

------------------------------------------------------------------------------
(***************************************************************************)
(* Blocks.                                                                 *)
(***************************************************************************)
\* process_cleanup() frees blocks of its own process only.
LEMMA FreesOwn ==
  ASSUME TypeOK, NEW p \in Pids
  PROVE  /\ \A b \in Frees(p) : b[1] = p
         /\ Frees(p) \subseteq Pids \X Kinds \X (0 .. MAX_ARGV_COUNT)
         /\ Image(p) \notin Frees(p)
<1>1. proc[p].argc \in 0 .. MAX_ARGV_COUNT
  BY DEF TypeOK
<1>2. \A b \in Frees(p) :
        \/ b \in {Struct(p), Base(p), Argv(p)}
        \/ \E i \in 0 .. (proc[p].argc - 1) : b = <<p, "arg", i>>
  BY DEF Frees, Args
<1>3. \A i \in 0 .. (proc[p].argc - 1) : i \in 0 .. MAX_ARGV_COUNT
  BY <1>1, LimitsAssumption
<1>4. 0 \in 0 .. MAX_ARGV_COUNT
  BY LimitsAssumption
<1> QED
  BY <1>2, <1>3, <1>4 DEF Struct, Base, Argv, Image, Kinds

\* The frames, as the invariant gives them.
LEMMA Frames ==
  ASSUME TypeOK
  PROVE  /\ calls \in Seq(Frame) /\ Len(calls) \in Nat
         /\ \A k \in 1 .. Len(calls) : calls[k] \in Frame /\ calls[k].pid \in Pids
         /\ calls # <<>> => Len(calls) > 0 /\ Top = calls[1] /\ Top \in Frame
         /\ calls = <<>> => Len(calls) = 0
<1>1. calls \in Seq(Frame)
  BY DEF TypeOK, Frame
<1>2. \A k \in 1 .. Len(calls) : calls[k] \in Frame
  BY <1>1
<1>3. \A c \in Frame : c.pid \in Pids
  BY DEF Frame
<1>4. calls # <<>> => Len(calls) > 0 /\ Top = calls[1]
  BY <1>1 DEF Top
<1> QED
  BY <1>1, <1>2, <1>3, <1>4

\* The innermost call ends: its process leaves the list, its blocks go, the
\* program behind it is the current one again.
LEMMA PopKeeps ==
  ASSUME IInv, calls # <<>>, calls' = Tail(calls),
         process_list' = Unlinked(Top.pid), next_pid' = next_pid, proc' = proc,
         current_process' = Runner(2),
         \A b \in unfreed : b[1] # Top.pid => b \in unfreed',
         \A b \in unfreed' : b \in unfreed \/ b[1] = Top.pid,
         ran \subseteq ran', \A p \in ran' : p \in ran \/ p = Top.pid,
         Top.pid \in ran' => \A b \in unfreed' : b[1] # Top.pid,
         \A b \in unfreed' : b[1] = Top.pid => b[2] \in {"argv", "arg"}
  PROVE  Ordered' /\ Listed' /\ Suspended' /\ Saved' /\ Staged' /\ Owned' /\ Gone' /\ Cleaned'
<1>1. TypeOK
  BY DEF IInv
<1>2. /\ Len(calls) \in Nat /\ Len(calls) > 0 /\ Top = calls[1] /\ calls \in Seq(Frame)
      /\ \A k \in 1 .. Len(calls) : calls[k] \in Frame /\ calls[k].pid \in Pids
  BY <1>1, Frames
<1>3. /\ Len(calls') = Len(calls) - 1
      /\ \A k \in 1 .. Len(calls') : calls'[k] = calls[k + 1]
      /\ calls' \in Seq(Frame)
  BY <1>2, Popped
<1>4. \A k \in 1 .. Len(calls') : k + 1 \in 1 .. Len(calls) /\ 1 < k + 1 /\ calls'[k].pid < Top.pid
  BY <1>2, <1>3 DEF IInv, Ordered, Frame, Pids
<1>5. Ordered'
  BY <1>2, <1>3 DEF IInv, Ordered
<1>6. Listed'
  <2>1. process_list \in Seq(Pids) /\ process_list = [k \in 1 .. Len(calls) |-> calls[k].pid]
    BY <1>1 DEF TypeOK, IInv, Listed
  <2>2. process_list # <<>> /\ Head(process_list) = Top.pid /\ Len(process_list) = Len(calls)
    BY <2>1, <1>2
  <2>3. process_list' = Tail(process_list)
    BY <2>2 DEF Unlinked
  <2>4. Tail(process_list) = [k \in 1 .. (Len(calls) - 1) |-> calls[k + 1].pid]
    BY <2>1, <2>2, <1>2
  <2> QED
    BY <2>3, <2>4, <1>2, <1>3 DEF Listed
<1>7. Suspended'
  BY <1>2, <1>3 DEF IInv, Suspended
<1>8. Saved'
  <2>1. \A k \in 1 .. (Len(calls') + 1) : Runner(k)' = Runner(k + 1)
    BY <1>2, <1>3 DEF Runner
  <2>2. \A k \in 1 .. Len(calls') : calls'[k].pc = "running" /\ calls'[k].old = Runner(k + 2)
    BY <1>2, <1>3 DEF IInv, Suspended, Saved
  <2>3. current_process' = Runner(1)' /\ (Len(calls') = 0 => current_process' = 0)
    BY <2>1, <1>2, <1>3 DEF Runner
  <2>4. Len(calls') > 0 => At("running")'
    <3>1. Len(calls') > 0 => calls' # <<>> /\ Head(calls') = calls'[1]
      BY <1>3, FirstIsHead
    <3>2. Len(calls') > 0 => Head(calls').pc = "running"
      BY <3>1, <2>2, <1>3, <1>2
    <3> QED
      BY <3>1, <3>2 DEF At, Top
  <2>5. Len(calls') = 0 => calls' = <<>> /\ Runner(2)' = 0
    BY <1>2, <1>3 DEF Runner
  <2> QED
    BY <2>1, <2>2, <2>3, <2>4, <2>5, <1>2, <1>3 DEF Saved, At
<1>9. Staged'
  BY <1>2, <1>3, <1>4 DEF IInv, Staged
<1>10. Owned'
  <2>1. \A p \in Pids : Frees(p)' = Frees(p)
    BY DEF Frees
  <2> SUFFICES ASSUME NEW k \in 1 .. Len(calls')
               PROVE  /\ Frees(calls'[k].pid) \subseteq unfreed'
                      /\ \A b \in unfreed' : b[1] = calls'[k].pid => b \in Frees(calls'[k].pid)
    BY <2>1, <1>2, <1>3, <1>4 DEF Owned
  <2>2. PICK p \in Pids : p = calls'[k].pid
    BY <1>2, <1>3, <1>4
  <2>3. p # Top.pid /\ k + 1 \in 1 .. Len(calls) /\ p = calls[k + 1].pid
    BY <1>2, <1>3, <1>4, <2>2 DEF Pids, Frame
  <2>4. calls[k + 1].pc = "running"
    BY <1>2, <1>3, <2>3 DEF IInv, Suspended
  <2>5. \A b \in Frees(p) : b[1] = p
    BY <1>1, FreesOwn
  <2>6. Frees(p) \subseteq unfreed /\ \A b \in unfreed : b[1] = p => b \in Frees(p)
    BY <2>3, <2>4 DEF IInv, Owned
  <2> QED
    BY <2>2, <2>3, <2>5, <2>6
<1>11. Gone'
  <2>1. Top.pid \in Pids /\ Top.pid < next_pid /\ Top.pid \notin ran
    BY <1>2 DEF IInv, Ordered, Gone
  <2>2. \A k \in 1 .. Len(calls') : calls'[k].pid # Top.pid /\ calls'[k].pid \notin ran
    BY <1>2, <1>3, <1>4 DEF IInv, Gone, Pids, Frame
  <2> QED
    BY <2>1, <2>2 DEF IInv, Gone
<1>12. Cleaned'
  <2> SUFFICES ASSUME NEW b \in unfreed', b[2] \notin {"argv", "arg"}
               PROVE  \E k \in 1 .. Len(calls') : b[1] = calls'[k].pid
    BY DEF Cleaned
  <2>1. b \in unfreed /\ b[1] # Top.pid
    OBVIOUS
  <2>2. PICK k \in 1 .. Len(calls) : b[1] = calls[k].pid
    BY <2>1 DEF IInv, Cleaned
  <2>3. k # 1 /\ k - 1 \in 1 .. Len(calls') /\ calls'[k - 1] = calls[k]
    BY <2>1, <2>2, <1>2, <1>3
  <2> QED
    BY <2>2, <2>3
<1> QED
  BY <1>5, <1>6, <1>7, <1>8, <1>9, <1>10, <1>11, <1>12

\* The innermost call moves on to another stage.
LEMMA TopKeeps ==
  ASSUME IInv, calls # <<>>, NEW c \in Frame, calls' = <<c>> \o Tail(calls),
         c.pid = Top.pid, Top.pc # "running",
         process_list' = process_list, next_pid' = next_pid, ran' = ran,
         \A p \in Pids : p # c.pid => proc'[p] = proc[p],
         \A b \in unfreed : b[1] # c.pid => b \in unfreed',
         \A b \in unfreed' : b \in unfreed \/ b[1] = c.pid,
         proc'[c.pid].binary_base = (c.pc \in {"args", "running"}),
         c.pc # "running" => ~proc'[c.pid].argv_kernel,
         c.pc # "running" => current_process' = current_process,
         c.pc = "running" => current_process' = c.pid /\ c.old = current_process,
         Frees(c.pid)' \subseteq unfreed',
         \A b \in unfreed' : b[1] = c.pid =>
           b \in Frees(c.pid)' \/ (c.pc = "place" /\ b = Image(c.pid))
  PROVE  Ordered' /\ Listed' /\ Suspended' /\ Saved' /\ Staged' /\ Owned' /\ Gone' /\ Cleaned'
<1>1. TypeOK
  BY DEF IInv
<1>2. /\ Len(calls) \in Nat /\ Len(calls) > 0 /\ Top = calls[1] /\ calls \in Seq(Frame)
      /\ \A k \in 1 .. Len(calls) : calls[k] \in Frame /\ calls[k].pid \in Pids
  BY <1>1, Frames
<1>3. /\ Len(calls') = Len(calls) /\ calls'[1] = c /\ calls' \in Seq(Frame)
      /\ \A k \in 2 .. Len(calls) : calls'[k] = calls[k]
  BY <1>2, Replaced
<1>4. \A k \in 1 .. Len(calls) : calls'[k].pid = calls[k].pid
  BY <1>2, <1>3
<1>5. \A k \in 2 .. Len(calls) : calls[k].pid < c.pid /\ calls[k].pid # c.pid
  BY <1>2 DEF IInv, Ordered, Pids
<1>6. Ordered' /\ Listed'
  BY <1>2, <1>3, <1>4 DEF IInv, Ordered, Listed
<1>7. Suspended'
  BY <1>2, <1>3 DEF IInv, Suspended
<1>8. Saved'
  <2>1. \A k \in 1 .. (Len(calls) + 1) : Runner(k)' = Runner(k)
    BY <1>2, <1>3, <1>4 DEF Runner
  <2>2. current_process = Runner(2)
    BY DEF IInv, Saved, At
  <2>3. calls' # <<>> /\ Head(calls') = c
    BY <1>2, <1>3, FirstIsHead
  <2>4. current_process' = IF At("running")' THEN Runner(1)' ELSE Runner(2)'
    <3>1. Runner(1)' = c.pid /\ Runner(2)' = Runner(2)
      BY <2>1, <1>2, <1>3 DEF Runner
    <3>2. At("running")' <=> c.pc = "running"
      BY <2>3 DEF At, Top
    <3> QED
      BY <2>2, <3>1, <3>2
  <2>5. ASSUME NEW k \in 1 .. Len(calls'), calls'[k].pc = "running"
        PROVE  calls'[k].old = Runner(k + 1)'
    <3>1. CASE k = 1
      BY <3>1, <2>1, <2>2, <2>5, <1>2, <1>3
    <3>2. CASE k # 1
      <4>1. k \in 2 .. Len(calls) /\ k + 1 \in 1 .. (Len(calls) + 1) /\ calls'[k] = calls[k]
        BY <3>2, <1>2, <1>3
      <4> QED
        BY <4>1, <2>1, <2>5 DEF IInv, Saved
    <3> QED
      BY <3>1, <3>2
  <2> QED
    BY <2>4, <2>5 DEF Saved
<1>9. Staged'
  <2>1. \A k \in 2 .. Len(calls) : proc'[calls[k].pid] = proc[calls[k].pid]
    BY <1>2, <1>5
  <2>2. \A p \in Pids : p >= next_pid => p # c.pid
    <3>1. c.pid < next_pid /\ c.pid \in Pids /\ next_pid \in Nat
      BY <1>1, <1>2 DEF IInv, Ordered, TypeOK
    <3> QED
      BY <3>1 DEF Pids
  <2>3. ASSUME NEW k \in 1 .. Len(calls')
        PROVE  /\ proc'[calls'[k].pid].binary_base = (calls'[k].pc \in {"args", "running"})
               /\ calls'[k].pc # "running" => ~proc'[calls'[k].pid].argv_kernel
    <3>1. CASE k = 1
      BY <3>1, <1>3
    <3>2. CASE k # 1
      BY <3>2, <2>1, <1>2, <1>3 DEF IInv, Staged
    <3> QED
      BY <3>1, <3>2
  <2> QED
    BY <2>2, <2>3 DEF IInv, Staged
<1>10. Owned'
  <2>1. \A p \in Pids : p # c.pid => Frees(p)' = Frees(p)
    BY DEF Frees
  <2> SUFFICES ASSUME NEW k \in 1 .. Len(calls'), NEW p \in Pids, p = calls'[k].pid
               PROVE  /\ Frees(p)' \subseteq unfreed'
                      /\ \A b \in unfreed' : b[1] = p =>
                           b \in Frees(p)' \/ (calls'[k].pc = "place" /\ b = Image(p))
    BY <1>2, <1>3, <1>4 DEF Owned
  <2>2. CASE k = 1
    BY <2>2, <1>3
  <2>3. CASE k # 1
    <3>1. k \in 2 .. Len(calls) /\ calls'[k] = calls[k] /\ p # c.pid
      BY <2>3, <1>2, <1>3, <1>5
    <3>2. Frees(p)' = Frees(p) /\ \A b \in Frees(p) : b[1] = p
      BY <3>1, <2>1, <1>1, FreesOwn
    <3>3. /\ Frees(p) \subseteq unfreed
          /\ \A b \in unfreed : b[1] = p => b \in Frees(p) \/ (calls[k].pc = "place" /\ b = Image(p))
      BY <3>1, <1>2 DEF IInv, Owned
    <3> QED
      BY <3>1, <3>2, <3>3
  <2> QED
    BY <2>2, <2>3
<1>11. Gone'
  <2>1. c.pid < next_pid /\ c.pid \notin ran
    BY <1>2 DEF IInv, Ordered, Gone
  <2> QED
    BY <2>1, <1>2, <1>3, <1>4 DEF IInv, Gone
<1>12. Cleaned'
  <2>1. Len(calls') = Len(calls) /\ 1 \in 1 .. Len(calls) /\ calls[1].pid = c.pid
    BY <1>2, <1>3
  <2> QED
    BY <2>1, <1>4 DEF IInv, Cleaned
<1> QED
  BY <1>6, <1>7, <1>8, <1>9, <1>10, <1>11, <1>12

\* process_cleanup() on the error returns of a call that does not run yet.
LEMMA AbortKeeps ==
  ASSUME IInv, calls # <<>>, Top.pc # "running",
         NEW r, NEW released \in SUBSET {Image(Top.pid)}, Abort(r, released),
         Top.pc = "place" => released = {Image(Top.pid)}
  PROVE  Ordered' /\ Listed' /\ Suspended' /\ Saved' /\ Staged' /\ Owned' /\ Gone' /\ Cleaned'
<1>1. TypeOK /\ Top \in Frame /\ Top.pid \in Pids /\ Top = calls[1] /\ Len(calls) > 0
  BY Frames DEF IInv, Frame
<1>2. \A b \in released \cup Frees(Top.pid) : b[1] = Top.pid
  <2>1. \A b \in Frees(Top.pid) : b[1] = Top.pid
    BY <1>1, FreesOwn
  <2> QED
    BY <2>1 DEF Image
<1>3. current_process' = Runner(2)
  BY DEF Abort, IInv, Saved, At
<1>4. unfreed' \subseteq unfreed /\ \A b \in unfreed : b[1] # Top.pid => b \in unfreed'
  BY <1>2 DEF Abort
<1>5. Top.pid \notin ran'
  BY <1>1, Frames DEF Abort, IInv, Gone
<1>6. \A b \in unfreed' : b[1] # Top.pid
  <2>1. \A b \in unfreed : b[1] = Top.pid =>
          b \in Frees(Top.pid) \/ (Top.pc = "place" /\ b = Image(Top.pid))
    BY <1>1, Frames DEF IInv, Owned
  <2> QED
    BY <2>1 DEF Abort
<1> QED
  BY <1>3, <1>4, <1>5, <1>6, PopKeeps DEF Abort

------------------------------------------------------------------------------
(***************************************************************************)
(* One lemma per action.                                                   *)
(***************************************************************************)
LEMMA InitIInv == Init => IInv
<1> SUFFICES ASSUME Init PROVE IInv
  OBVIOUS
<1>1. Len(calls) = 0 /\ calls = <<>> /\ unfreed = {} /\ ran = {}
  BY DEF Init
<1>2. TypeOK
  BY <1>1, LimitsAssumption DEF Init, TypeOK, NewProc, Pids
<1>3. Listed
  BY <1>1 DEF Init, Listed
<1>4. Saved
  BY <1>1 DEF Init, Saved, Runner, At
<1> QED
  BY <1>1, <1>2, <1>3, <1>4 DEF Init, IInv, Ordered, Suspended, Staged, Owned, Gone, Cleaned

LEMMA ExecKeeps ==
  ASSUME IInv, NEW argc \in Argcs, process_exec(argc)
  PROVE  IInv'
<1>1. TypeOK /\ next_pid \in Nat
  BY DEF IInv, TypeOK
<1>2. /\ Len(calls) \in Nat /\ calls \in Seq(Frame)
      /\ \A k \in 1 .. Len(calls) : calls[k] \in Frame /\ calls[k].pid \in Pids
  BY <1>1, Frames
<1>3. CASE ret' = -2 /\ UNCHANGED <<unfreed, process_list, next_pid, calls>>
  <2>1. UNCHANGED <<unfreed, process_list, next_pid, calls, fds, current_process, proc, ran>>
    BY <1>3 DEF process_exec
  <2>2. TypeOK'
    BY <2>1, <1>3, <1>1 DEF TypeOK
  <2> QED
    BY <2>1, <2>2 DEF IInv, Ordered, Listed, Suspended, Saved, Staged, Owned, Gone, Cleaned,
                      Runner, At, Top, Frees
<1>4. CASE /\ next_pid <= MAX_PID /\ Len(calls) < MAX_DEPTH
           /\ unfreed' = unfreed \cup {Struct(next_pid)}
           /\ process_list' = <<next_pid>> \o process_list
           /\ calls' = <<[pid |-> next_pid, pc |-> "load", argc |-> argc, old |-> 0]>> \o calls
           /\ next_pid' = next_pid + 1
           /\ UNCHANGED ret
  <2> DEFINE c == [pid |-> next_pid, pc |-> "load", argc |-> argc, old |-> 0]
  <2>1. UNCHANGED <<fds, current_process, proc, ran, ret>>
    BY <1>4 DEF process_exec
  <2>2. next_pid \in Pids /\ c \in Frame /\ c.pid = next_pid /\ c.pc = "load"
    BY <1>1, <1>4 DEF Pids, Frame, Stages, TypeOK
  <2>3. /\ Len(calls') = Len(calls) + 1 /\ calls'[1] = c /\ calls' \in Seq(Frame)
        /\ \A k \in 2 .. Len(calls') : calls'[k] = calls[k - 1]
    BY <2>2, <1>2, <1>4, Pushed
  <2> HIDE DEF c
  <2>14. \A k \in 1 .. Len(calls') :
           \/ k = 1 /\ calls'[k] = c
           \/ k # 1 /\ k - 1 \in 1 .. Len(calls) /\ calls'[k] = calls[k - 1]
    BY <2>3, <1>2
  <2>4. /\ process_list' \in Seq(Pids) /\ Len(process_list') = Len(process_list) + 1
        /\ process_list'[1] = next_pid
        /\ \A k \in 2 .. Len(process_list') : process_list'[k] = process_list[k - 1]
    BY <2>2, <1>1, <1>4, Pushed DEF TypeOK
  <2>5. TypeOK'
    <3>1. Struct(next_pid) \in Pids \X Kinds \X (0 .. MAX_ARGV_COUNT)
      BY <2>2, LimitsAssumption DEF Struct, Kinds
    <3>2. next_pid' \in 1 .. (MAX_PID + 1)
      BY <1>1, <1>4, LimitsAssumption DEF TypeOK
    <3> QED
      BY <3>1, <3>2, <2>1, <2>3, <2>4, <1>1, <1>4 DEF TypeOK, Frame
  <2>6. Ordered'
    <3>1. \A k \in 1 .. Len(calls) : calls[k].pid < next_pid /\ calls[k].pid \in Int
      BY <1>2 DEF IInv, Ordered, Pids
    <3>2. ASSUME NEW k \in 1 .. Len(calls') PROVE calls'[k].pid < next_pid'
      <4>1. next_pid' = next_pid + 1
        BY <1>4
      <4>2. CASE k = 1
        BY <4>1, <4>2, <2>2, <2>3, <1>1
      <4>3. CASE k # 1
        <5>1. k - 1 \in 1 .. Len(calls) /\ calls'[k] = calls[k - 1]
          BY <4>3, <2>14
        <5> QED
          BY <5>1, <4>1, <3>1, <1>1
      <4> QED
        BY <4>2, <4>3
    <3>3. \A j, k \in 1 .. Len(calls') : j < k => calls'[j].pid > calls'[k].pid
      <4> SUFFICES ASSUME NEW j \in 1 .. Len(calls'), NEW k \in 1 .. Len(calls'), j < k
                   PROVE  calls'[j].pid > calls'[k].pid
        OBVIOUS
      <4>1. k # 1 /\ calls'[k] = calls[k - 1] /\ k - 1 \in 1 .. Len(calls)
        BY <2>14
      <4>2. CASE j = 1
        BY <4>1, <4>2, <3>1, <2>2, <2>3, <1>1
      <4>3. CASE j # 1
        <5>1. calls'[j] = calls[j - 1] /\ j - 1 \in 1 .. Len(calls) /\ j - 1 < k - 1
          BY <4>3, <2>14
        <5> QED
          BY <5>1, <4>1 DEF IInv, Ordered
      <4> QED
        BY <4>2, <4>3
    <3> QED
      BY <3>2, <3>3 DEF Ordered
  <2>7. Listed'
    <3>1. process_list = [k \in 1 .. Len(calls) |-> calls[k].pid]
      BY DEF IInv, Listed
    <3>2. Len(process_list) = Len(calls)
      BY <3>1, <1>2, <1>1 DEF TypeOK
    <3>3. ASSUME NEW k \in 1 .. Len(calls') PROVE process_list'[k] = calls'[k].pid
      <4>1. CASE k = 1
        BY <4>1, <2>2, <2>3, <2>4
      <4>2. CASE k # 1
        <5>1. k - 1 \in 1 .. Len(calls) /\ calls'[k] = calls[k - 1]
          BY <4>2, <2>14
        <5>2. k \in 2 .. Len(process_list')
          BY <4>2, <3>2, <2>3, <2>4, <1>2
        <5> QED
          BY <5>1, <5>2, <3>1, <2>4
      <4> QED
        BY <4>1, <4>2
    <3>4. process_list' = [k \in 1 .. Len(process_list') |-> process_list'[k]]
      BY <2>4
    <3> QED
      BY <3>2, <3>3, <3>4, <2>3, <2>4 DEF Listed
  <2>8. \A k \in 1 .. Len(calls) : calls[k].pc = "running"
    <3>1. calls = <<>> => Len(calls) = 0
      OBVIOUS
    <3>2. calls # <<>> => calls[1].pc = "running"
      BY <1>1, Frames DEF process_exec, At
    <3> QED
      BY <3>1, <3>2, <1>2 DEF IInv, Suspended
  <2>9. Suspended'
    BY <2>14, <2>8, <1>2 DEF Suspended
  <2>10. Saved'
    <3>1. \A k \in 1 .. Len(calls') : Runner(k + 1)' = Runner(k)
      BY <2>3, <1>2 DEF Runner
    <3>2. current_process = Runner(1)
      BY <1>2, <2>8 DEF IInv, Saved, Runner, process_exec, At
    <3>3. ~At("running")'
      <4>1. Head(calls') = c
        BY <2>3, FirstIsHead, <1>2
      <4> QED
        BY <4>1, <2>2 DEF At, Top
    <3>4. Runner(2)' = Runner(1)
      BY <3>1, <2>3, <1>2
    <3>5. \A k \in 1 .. Len(calls) : calls[k].old = Runner(k + 1)
      BY <2>8 DEF IInv, Saved
    <3>6. \A k \in 2 .. Len(calls') : calls'[k].old = Runner(k + 1)'
      <4> SUFFICES ASSUME NEW k \in 2 .. Len(calls') PROVE calls'[k].old = Runner(k + 1)'
        OBVIOUS
      <4>1. k - 1 \in 1 .. Len(calls) /\ calls'[k] = calls[k - 1] /\ k \in 1 .. Len(calls')
        BY <2>3, <1>2
      <4>2. calls[k - 1].old = Runner((k - 1) + 1) /\ (k - 1) + 1 = k
        BY <4>1, <3>5
      <4> QED
        BY <4>1, <4>2, <3>1
    <3> QED
      BY <3>2, <3>3, <3>4, <3>6, <2>1, <2>2, <2>3, <1>2 DEF Saved
  <2>11. Staged'
    <3>1. proc[next_pid] = NewProc
      BY <2>2, <1>1 DEF IInv, Staged
    <3>2. \A p \in Pids : p >= next_pid' => proc'[p] = NewProc
      <4>1. next_pid' = next_pid + 1 /\ proc' = proc
        BY <1>4, <2>1
      <4>2. \A p \in Pids : p >= next_pid => proc[p] = NewProc
        BY DEF IInv, Staged
      <4> QED
        BY <4>1, <4>2, <1>1 DEF Pids
    <3>3. ASSUME NEW k \in 1 .. Len(calls')
          PROVE  /\ proc'[calls'[k].pid].binary_base = (calls'[k].pc \in {"args", "running"})
                 /\ calls'[k].pc # "running" => ~proc'[calls'[k].pid].argv_kernel
      <4>1. CASE k = 1
        <5>1. calls'[k] = c /\ proc' = proc
          BY <4>1, <2>1, <2>3
        <5>2. ~proc'[calls'[k].pid].binary_base /\ ~proc'[calls'[k].pid].argv_kernel
          BY <5>1, <3>1, <2>2 DEF NewProc
        <5>3. proc'[calls'[k].pid].binary_base \in BOOLEAN
          BY <5>1, <2>2, <1>1 DEF TypeOK
        <5>4. calls'[k].pc \notin {"args", "running"}
          BY <5>1, <2>2
        <5> QED
          BY <5>2, <5>3, <5>4
      <4>2. CASE k # 1
        <5>1. k - 1 \in 1 .. Len(calls) /\ calls'[k] = calls[k - 1] /\ proc' = proc
          BY <4>2, <2>1, <2>14
        <5> QED
          BY <5>1 DEF IInv, Staged
      <4> QED
        BY <4>1, <4>2
    <3> QED
      BY <3>2, <3>3 DEF Staged
  <2>12. Owned'
    <3>1. \A p \in Pids : Frees(p)' = Frees(p)
      BY <2>1 DEF Frees
    <3>2. Frees(next_pid) = {Struct(next_pid)}
      BY <2>2, <1>1 DEF IInv, Staged, NewProc, Frees
    <3>3. \A b \in unfreed : b[1] # next_pid
      BY <1>1 DEF IInv, Gone
    <3> SUFFICES ASSUME NEW k \in 1 .. Len(calls'), NEW p \in Pids, p = calls'[k].pid
                 PROVE  /\ Frees(p) \subseteq unfreed'
                        /\ \A b \in unfreed' : b[1] = p =>
                             b \in Frees(p) \/ (calls'[k].pc = "place" /\ b = Image(p))
      <4>1. \A k \in 1 .. Len(calls') : calls'[k].pid \in Pids
        BY <2>14, <2>2, <1>2
      <4> QED
        BY <4>1, <3>1 DEF Owned
    <3>4. CASE k = 1
      BY <3>4, <3>2, <3>3, <2>2, <2>3, <1>4 DEF Struct
    <3>5. CASE k # 1
      <4>1. k - 1 \in 1 .. Len(calls) /\ calls'[k] = calls[k - 1] /\ p # next_pid
        BY <3>5, <2>3, <1>1, <1>2 DEF IInv, Ordered
      <4>2. Struct(next_pid)[1] = next_pid
        BY DEF Struct
      <4> QED
        BY <4>1, <4>2, <1>4 DEF IInv, Owned
    <3> QED
      BY <3>4, <3>5
  <2>13. Gone'
    <3>1. Struct(next_pid)[1] = next_pid /\ next_pid \notin ran
      BY <1>1 DEF Struct, IInv, Gone
    <3>2. \A b \in unfreed : b[1] \in Int
      BY <1>1 DEF TypeOK, Pids
    <3>3. \A p \in ran : p \in Int
      BY <1>1 DEF TypeOK, Pids
    <3>4. \A k \in 1 .. Len(calls') : calls'[k].pid \notin ran
      BY <3>1, <2>2, <2>14 DEF IInv, Gone
    <3> QED
      BY <3>1, <3>2, <3>3, <3>4, <2>1, <1>1, <1>4 DEF IInv, Gone
  <2>15. Cleaned'
    <3> SUFFICES ASSUME NEW b \in unfreed', b[2] \notin {"argv", "arg"}
                 PROVE  \E k \in 1 .. Len(calls') : b[1] = calls'[k].pid
      BY DEF Cleaned
    <3>1. CASE b = Struct(next_pid)
      <4>1. b[1] = next_pid /\ 1 \in 1 .. Len(calls') /\ calls'[1].pid = next_pid
        BY <3>1, <2>2, <2>3, <1>2 DEF Struct
      <4> QED
        BY <4>1
    <3>2. CASE b # Struct(next_pid)
      <4>1. PICK k \in 1 .. Len(calls) : b[1] = calls[k].pid
        BY <3>2, <1>4 DEF IInv, Cleaned
      <4>2. k + 1 \in 1 .. Len(calls') /\ calls'[k + 1] = calls[k]
        BY <2>3, <1>2
      <4> QED
        BY <4>1, <4>2
    <3> QED
      BY <3>1, <3>2
  <2> QED
    BY <2>5, <2>6, <2>7, <2>9, <2>10, <2>11, <2>12, <2>13, <2>15 DEF IInv
<1> QED
  BY <1>3, <1>4 DEF process_exec

\* A cleaned up call leaves a well-typed state.
LEMMA PopTypes ==
  ASSUME IInv, calls # <<>>, calls' = Tail(calls), process_list' = Unlinked(Top.pid)
  PROVE  calls' \in Seq(Frame) /\ process_list' \in Seq(Pids)
<1>1. TypeOK
  BY DEF IInv
<1>2. calls \in Seq(Frame) /\ Len(calls) \in Nat /\ Len(calls) > 0 /\ Top = calls[1]
  BY <1>1, Frames
<1>3. process_list \in Seq(Pids) /\ process_list = [k \in 1 .. Len(calls) |-> calls[k].pid]
  BY <1>1 DEF TypeOK, IInv, Listed
<1>4. process_list # <<>> /\ Head(process_list) = Top.pid
  BY <1>2, <1>3
<1> QED
  BY <1>2, <1>3, <1>4, Popped DEF Unlinked

\* So does an error return.
LEMMA AbortTypes ==
  ASSUME IInv, calls # <<>>, NEW r \in -7 .. 0, NEW released, Abort(r, released),
         fds' \in 0 .. MAX_FDS
  PROVE  TypeOK'
<1>1. calls' \in Seq(Frame) /\ process_list' \in Seq(Pids)
  BY PopTypes DEF Abort
<1> QED
  BY <1>1 DEF IInv, TypeOK, Abort, Frame

LEMMA LoadKeeps ==
  ASSUME IInv, load_ipob_file
  PROVE  IInv'
<1>1. TypeOK /\ calls # <<>> /\ Top.pc = "load"
  BY DEF IInv, load_ipob_file, At
<1>2. /\ Len(calls) > 0 /\ Top = calls[1] /\ Top \in Frame /\ Top.pid \in Pids
      /\ calls \in Seq(Frame) /\ 1 \in 1 .. Len(calls)
  BY <1>1, Frames DEF Frame
<1>3. fds' \in 0 .. MAX_FDS
  BY <1>1, LimitsAssumption DEF load_ipob_file, TypeOK
<1>4. ASSUME NEW r \in -7 .. 0, Abort(r, {})
      PROVE  IInv'
  BY <1>1, <1>3, <1>4, AbortTypes, AbortKeeps DEF IInv
<1>5. CASE /\ unfreed' = unfreed \cup {Image(Top.pid)}
           /\ Advance("place")
           /\ UNCHANGED <<process_list, current_process, next_pid, proc, ret, ran>>
  <2>1. PICK c \in Frame : c.pid = Top.pid /\ c.pc = "place" /\ calls' = <<c>> \o Tail(calls)
    <3>1. [Top EXCEPT !.pc = "place"] \in Frame
      BY <1>2 DEF Frame, Stages
    <3> QED
      BY <3>1, <1>2, <1>5 DEF Frame, Advance
  <2>2. calls' \in Seq(Frame)
    BY <2>1, <1>1, <1>2, Replaced
  <2>3. Image(Top.pid) \in Pids \X Kinds \X (0 .. MAX_ARGV_COUNT) /\ Image(Top.pid)[1] = Top.pid
    BY <1>2, LimitsAssumption DEF Image, Kinds
  <2>4. TypeOK'
    BY <2>2, <2>3, <1>1, <1>3, <1>5 DEF TypeOK, Frame
  <2>5. ~proc[c.pid].binary_base /\ ~proc[c.pid].argv_kernel
    BY <2>1, <1>1, <1>2 DEF IInv, Staged
  <2>6. proc[c.pid].binary_base = (c.pc \in {"args", "running"})
    <3>1. c.pc \notin {"args", "running"} /\ proc[c.pid].binary_base \in BOOLEAN
      BY <2>1, <1>1, <1>2 DEF TypeOK
    <3> QED
      BY <3>1, <2>5
  <2>7. Frees(c.pid)' = Frees(c.pid)
    BY <1>5 DEF Frees
  <2>8. /\ Frees(Top.pid) \subseteq unfreed
        /\ \A b \in unfreed : b[1] = Top.pid => b \in Frees(Top.pid)
    BY <1>1, <1>2 DEF IInv, Owned
  <2>9. Ordered' /\ Listed' /\ Suspended' /\ Saved' /\ Staged' /\ Owned' /\ Gone' /\ Cleaned'
    BY <2>1, <2>3, <2>5, <2>6, <2>7, <2>8, <1>1, <1>5, TopKeeps
  <2> QED
    BY <2>4, <2>9 DEF IInv
<1>6. \A r \in {-1, -2, -3, -4} : r \in -7 .. 0
  OBVIOUS
<1> QED
  BY <1>4, <1>5, <1>6 DEF load_ipob_file

LEMMA AllocateKeeps ==
  ASSUME IInv, allocate_process_memory
  PROVE  IInv'
<1>1. TypeOK /\ calls # <<>> /\ Top.pc = "place"
  BY DEF IInv, allocate_process_memory, At
<1>2. /\ Len(calls) > 0 /\ Top = calls[1] /\ Top \in Frame /\ Top.pid \in Pids
      /\ calls \in Seq(Frame) /\ 1 \in 1 .. Len(calls)
  BY <1>1, Frames DEF Frame
<1>3. fds' = fds /\ fds' \in 0 .. MAX_FDS
  BY <1>1 DEF allocate_process_memory, TypeOK
<1>4. CASE Abort(-5, {Image(Top.pid)})
  BY <1>1, <1>3, <1>4, AbortTypes, AbortKeeps DEF IInv
<1>5. CASE /\ unfreed' = (unfreed \cup {Base(Top.pid)}) \ {Image(Top.pid)}
           /\ proc' = [proc EXCEPT ![Top.pid].binary_base = TRUE]
           /\ Advance("args")
           /\ UNCHANGED <<process_list, current_process, next_pid, ret, ran>>
  <2>1. PICK c \in Frame : c.pid = Top.pid /\ c.pc = "args" /\ calls' = <<c>> \o Tail(calls)
    <3>1. [Top EXCEPT !.pc = "args"] \in Frame
      BY <1>2 DEF Frame, Stages
    <3> QED
      BY <3>1, <1>2, <1>5 DEF Frame, Advance
  <2>2. calls' \in Seq(Frame)
    BY <2>1, <1>1, <1>2, Replaced
  <2>3. Base(Top.pid) \in Pids \X Kinds \X (0 .. MAX_ARGV_COUNT) /\ Base(Top.pid)[1] = Top.pid
    BY <1>2, LimitsAssumption DEF Base, Kinds
  <2>4. proc' \in [Pids -> [binary_base : BOOLEAN, argv_kernel : BOOLEAN, argc : 0 .. MAX_ARGV_COUNT]]
    BY <1>1, <1>2, <1>5 DEF TypeOK
  <2>5. TypeOK'
    BY <2>2, <2>3, <2>4, <1>1, <1>3, <1>5 DEF TypeOK, Frame
  <2>6. ~proc[c.pid].binary_base /\ ~proc[c.pid].argv_kernel
    BY <2>1, <1>1, <1>2 DEF IInv, Staged
  <2>7. /\ proc'[c.pid].binary_base = TRUE /\ ~proc'[c.pid].argv_kernel
        /\ \A p \in Pids : p # c.pid => proc'[p] = proc[p]
    BY <2>1, <2>6, <1>1, <1>2, <1>5 DEF TypeOK
  <2>8. Frees(c.pid) = {Struct(c.pid)} /\ Frees(c.pid)' = {Struct(c.pid), Base(c.pid)}
    BY <2>6, <2>7 DEF Frees
  <2>9. /\ Frees(c.pid) \subseteq unfreed
        /\ \A b \in unfreed : b[1] = c.pid => b \in Frees(c.pid) \/ b = Image(c.pid)
    BY <2>1, <1>1, <1>2 DEF IInv, Owned
  <2>10. /\ Struct(c.pid) # Image(c.pid) /\ Base(c.pid) # Image(c.pid) /\ Base(c.pid)[1] = c.pid
         /\ Image(c.pid)[1] = c.pid
    BY DEF Struct, Image, Base
  <2>11. unfreed' = (unfreed \cup {Base(c.pid)}) \ {Image(c.pid)}
    BY <2>1, <1>5
  <2>12. Frees(c.pid)' \subseteq unfreed' /\ \A b \in unfreed' : b[1] = c.pid => b \in Frees(c.pid)'
    BY <2>8, <2>9, <2>10, <2>11
  <2>13. /\ \A b \in unfreed : b[1] # c.pid => b \in unfreed'
         /\ \A b \in unfreed' : b \in unfreed \/ b[1] = c.pid
    BY <2>10, <2>11
  <2>14. proc'[c.pid].binary_base = (c.pc \in {"args", "running"})
    BY <2>1, <2>7
  <2>15. Ordered' /\ Listed' /\ Suspended' /\ Saved' /\ Staged' /\ Owned' /\ Gone' /\ Cleaned'
    BY <2>1, <2>7, <2>12, <2>13, <2>14, <1>1, <1>5, TopKeeps
  <2> QED
    BY <2>5, <2>15 DEF IInv
<1> QED
  BY <1>4, <1>5 DEF allocate_process_memory

LEMMA SetupKeeps ==
  ASSUME IInv, NEW n \in Nat, setup_arguments(n)
  PROVE  IInv'
<1>1. TypeOK /\ calls # <<>> /\ Top.pc = "args"
  BY DEF IInv, setup_arguments, At
<1>2. /\ Len(calls) > 0 /\ Top = calls[1] /\ Top \in Frame /\ Top.pid \in Pids
      /\ calls \in Seq(Frame) /\ 1 \in 1 .. Len(calls) /\ Top.argc \in Nat
  <2>1. /\ Len(calls) > 0 /\ Top = calls[1] /\ Top \in Frame /\ Len(calls) \in Nat
        /\ calls \in Seq(Frame)
    BY <1>1, Frames
  <2>2. Top.pid \in Pids /\ Top.argc \in Argcs
    BY <2>1 DEF Frame
  <2>3. Argcs \subseteq Nat
    BY LimitsAssumption
  <2>4. 1 \in 1 .. Len(calls)
    BY <2>1
  <2> QED
    BY <2>1, <2>2, <2>3, <2>4
<1>3. fds' = fds /\ fds' \in 0 .. MAX_FDS
  BY <1>1 DEF setup_arguments, TypeOK
<1>4. PICK p \in Pids : p = Top.pid
  BY <1>2
<1>5. PICK argc \in 0 .. MAX_ARGV_COUNT : argc = Limited(Top.argc)
  BY <1>2, LimitsAssumption DEF Limited
<1>6. n <= argc /\ n \in 0 .. MAX_ARGV_COUNT
  BY <1>5, LimitsAssumption DEF setup_arguments
<1>7. /\ {Argv(p)} \cup Args(p, n) \subseteq Pids \X Kinds \X (0 .. MAX_ARGV_COUNT)
      /\ \A b \in {Argv(p)} \cup Args(p, n) : b[1] = p
  BY <1>6, LimitsAssumption DEF Argv, Args, Kinds
<1>8. proc[p].binary_base /\ ~proc[p].argv_kernel
  BY <1>1, <1>2, <1>4 DEF IInv, Staged
<1>9. /\ Frees(p) \subseteq unfreed /\ \A b \in unfreed : b[1] = p => b \in Frees(p)
      /\ Frees(p) = {Struct(p), Base(p)}
  BY <1>1, <1>2, <1>4, <1>8 DEF IInv, Owned, Frees
<1>10. CASE Abort(-7, {})
  BY <1>1, <1>3, <1>10, AbortTypes, AbortKeeps DEF IInv
<1>11. CASE /\ unfreed' = (unfreed \cup {Argv(p)} \cup Args(p, n)) \ Frees(p)
            /\ process_list' = Unlinked(p)
            /\ calls' = Tail(calls) /\ ret' = -7
            /\ UNCHANGED <<current_process, next_pid, proc, ran>>
  <2>1. calls' \in Seq(Frame) /\ process_list' \in Seq(Pids)
    BY <1>1, <1>4, <1>11, PopTypes
  <2>2. TypeOK'
    BY <2>1, <1>1, <1>3, <1>7, <1>11 DEF TypeOK, Frame
  <2>3. current_process' = Runner(2)
    BY <1>1, <1>11 DEF IInv, Saved, At
  <2>4. /\ \A b \in unfreed : b[1] # p => b \in unfreed'
        /\ \A b \in unfreed' : b \in unfreed \/ b[1] = p
    BY <1>1, <1>7, <1>11, FreesOwn
  <2>5. p \notin ran'
    BY <1>2, <1>4, <1>11 DEF IInv, Gone
  <2>7. \A b \in unfreed' : b[1] = p => b[2] \in {"argv", "arg"}
    <3>1. \A b \in {Argv(p)} \cup Args(p, n) : b[2] \in {"argv", "arg"}
      BY DEF Argv, Args
    <3> QED
      BY <3>1, <1>9, <1>11
  <2>6. Ordered' /\ Listed' /\ Suspended' /\ Saved' /\ Staged' /\ Owned' /\ Gone' /\ Cleaned'
    BY <2>3, <2>4, <2>5, <2>7, <1>1, <1>4, <1>11, PopKeeps
  <2> QED
    BY <2>2, <2>6 DEF IInv
<1>12. CASE /\ unfreed' = IF argc = 0 THEN unfreed ELSE unfreed \cup {Argv(p)} \cup Args(p, n)
            /\ proc' = [proc EXCEPT ![p].argv_kernel = argc > 0, ![p].argc = n]
            /\ calls' = <<[Top EXCEPT !.pc = "running", !.old = current_process]>> \o Tail(calls)
            /\ current_process' = p
            /\ UNCHANGED <<process_list, next_pid, ret, ran>>
  <2>1. PICK c \in Frame : /\ c.pid = p /\ c.pc = "running" /\ c.old = current_process
                           /\ calls' = <<c>> \o Tail(calls)
    <3>1. [Top EXCEPT !.pc = "running", !.old = current_process] \in Frame
      BY <1>1, <1>2 DEF Frame, Stages, TypeOK
    <3> QED
      BY <3>1, <1>2, <1>4, <1>12 DEF Frame
  <2>2. calls' \in Seq(Frame)
    BY <2>1, <1>1, <1>2, Replaced
  <2>3. proc' \in [Pids -> [binary_base : BOOLEAN, argv_kernel : BOOLEAN, argc : 0 .. MAX_ARGV_COUNT]]
    <3>1. (argc > 0) \in BOOLEAN
      OBVIOUS
    <3> QED
      BY <3>1, <1>1, <1>6, <1>12 DEF TypeOK
  <2>4. TypeOK'
    <3>1. unfreed' \subseteq Pids \X Kinds \X (0 .. MAX_ARGV_COUNT)
      BY <1>1, <1>7, <1>12 DEF TypeOK
    <3> QED
      BY <3>1, <2>2, <2>3, <1>1, <1>3, <1>4, <1>12 DEF TypeOK, Frame
  <2>5. /\ proc'[p].binary_base = proc[p].binary_base
        /\ proc'[p].argv_kernel <=> argc # 0
        /\ proc'[p].argc = n
        /\ \A q \in Pids : q # p => proc'[q] = proc[q]
    <3>1. PICK v \in BOOLEAN : v = (argc > 0) /\ (v <=> argc # 0)
      <4>1. argc > 0 <=> argc # 0
        BY <1>5
      <4>2. (argc > 0) \in BOOLEAN
        OBVIOUS
      <4> QED
        BY <4>1, <4>2, Zenon
    <3>2. proc' = [proc EXCEPT ![p].argv_kernel = v, ![p].argc = n]
      BY <3>1, <1>12
    <3>3. proc'[p].argv_kernel = v
      BY <3>2, <1>1 DEF TypeOK
    <3>4. /\ proc'[p].binary_base = proc[p].binary_base /\ proc'[p].argc = n
          /\ \A q \in Pids : q # p => proc'[q] = proc[q]
      BY <3>2, <1>1 DEF TypeOK
    <3> QED
      BY <3>1, <3>3, <3>4
  <2>6. Frees(p)' = {Struct(p), Base(p)} \cup (IF argc = 0 THEN {} ELSE {Argv(p)} \cup Args(p, n))
    <3>1. proc'[p].binary_base
      BY <2>5, <1>8
    <3>2. CASE argc = 0
      BY <3>1, <3>2, <2>5 DEF Frees
    <3>3. CASE argc # 0
      BY <3>1, <3>3, <2>5 DEF Frees
    <3> QED
      BY <3>2, <3>3
  <2>7. Frees(p)' \subseteq unfreed' /\ \A b \in unfreed' : b[1] = p => b \in Frees(p)'
    BY <2>6, <1>7, <1>9, <1>12
  <2>8. /\ \A b \in unfreed : b[1] # p => b \in unfreed'
        /\ \A b \in unfreed' : b \in unfreed \/ b[1] = p
    BY <1>7, <1>12
  <2>9. proc'[p].binary_base = (c.pc \in {"args", "running"})
    <3>1. proc[p].binary_base \in BOOLEAN
      BY <1>1 DEF TypeOK
    <3> QED
      BY <3>1, <2>1, <2>5, <1>8
  <2>10. Ordered' /\ Listed' /\ Suspended' /\ Saved' /\ Staged' /\ Owned' /\ Gone' /\ Cleaned'
    BY <2>1, <2>5, <2>7, <2>8, <2>9, <1>1, <1>4, <1>12, TopKeeps
  <2> QED
    BY <2>4, <2>10 DEF IInv
<1> QED
  BY <1>4, <1>5, <1>10, <1>11, <1>12 DEF setup_arguments

LEMMA ReturnKeeps ==
  ASSUME IInv, entry_point_returns
  PROVE  IInv'
<1>1. TypeOK /\ calls # <<>> /\ Top.pc = "running"
  BY DEF IInv, entry_point_returns, At
<1>2. /\ Len(calls) > 0 /\ Top = calls[1] /\ Top \in Frame /\ Top.pid \in Pids
      /\ calls \in Seq(Frame) /\ 1 \in 1 .. Len(calls)
  BY <1>1, Frames DEF Frame
<1>3. calls' \in Seq(Frame) /\ process_list' \in Seq(Pids)
  BY <1>1, PopTypes DEF entry_point_returns
<1>4. TypeOK'
  <2>1. Top.old \in Pids \cup {0}
    BY <1>2 DEF Frame
  <2> QED
    BY <2>1, <1>1, <1>2, <1>3 DEF TypeOK, Frame, entry_point_returns, Restored
<1>5. current_process' = Runner(2)
  BY <1>1, <1>2 DEF IInv, Saved, entry_point_returns, Restored
<1>6. /\ unfreed' = unfreed \ Frees(Top.pid) /\ \A b \in Frees(Top.pid) : b[1] = Top.pid
      /\ \A b \in unfreed : b[1] = Top.pid => b \in Frees(Top.pid)
  BY <1>1, <1>2, FreesOwn DEF IInv, Owned, entry_point_returns
<1>7. Ordered' /\ Listed' /\ Suspended' /\ Saved' /\ Staged' /\ Owned' /\ Gone' /\ Cleaned'
  BY <1>1, <1>5, <1>6, PopKeeps DEF entry_point_returns
<1> QED
  BY <1>4, <1>7 DEF IInv

------------------------------------------------------------------------------
(***************************************************************************)
(* The theorems.                                                           *)
(***************************************************************************)
\* Every step of process_exec(), at every depth of nesting and through every
\* error return, keeps the inductive invariant.
THEOREM Inductive == Spec => []IInv
<1>1. ASSUME IInv, [Next]_vars
      PROVE  IInv'
  <2>1. CASE \E argc \in Argcs : process_exec(argc)
    BY <1>1, <2>1, ExecKeeps
  <2>2. CASE load_ipob_file
    BY <1>1, <2>2, LoadKeeps
  <2>3. CASE allocate_process_memory
    BY <1>1, <2>3, AllocateKeeps
  <2>4. CASE calls # <<>> /\ \E n \in 0 .. Top.argc : setup_arguments(n)
    <3>1. PICK n \in 0 .. Top.argc : setup_arguments(n)
      BY <2>4
    <3>2. Top.argc \in Nat
      BY <1>1, <2>4, Frames, LimitsAssumption DEF IInv, Frame
    <3>3. n \in Nat
      BY <3>1, <3>2
    <3> QED
      BY <1>1, <3>1, <3>3, SetupKeeps
  <2>5. CASE entry_point_returns
    BY <1>1, <2>5, ReturnKeeps
  <2>6. CASE UNCHANGED vars
    BY <1>1, <2>6 DEF IInv, TypeOK, Ordered, Listed, Suspended, Saved, Staged, Owned, Gone, Cleaned,
                      Runner, At, Top, Frees, vars
  <2> QED
    BY <1>1, <2>1, <2>2, <2>3, <2>4, <2>5, <2>6 DEF Next
<1> QED
  BY <1>1, InitIInv, PTL DEF Spec

\* The process manager's state keeps its type.
THEOREM TypesHold == Spec => []TypeOK
<1>1. IInv => TypeOK
  BY DEF IInv
<1> QED
  BY <1>1, Inductive, PTL

\* The process list is the calls in progress, innermost first, and
\* process_get_current() names the innermost running program, whatever the
\* nested calls did.
THEOREM NestingHolds == Spec => []CallsNest
<1>1. IInv => CallsNest
  <2> SUFFICES ASSUME IInv PROVE CallsNest
    OBVIOUS
  <2> DEFINE running == {k \in DOMAIN calls : calls[k].pc = "running"}
  <2>1. TypeOK
    BY DEF IInv
  <2>2. /\ Len(calls) \in Nat /\ DOMAIN calls = 1 .. Len(calls)
        /\ calls = <<>> => Len(calls) = 0
        /\ calls # <<>> => Len(calls) > 0 /\ Top = calls[1]
    BY <2>1, Frames
  <2>3. process_list = [k \in DOMAIN calls |-> calls[k].pid]
    BY <2>2 DEF IInv, Listed
  <2>4. \A k \in 2 .. Len(calls) : k \in running
    BY <2>2 DEF IInv, Suspended
  <2>5. 1 \in running <=> At("running")
    BY <2>2 DEF At
  <2>6. running \subseteq 1 .. Len(calls)
    BY <2>2
  <2>7. CASE running = {}
    <3>1. ~At("running") /\ ~(2 <= Len(calls))
      BY <2>2, <2>4, <2>5, <2>7
    <3>2. current_process = 0
      BY <3>1, <2>2 DEF IInv, Saved, Runner
    <3> QED
      BY <3>2, <2>3, <2>7 DEF CallsNest
  <2>8. CASE running # {}
    <3>1. PICK m \in running : (\A j \in running : m <= j) /\ current_process = calls[m].pid
      <4>1. CASE At("running")
        <5>1. 1 \in running /\ \A j \in running : 1 <= j
          BY <4>1, <2>5, <2>6
        <5>2. current_process = calls[1].pid
          BY <5>1, <4>1, <2>2, <2>6 DEF IInv, Saved, Runner
        <5> QED
          BY <5>1, <5>2
      <4>2. CASE ~At("running")
        <5>1. 2 \in running /\ \A j \in running : 2 <= j
          BY <4>2, <2>8, <2>2, <2>4, <2>5, <2>6
        <5>2. current_process = calls[2].pid
          BY <5>1, <4>2, <2>2, <2>6 DEF IInv, Saved, Runner
        <5> QED
          BY <5>1, <5>2
      <4> QED
        BY <4>1, <4>2
    <3>2. \A k \in running : (\A j \in running : k <= j) => k = m
      BY <3>1, <2>2, <2>6
    <3> HIDE DEF running
    <3>3. (CHOOSE k \in running : \A j \in running : k <= j) = m
      BY <3>1, <3>2
    <3>4. current_process = IF running = {} THEN 0
                            ELSE calls[CHOOSE k \in running : \A j \in running : k <= j].pid
      <4> DEFINE first == CHOOSE k \in running : \A j \in running : k <= j
      <4>1. first = m
        BY <3>3
      <4> HIDE DEF first
      <4>2. current_process = IF running = {} THEN 0 ELSE calls[first].pid
        BY <4>1, <3>1, <2>8
      <4> USE DEF first
      <4> QED
        BY <4>2, Zenon
    <3> USE DEF running
    <3> QED
      BY <3>4, <2>3 DEF CallsNest
  <2> QED
    BY <2>7, <2>8
<1> QED
  BY <1>1, Inductive, PTL

\* No error return hands a block to kfree() a second time or forgets one, but
\* for the argument copies of a setup_arguments() that fails; of a program
\* that ran, every block has been handed to kfree().
THEOREM CleanupHolds == Spec => []FreedOnce
<1>1. IInv => FreedOnce
  <2> SUFFICES ASSUME IInv PROVE FreedOnce
    OBVIOUS
  <2>1. DOMAIN calls = 1 .. Len(calls)
    BY Frames DEF IInv
  <2>2. \A p \in InProgress : Frees(p) \subseteq unfreed
    BY <2>1 DEF IInv, Owned, InProgress
  <2>3. \A b \in unfreed : b[1] \notin ran
    BY DEF IInv, Gone
  <2>4. \A b \in unfreed : b[2] \in {"argv", "arg"} \/ b[1] \in InProgress
    BY <2>1 DEF IInv, Cleaned, InProgress
  <2> QED
    BY <2>2, <2>3, <2>4 DEF FreedOnce
<1> QED
  BY <1>1, Inductive, PTL

==============================================================================
