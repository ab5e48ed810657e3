------------------------------ MODULE Commands ------------------------------
(***************************************************************************)
(* From a line of text to a program with arguments: autorun_init() of      *)
(* autorun.c, which runs the lines of /autorun at boot, and                *)
(* try_execute_command() and resolve_command_path() of terminal.c, which   *)
(* it shares with the lines typed at the prompt.                           *)
(*                                                                         *)
(* Text is a sequence of characters; the name of the directory /app is     *)
(* one character, App. `heap' holds the pointers kmalloc() has given out   *)
(* to this code and that it has not handed to kfree(); that kfree() may    *)
(* ignore one is KHeap's subject. Every kmalloc() may fail.                *)
(* What happens inside process_exec() is the subject of Process; here it   *)
(* keeps the processor as long as it likes. Programs add and remove files, *)
(* so a canonical path may or may not name a file when it is looked up.    *)
(***************************************************************************)
EXTENDS IpoPath, FiniteSets

CONSTANTS
  AUTORUN_LINE_SIZE, NAME_SIZE, ARG_SIZE, PATH_SIZE,  \* buffers, in characters
  MAX_ARGS,                                           \* entries of argv
  AutorunFiles,          \* what /autorun may hold, up to the first NUL
  TypedLines             \* what may be typed before Enter

\* A name fits to_check[] after "/app/"; half as many tokens as characters
\* is all a path can have.
ASSUME BufferAssumption ==
  /\ {AUTORUN_LINE_SIZE, NAME_SIZE, ARG_SIZE, PATH_SIZE, MAX_ARGS} \subseteq Nat \ {0, 1}
  /\ NAME_SIZE + 5 < PATH_SIZE /\ PATH_SIZE <= 2 * MAX_TOKENS

VARIABLES
  pc,            \* where the kernel is
  autorun_buf,   \* [ptr, text], NULL outside autorun_init()
  ptr,           \* the next character of autorun_buf.text to read
  cmdline,       \* the command line being executed: full_line or input_buf
  rest,          \* the part of it that is still to be parsed
  path,          \* [ptr, names]
  argv,          \* sequence of [ptr, text]; the name itself is on the stack
  heap,          \* pointers not handed to kfree()
  tried,         \* history: the commands autorun_init() has executed
  dropped        \* history: arguments of this command without a copy

vars == <<pc, autorun_buf, ptr, cmdline, rest, path, argv, heap, tried, dropped>>
command_vars == <<cmdline, rest, path, argv, dropped>>
autorun_vars == <<autorun_buf, ptr, tried>>

App == "app"
Blanks == {" ", "HT"}
NoBuf == [ptr |-> 0, text |-> <<>>]
NoPath == [ptr |-> 0, names |-> <<>>]

\* Pointers are numbers; kmalloc() gives out one that is not in use.
Pointers == 1 .. MAX_ARGS + 2
NewPtr == CHOOSE p \in Pointers : p \notin heap /\ \A q \in 1 .. p - 1 : q \in heap

\* The length of the longest prefix of s, of at most `limit' characters,
\* none of which is in `stop'.
SpanLen(s, stop, limit) ==
  CHOOSE n \in 0 .. Len(s) :
    /\ n <= limit /\ \A i \in 1 .. n : s[i] \notin stop
    /\ n = Len(s) \/ n = limit \/ s[n + 1] \in stop
Span(s, stop, limit) == SubSeq(s, 1, SpanLen(s, stop, limit))
After(s, stop, limit) == SubSeq(s, SpanLen(s, stop, limit) + 1, Len(s))
CutAt(s, size) == SubSeq(s, 1, IF Len(s) < size THEN Len(s) ELSE size - 1)

SkipBlanks(s) ==
  LET n == CHOOSE n \in 0 .. Len(s) :
             /\ \A i \in 1 .. n : s[i] \in Blanks
             /\ n = Len(s) \/ s[n + 1] \notin Blanks
  IN  SubSeq(s, n + 1, Len(s))

-----------------------------------------------------------------------------
(***************************************************************************)
(* Plausible mistakes, used only to check that the properties notice them. *)
(***************************************************************************)
CommentToTheEnd(s) == <<>>
NewlineStays(s) == s
NoRoomForNull(args) == Len(args) < MAX_ARGS
FreeAllButLast == {argv[j].ptr : j \in 2 .. Len(argv) - 1} \cup {path.ptr}
BehindTheName(args, arg) == <<args[1], arg>> \o Tail(args)

-----------------------------------------------------------------------------
\* skip_line() behind a `#', and the newline of an empty or executed line.
skip_newline(s) == IF s # <<>> /\ s[1] = "nl" THEN Tail(s) ELSE s
skip_line(s) == skip_newline(After(s, {"nl"}, Len(s)))

\* resolve_command_path(): absolute, from the root, or in /app.
to_check(name) ==
  IF name[1] = Slash THEN name
  ELSE IF name[1] = "." \/ (\E i \in DOMAIN name : name[i] = Slash) THEN <<Slash>> \o name
  ELSE <<Slash, App, Slash>> \o name

\* There may be a file of this name; the root and /app are directories.
MayBeFile(names) == names \notin {<<>>, <<<<App>>>>}

\* One more argument, as it is copied, and the line behind it.
next_argument(s) ==
  [word |-> CutAt(Span(s, Blanks, Len(s)), ARG_SIZE), rest |-> After(s, Blanks, Len(s))]

\* argv[argc++]
Stored(args, arg) == Append(args, arg)

RoomForArgument(args) == Len(args) < MAX_ARGS - 1

\* What try_execute_command() frees once the program has returned.
Argument_copies_and_path == {argv[j].ptr : j \in 2 .. Len(argv)} \cup {path.ptr}

\* What autorun_init() frees when opening or reading the file fails.
freed_on(outcome) == IF outcome = "ok" THEN {} ELSE {autorun_buf.ptr}

-----------------------------------------------------------------------------
Init ==
  /\ pc = "boot" /\ heap = {}
  /\ autorun_buf = NoBuf /\ ptr = 1 /\ tried = <<>>
  /\ cmdline = <<>> /\ rest = <<>> /\ path = NoPath /\ argv = <<>> /\ dropped = 0

\* The command is over: back to the loop of autorun_init() or to the prompt.
Return ==
  /\ pc' = IF autorun_buf = NoBuf THEN "prompt" ELSE "lines"
  /\ cmdline' = <<>> /\ rest' = <<>> /\ path' = NoPath /\ argv' = <<>> /\ dropped' = 0
  /\ UNCHANGED autorun_vars

\* /autorun is missing, is a directory, is too large, or no memory is left.
autorun_skipped ==
  /\ pc = "boot" /\ pc' = "prompt"
  /\ UNCHANGED <<heap, command_vars, autorun_vars>>

autorun_allocate ==
  /\ pc = "boot" /\ pc' = "read"
  /\ \E text \in AutorunFiles : autorun_buf' = [ptr |-> NewPtr, text |-> text]
  /\ heap' = heap \cup {NewPtr}
  /\ UNCHANGED <<command_vars, ptr, tried>>

autorun_read(outcome) ==
  /\ pc = "read"
  /\ heap' = heap \ freed_on(outcome)
  /\ pc' = IF outcome = "ok" THEN "lines" ELSE "prompt"
  /\ autorun_buf' = IF outcome = "ok" THEN autorun_buf ELSE NoBuf
  /\ UNCHANGED <<command_vars, ptr, tried>>

\* One round of the loop over the buffer. A line that does not fit full_line
\* is executed up to there, and the next round goes on behind the cut.
Unread == SkipBlanks(SubSeq(autorun_buf.text, ptr, Len(autorun_buf.text)))
PointTo(s) == ptr' = Len(autorun_buf.text) - Len(s) + 1

autorun_comment ==
  /\ pc = "lines" /\ Unread # <<>> /\ Unread[1] = "#"
  /\ PointTo(skip_line(Unread))
  /\ UNCHANGED <<pc, heap, command_vars, autorun_buf, tried>>

autorun_empty_line ==
  /\ pc = "lines" /\ Unread # <<>> /\ Unread[1] = "nl"
  /\ PointTo(skip_newline(Unread))
  /\ UNCHANGED <<pc, heap, command_vars, autorun_buf, tried>>

autorun_command ==
  /\ pc = "lines" /\ Unread # <<>> /\ Unread[1] \notin {"#", "nl"}
  /\ LET full_line == Span(Unread, {"nl"}, AUTORUN_LINE_SIZE - 1)
     IN  /\ cmdline' = full_line /\ rest' = full_line
         /\ tried' = Append(tried, full_line)
  /\ PointTo(skip_newline(After(Unread, {"nl"}, AUTORUN_LINE_SIZE - 1)))
  /\ pc' = "command"
  /\ UNCHANGED <<heap, autorun_buf, path, argv, dropped>>

autorun_complete ==
  /\ pc = "lines" /\ Unread = <<>>
  /\ pc' = "prompt" /\ heap' = heap \ {autorun_buf.ptr}
  /\ autorun_buf' = NoBuf /\ ptr' = 1 /\ tried' = <<>>
  /\ UNCHANGED command_vars

\* Enter at the prompt with a line in input_buf.
terminal_enter(line) ==
  /\ pc = "prompt" /\ line # <<>>
  /\ cmdline' = line /\ rest' = line
  /\ pc' = "command"
  /\ UNCHANGED <<heap, path, argv, dropped, autorun_vars>>

\* Nothing but blanks, no such file, or no memory for the path.
command_not_found ==
  /\ pc = "command"
  /\ Return
  /\ UNCHANGED heap

command_found ==
  /\ pc = "command" /\ SkipBlanks(rest) # <<>>
  /\ LET line == SkipBlanks(rest)
         name == Span(line, Blanks, NAME_SIZE - 1)
         canonical == fs_canonicalize(to_check(name), PATH_SIZE)
     IN  /\ MayBeFile(canonical)
         /\ path' = [ptr |-> NewPtr, names |-> canonical]
         /\ argv' = <<[ptr |-> 0, text |-> name]>>
         /\ rest' = SkipBlanks(After(line, Blanks, NAME_SIZE - 1))
  /\ heap' = heap \cup {NewPtr}
  /\ pc' = "arguments"
  /\ UNCHANGED <<cmdline, dropped, autorun_vars>>

\* The copy of an argument, or no copy and no argument.
parse_argument(copied) ==
  /\ pc = "arguments" /\ rest # <<>> /\ RoomForArgument(argv)
  /\ argv' = IF copied THEN Stored(argv, [ptr |-> NewPtr, text |-> next_argument(rest).word])
             ELSE argv
  /\ heap' = IF copied THEN heap \cup {NewPtr} ELSE heap
  /\ dropped' = IF copied THEN dropped ELSE dropped + 1
  /\ rest' = SkipBlanks(next_argument(rest).rest)
  /\ UNCHANGED <<pc, cmdline, path, autorun_vars>>

process_exec ==
  /\ pc = "arguments" /\ (rest = <<>> \/ ~RoomForArgument(argv))
  /\ pc' = "exec"
  /\ UNCHANGED <<heap, command_vars, autorun_vars>>

\* process_exec() returns, with a process identifier or an error.
process_returns ==
  /\ pc = "exec"
  /\ heap' = heap \ Argument_copies_and_path
  /\ Return

Kernel ==
  \/ autorun_skipped \/ autorun_allocate
  \/ \E outcome \in {"ok", "failed"} : autorun_read(outcome)
  \/ autorun_comment \/ autorun_empty_line \/ autorun_command \/ autorun_complete
  \/ command_not_found \/ command_found
  \/ \E copied \in BOOLEAN : parse_argument(copied)
  \/ process_exec

Next ==
  \/ Kernel
  \/ \E line \in TypedLines : terminal_enter(line)
  \/ process_returns

\* The kernel runs whenever it can; nobody has to type, and a program may
\* keep the processor.
Spec == Init /\ [][Next]_vars /\ WF_vars(Kernel)

-----------------------------------------------------------------------------
(* Reference definitions.                                                  *)

\* The maximal runs of s without a character of `sep', in order.
Runs(s, sep) ==
  LET ends == {k \in DOMAIN s : s[k] \notin sep /\ (k = Len(s) \/ s[k + 1] \in sep)}
      from(k) == CHOOSE i \in 1 .. k :
                   /\ \A j \in i .. k : s[j] \notin sep
                   /\ i = 1 \/ s[i - 1] \in sep
  IN  [n \in 1 .. Cardinality(ends) |->
         LET k == CHOOSE k \in ends : Cardinality({e \in ends : e <= k}) = n
         IN  SubSeq(s, from(k), k)]

\* The names a path stands for: a name counts unless some ".." behind it has
\* no later name to take away.
Denotes(p) ==
  LET w == [k \in DOMAIN Runs(p, {Slash}) |-> CutAt(Runs(p, {Slash})[k], IPO_FS_MAX_NAME)]
      ups(i, j) == Cardinality({k \in i .. j : w[k] = DotDot})
      downs(i, j) == Cardinality({k \in i .. j : w[k] \notin {Dot, DotDot}})
      kept == {i \in DOMAIN w : /\ w[i] \notin {Dot, DotDot}
                                /\ \A j \in i .. Len(w) : ups(i + 1, j) <= downs(i + 1, j)}
  IN  [n \in 1 .. Cardinality(kept) |->
         w[CHOOSE i \in kept : Cardinality({e \in kept : e <= i}) = n]]

\* The commands of a text: its lines without leading blanks, but not the
\* comments and the empty ones.
CommandsOf(text) ==
  SelectSeq([k \in DOMAIN Runs(text, {"nl"}) |-> SkipBlanks(Runs(text, {"nl"})[k])],
            LAMBDA line : line # <<>> /\ line[1] # "#")

-----------------------------------------------------------------------------
(* Properties.                                                             *)

\* The state is of the declared shape; the strings and the argument vector
\* with its NULL fit the buffers on the stack (name, arg_buf, argv).
TypeOK ==
  /\ pc \in {"boot", "read", "lines", "prompt", "command", "arguments", "exec"}
  /\ autorun_buf = NoBuf \/ (autorun_buf.ptr \in Pointers /\ autorun_buf.text \in AutorunFiles)
  /\ ptr \in 1 .. Len(autorun_buf.text) + 1
  /\ heap \subseteq Pointers
  /\ path.ptr \in 0 .. MAX_ARGS + 2 /\ Len(Text(path.names)) < PATH_SIZE
  /\ Len(argv) < MAX_ARGS
  /\ \A j \in DOMAIN argv : Len(argv[j].text) < IF j = 1 THEN NAME_SIZE ELSE ARG_SIZE
  /\ dropped \in Nat

\* Whatever failed on the way, kmalloc() and kfree() balance: at the prompt
\* everything was handed to kfree(), a program runs with exactly its path, its
\* arguments and the text of /autorun allocated, each of them once.
HeapBalanced ==
  /\ pc = "prompt" => heap = {}
  /\ pc = "exec" =>
       LET owned == SelectSeq(<<autorun_buf.ptr, path.ptr>> \o [j \in DOMAIN argv |-> argv[j].ptr],
                              LAMBDA p : p # 0)
       IN  heap = ToSet(owned) /\ Cardinality(heap) = Len(owned)

\* A program is started with the first words of its line in their order, cut
\* to the buffers' sizes and no more than argv has room for; only words whose
\* copy could not be allocated are missing. A name too long for name[] is
\* the exception: its tail becomes an argument (terminal.c 320).
ArgsAreWords ==
  pc = "exec" =>
    LET words == Runs(cmdline, Blanks)
        given == [j \in DOMAIN argv |-> argv[j].text]
        wanted == [j \in DOMAIN words |-> IF j = 1 THEN words[1] ELSE CutAt(words[j], ARG_SIZE)]
        count == Len(words) - dropped
    IN  IF Len(words[1]) < NAME_SIZE
        THEN /\ given[1] = wanted[1]
             /\ Len(given) = IF count < MAX_ARGS - 1 THEN count ELSE MAX_ARGS - 1
             /\ \E at \in [DOMAIN given -> DOMAIN wanted] :
                  /\ \A j \in DOMAIN given : given[j] = wanted[at[j]] /\ at[j] <= j + dropped
                  /\ \A i, j \in DOMAIN given : i < j => at[i] < at[j]
        ELSE given[1] = SubSeq(words[1], 1, NAME_SIZE - 1)

\* The file a program is loaded from is the one its name stands for: read
\* from the root, or from /app for a plain name, whatever ".", ".." and
\* repeated or trailing slashes are in it (resolve_command_path() and
\* fs_canonicalize()).
RunsWhatIsNamed ==
  pc = "exec" =>
    LET name == argv[1].text
        plain == name[1] # "." /\ (\A i \in DOMAIN name : name[i] # Slash)
    IN  path.names = IF plain THEN <<<<App>>, CutAt(name, IPO_FS_MAX_NAME)>> ELSE Denotes(name)

\* If every line fits full_line, autorun executes the commands of the file
\* once each and in order, and nothing else: after each round they are the
\* commands of the part of the file that has been read.
EveryLineOnce ==
  (/\ pc \in {"lines", "command", "exec"} /\ autorun_buf # NoBuf
   /\ \A line \in ToSet(CommandsOf(autorun_buf.text)) : Len(line) < AUTORUN_LINE_SIZE)
    => tried = CommandsOf(SubSeq(autorun_buf.text, 1, ptr - 1))

\* Whatever /autorun holds and whatever fails, the kernel gets back to the
\* prompt, unless a program it has started does not return.
BackToPrompt == []<>(pc \in {"prompt", "exec"})
=============================================================================
