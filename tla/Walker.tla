------------------------------- MODULE Walker -------------------------------
(***************************************************************************)
(* `walk_and_process` of src/main.rs: the threads of the walker take the   *)
(* entries it finds, and each reads its file, formats it and writes it     *)
(* back through its path.  Nothing keeps two threads off one file when the *)
(* path arguments overlap.  The walker itself (crate `ignore`) is external:*)
(* it hands out every entry once per argument, in any order.               *)
(*                                                                         *)
(* A file's content is one value.  `fs::write` truncates the file and then *)
(* writes it, which another thread can see in between.                     *)
(***************************************************************************)
EXTENDS Naturals, Sequences, FiniteSets

CONSTANTS Threads,
          Paths,
          Contents,     \* what a file may hold besides nothing
          Formatted,    \* the formatter: a function on the contents that parse
          Empty,        \* a truncated file
          Walks,        \* the lists of entries: paths, and WalkError
          WalkError     \* an argument the walker could not open

ASSUME FormatterAssumption ==
    /\ DOMAIN Formatted \subseteq Contents /\ Empty \notin Contents
    /\ \A c \in DOMAIN Formatted : Formatted[c] \in Contents
    /\ Walks \subseteq Seq(Paths \cup {WalkError}) /\ WalkError \notin Paths

Modes == {"format", "verify", "check", "parse_only", "dump"}

VARIABLES mode,      \* which of the options was given
          original,  \* the files when the program started
          unreadable,\* paths that cannot be read
          denied,    \* paths that cannot be opened for writing
          entries,   \* what the walker finds
          todo,      \* entries not handed out yet
          files,     \* the files now
          thread,    \* per thread [pc, path, source]
          failed,    \* paths whose contents were lost in a failed write
          ok         \* the exit status is 0 so far

setting == <<mode, original, unreadable, denied, entries>>
vars == <<setting, todo, files, thread, failed, ok>>

Idle == [pc |-> "idle", path |-> WalkError, source |-> Empty]

(* Debug dumps and --parse-only keep to one thread. *)
Active == IF mode \in {"dump", "parse_only"} THEN {CHOOSE t \in Threads : TRUE} ELSE Threads

Init ==
    /\ mode \in Modes /\ original \in [Paths -> Contents]
    /\ unreadable \in SUBSET Paths /\ denied \in SUBSET Paths
    /\ entries \in Walks /\ todo = DOMAIN entries
    /\ files = original /\ thread = [t \in Threads |-> Idle]
    /\ failed = {} /\ ok = TRUE

Goto(t, pc) == thread' = [thread EXCEPT ![t].pc = pc]

(* Mutant of Leave: the last visit decides. *)
LeaveOverwriting(t, success) == thread' = [thread EXCEPT ![t] = Idle] /\ ok' = success

(* Mutant of Leave: the thread stops at a failure. *)
LeaveOnSuccess(t, success) ==
    thread' = (IF success THEN [thread EXCEPT ![t] = Idle] ELSE thread) /\ ok' = (ok /\ success)

(* The visitor returns, the thread goes on. *)
Leave(t, success) == thread' = [thread EXCEPT ![t] = Idle] /\ ok' = (ok /\ success)

(* The next entry; an error of the walker is reported. *)
Visit(t) == \E i \in todo :
    /\ thread[t].pc = "idle" /\ t \in Active
    /\ todo' = todo \ {i}
    /\ IF entries[i] = WalkError THEN Leave(t, FALSE)
       ELSE thread' = [thread EXCEPT ![t] = [Idle EXCEPT !.pc = "read", !.path = entries[i]]]
            /\ UNCHANGED ok
    /\ UNCHANGED <<setting, files, failed>>

(* `read_to_string`. *)
Read(t) ==
    /\ thread[t].pc = "read" /\ thread[t].path \notin unreadable
    /\ thread' = [thread EXCEPT ![t].pc = "process", ![t].source = files[thread[t].path]]
    /\ UNCHANGED <<setting, todo, files, failed, ok>>

ReadFails(t) ==
    /\ thread[t].pc = "read" /\ thread[t].path \in unreadable
    /\ Leave(t, FALSE)
    /\ UNCHANGED <<setting, todo, files, failed>>

Parses(c) == c \in DOMAIN Formatted
Stable(c) == Parses(c) /\ Formatted[c] = c

(* `try_format`: --verify formats the output again. *)
Formats(c) == Parses(c) /\ (mode = "verify" => Stable(Formatted[c]))

InPlace == mode \in {"format", "verify"}

(* Mutant of Unchanged: the file is written whatever came out. *)
NeverUnchanged(c) == FALSE

Unchanged(c) == Formatted[c] = c

(* --parse-only, --ast and --ir, parse errors, --check and files that are   *)
(* formatted already: nothing is written.                                   *)
ProcessOnly(t) ==
    LET c == thread[t].source IN
    /\ thread[t].pc = "process"
    /\ \/ mode = "parse_only" /\ Leave(t, Parses(c))
       \/ mode = "dump" /\ Leave(t, FALSE)
       \/ mode \notin {"parse_only", "dump"} /\ ~Formats(c) /\ Leave(t, FALSE)
       \/ mode = "check" /\ Formats(c) /\ Leave(t, Formatted[c] = c)
       \/ InPlace /\ Formats(c) /\ Unchanged(c) /\ Leave(t, TRUE)
    /\ UNCHANGED <<setting, todo, files, failed>>

(* Mutant of Stale: --check reports the file and goes on to write it. *)
StaleInCheck(t) ==
    /\ thread[t].pc = "process" /\ mode \in {"format", "verify", "check"}
    /\ Formats(thread[t].source) /\ ~Unchanged(thread[t].source)

Stale(t) ==
    thread[t].pc = "process" /\ InPlace /\ Formats(thread[t].source) /\ ~Unchanged(thread[t].source)

(* `fs::write` first opens and truncates the file... *)
Create(t) ==
    /\ Stale(t) /\ thread[t].path \notin denied
    /\ files' = [files EXCEPT ![thread[t].path] = Empty]
    /\ Goto(t, "write")
    /\ UNCHANGED <<setting, todo, failed, ok>>

CreateFails(t) ==
    /\ Stale(t) /\ thread[t].path \in denied
    /\ Leave(t, FALSE)
    /\ UNCHANGED <<setting, todo, files, failed>>

(* ... then writes the output, or fails with the file truncated. *)
Write(t) ==
    /\ thread[t].pc = "write"
    /\ files' = [files EXCEPT ![thread[t].path] = Formatted[thread[t].source]]
    /\ Leave(t, TRUE)
    /\ UNCHANGED <<setting, todo, failed>>

WriteFails(t) ==
    /\ thread[t].pc = "write"
    /\ failed' = failed \cup {thread[t].path}
    /\ Leave(t, FALSE)
    /\ UNCHANGED <<setting, todo, files>>

Step(t) ==
    \/ Visit(t) \/ Read(t) \/ ReadFails(t) \/ ProcessOnly(t)
    \/ Create(t) \/ CreateFails(t) \/ Write(t) \/ WriteFails(t)

(* Every thread has left the walker: the status is decided. *)
Done == todo = {} /\ \A t \in Threads : thread[t].pc = "idle"

Next == (\E t \in Threads : Step(t)) \/ (Done /\ UNCHANGED vars)

Spec == Init /\ [][Next]_vars
FairSpec == Spec /\ \A t \in Threads : WF_vars(Step(t))

-----------------------------------------------------------------------------
(* The types; a thread at work has a file of the arguments.                 *)
TypeOK ==
    /\ mode \in Modes /\ original \in [Paths -> Contents]
    /\ unreadable \subseteq Paths /\ denied \subseteq Paths
    /\ entries \in Walks /\ todo \subseteq DOMAIN entries
    /\ files \in [Paths -> Contents \cup {Empty}]
    /\ thread \in [Threads -> {Idle} \cup [pc : {"read", "process", "write"},
                                          path : Paths, source : Contents \cup {Empty}]]
    /\ failed \subseteq Paths /\ ok \in BOOLEAN

Allowed == Paths \ (unreadable \cup denied)
Visited == {entries[i] : i \in DOMAIN entries} \ {WalkError}
Overlap == \E i, j \in DOMAIN entries : i # j /\ entries[i] = entries[j] /\ entries[i] \in Paths

(* What becomes of a file: what it held, unless it is to be reformatted. *)
Target(p) ==
    IF p \in Visited /\ InPlace /\ Formats(original[p]) /\ p \in Allowed
    THEN Formatted[original[p]] ELSE original[p]

(* "each file is reformatted in place": in the end every file that formats  *)
(* is formatted and every other one is as it was, even when arguments       *)
(* overlap and threads write one file; only a write that failed may leave   *)
(* something else.                                                          *)
FilesDone ==
    Done => \A p \in Paths \ failed :
        \/ files[p] = Target(p)
        \/ mode = "format" /\ Overlap /\ p \in Visited /\ Parses(Target(p))
           /\ files[p] = Formatted[Target(p)]   \* formatted twice

(* Files that are formatted already or do not parse are never opened for    *)
(* writing ("preserve mtimes"), and --check "must not modify files".        *)
OnlyStaleTouched ==
    [][\A p \in Paths : files'[p] # files[p] =>
          InPlace /\ p \in Visited \cap Allowed /\ Formats(original[p]) /\ ~Stable(original[p])]_vars

(* The inputs are all fine for the mode that was asked for. *)
Fine(p) == p \notin unreadable /\
    CASE mode = "parse_only" -> Parses(original[p])
      [] mode = "dump"  -> FALSE
      [] mode = "check" -> Stable(original[p])
      [] OTHER -> Formats(original[p]) /\ (Stable(original[p]) \/ p \notin denied)

ExpectedStatus ==
    (\A i \in DOMAIN entries : entries[i] # WalkError /\ Fine(entries[i])) /\ failed = {}

(* Exit status 0 if and only if "all inputs were processed (and, in --check *)
(* mode, all were already formatted)", whatever order the threads finish in.*)
StatusTells == Done /\ ~Overlap => ok = ExpectedStatus

(* The walk ends. *)
WalkEnds == <>Done
=============================================================================
