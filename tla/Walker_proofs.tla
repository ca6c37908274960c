--------------------------- MODULE Walker_proofs ----------------------------
(***************************************************************************)
(* For any number of threads, files and entries: the types, that the       *)
(* walker never writes a file it has no business with, and what the walk   *)
(* leaves in the files and in the exit status.                             *)
(***************************************************************************)
EXTENDS Walker, TLAPS

(* The files that are to be reformatted. *)
ToWrite(p) ==
    InPlace /\ p \in Visited \cap Allowed /\ Formats(original[p]) /\ ~Stable(original[p])

(* Every other file is as it was, a thread that has read one holds what it  *)
(* was at the start, and no thread is about to write one.                   *)
Untouched == \A p \in Paths : ~ToWrite(p) => files[p] = original[p]
HeldSource == \A t \in Threads :
    thread[t].pc = "process" /\ ~ToWrite(thread[t].path) => thread[t].source = original[thread[t].path]
WritersAllowed == \A t \in Threads : thread[t].pc = "write" => ToWrite(thread[t].path)
AtWorkVisited == \A t \in Threads : thread[t].pc # "idle" => thread[t].path \in Visited
ReadAllowed == \A t \in Threads : thread[t].pc = "process" => thread[t].path \notin unreadable

(* What Formats says of a thread's source is kept for its write.            *)
WriteParses == \A t \in Threads : thread[t].pc = "write" => Parses(thread[t].source)

IInv ==
    /\ TypeOK /\ Untouched
    /\ HeldSource /\ WritersAllowed /\ AtWorkVisited /\ WriteParses /\ ReadAllowed

Job == [pc : {"read", "process", "write"}, path : Paths, source : Contents \cup {Empty}]

-----------------------------------------------------------------------------
(* The state a thread is in, out of its type. *)
LEMMA ThreadCases ==
    ASSUME TypeOK, NEW t \in Threads
    PROVE  thread[t] = Idle \/ thread[t] \in Job
BY DEF TypeOK, Job

(* A thread that is not idle has a job. *)
LEMMA AtWork ==
    ASSUME TypeOK, NEW t \in Threads, thread[t].pc # "idle"
    PROVE  thread[t] \in Job
BY ThreadCases DEF Idle

(* An entry is a path or an error. *)
LEMMA EntryCases ==
    ASSUME TypeOK, NEW i \in todo
    PROVE  /\ i \in DOMAIN entries /\ entries[i] \in Paths \cup {WalkError}
           /\ entries[i] # WalkError => entries[i] \in Paths /\ entries[i] \in Visited
<1>1. i \in DOMAIN entries /\ entries \in Seq(Paths \cup {WalkError})
  BY FormatterAssumption DEF TypeOK
<1>2. entries[i] \in Paths \cup {WalkError}
  BY <1>1
<1> QED
  BY <1>1, <1>2 DEF Visited

(* The invariant holds at the start. *)
LEMMA InitIInv == Init => IInv
<1> SUFFICES ASSUME Init PROVE IInv
  OBVIOUS
<1>1. TypeOK
  BY FormatterAssumption DEF Init, TypeOK, Idle
<1>2. \A t \in Threads : thread[t].pc = "idle"
  BY DEF Init, Idle
<1> QED
  BY <1>1, <1>2 DEF Init, IInv, Untouched, HeldSource, WritersAllowed, AtWorkVisited, WriteParses, ReadAllowed

(* A thread that goes idle keeps the invariant when the files stay.         *)
LEMMA LeaveIInv ==
    ASSUME IInv, NEW t \in Threads, thread' = [thread EXCEPT ![t] = Idle], ok' \in BOOLEAN,
           UNCHANGED <<setting, files>>, todo' \subseteq todo, failed' \subseteq Paths
    PROVE  IInv'
<1> USE DEF IInv
<1>0. /\ mode' = mode /\ original' = original /\ unreadable' = unreadable /\ denied' = denied /\ entries' = entries
      /\ files' = files
  BY DEF setting
<1>1. TypeOK'
  BY <1>0 DEF TypeOK
<1>2. \A u \in Threads : thread'[u] = IF u = t THEN Idle ELSE thread[u]
  BY <1>0 DEF TypeOK
<1>3. \A p : ToWrite(p)' = ToWrite(p)
  BY <1>0 DEF ToWrite, InPlace, Visited, Allowed, Formats, Stable, Parses
<1>4. Visited' = Visited
  BY <1>0 DEF Visited
<1>5. Untouched'
  BY <1>0, <1>3 DEF Untouched
<1>6. HeldSource' /\ WritersAllowed' /\ AtWorkVisited' /\ WriteParses' /\ ReadAllowed'
  BY <1>0, <1>2, <1>3, <1>4
     DEF HeldSource, WritersAllowed, AtWorkVisited, WriteParses, ReadAllowed, Idle, Parses
<1> QED
  BY <1>1, <1>5, <1>6

(* A thread that goes on with another job keeps it when the files stay and  *)
(* the job is allowed.                                                      *)
LEMMA JobIInv ==
    ASSUME IInv, NEW t \in Threads, NEW j \in Job,
           thread' = [thread EXCEPT ![t] = j], ok' = ok, failed' = failed,
           UNCHANGED setting, todo' \subseteq todo, UNCHANGED files,
           j.path \in Visited, j.pc # "write",
           j.pc = "process" /\ ~ToWrite(j.path) => j.source = original[j.path],
           j.pc = "process" => j.path \notin unreadable
    PROVE  IInv'
<1> USE DEF IInv
<1>0. /\ mode' = mode /\ original' = original /\ unreadable' = unreadable /\ denied' = denied /\ entries' = entries
      /\ files' = files
  BY DEF setting
<1>1. TypeOK'
  BY <1>0 DEF TypeOK, Job
<1>2. \A u \in Threads : thread'[u] = IF u = t THEN j ELSE thread[u]
  BY <1>0 DEF TypeOK
<1>3. \A p : ToWrite(p)' = ToWrite(p)
  BY <1>0 DEF ToWrite, InPlace, Visited, Allowed, Formats, Stable, Parses
<1>4. Visited' = Visited
  BY <1>0 DEF Visited
<1>5. Untouched'
  BY <1>0, <1>3 DEF Untouched
<1>6. HeldSource' /\ WritersAllowed' /\ AtWorkVisited' /\ WriteParses' /\ ReadAllowed'
  BY <1>0, <1>2, <1>3, <1>4 DEF HeldSource, WritersAllowed, AtWorkVisited, WriteParses, ReadAllowed, Parses
<1> QED
  BY <1>1, <1>5, <1>6

(* A thread that is to write a stale source may write the path it read.     *)
LEMMA StaleToWrite ==
    ASSUME IInv, NEW t \in Threads, Stale(t), thread[t].path \notin denied
    PROVE  ToWrite(thread[t].path) /\ Parses(thread[t].source)
<1>1. thread[t].pc = "process" /\ InPlace /\ Formats(thread[t].source) /\ ~Unchanged(thread[t].source)
  BY DEF Stale
<1>2. Parses(thread[t].source) /\ ~Stable(thread[t].source)
  BY <1>1 DEF Formats, Unchanged, Stable
<1>3. thread[t].path \in Visited \cap Allowed
  <2>1. thread[t].path \in Visited /\ thread[t].path \in Paths
    BY <1>1, AtWork DEF IInv, AtWorkVisited, Job
  <2> QED
    BY <1>1, <2>1 DEF IInv, ReadAllowed, Allowed
<1>4. CASE ToWrite(thread[t].path)
  BY <1>2, <1>4
<1>5. CASE ~ToWrite(thread[t].path)
  <2>1. thread[t].source = original[thread[t].path]
    BY <1>1, <1>5 DEF IInv, HeldSource
  <2> QED
    BY <1>1, <1>2, <1>3, <2>1 DEF ToWrite
<1> QED
  BY <1>4, <1>5

(* Truncating the file of a stale source. *)
LEMMA CreateIInv ==
    ASSUME IInv, NEW t \in Threads, Create(t)
    PROVE  IInv'
<1> USE DEF IInv
<1> DEFINE p == thread[t].path
<1>0. /\ files' = [files EXCEPT ![p] = Empty] /\ thread' = [thread EXCEPT ![t].pc = "write"]
      /\ mode' = mode /\ original' = original /\ unreadable' = unreadable /\ denied' = denied /\ entries' = entries
      /\ todo' = todo /\ failed' = failed /\ ok' = ok
  BY DEF Create, Goto, setting
<1>1. ToWrite(p) /\ Parses(thread[t].source)
  BY StaleToWrite DEF Create
<1>2. thread[t] \in Job
  BY AtWork DEF Create, Stale
<1> DEFINE w == [thread[t] EXCEPT !.pc = "write"]
<1>3. \A u \in Threads : thread'[u] = IF u = t THEN w ELSE thread[u]
  BY <1>0 DEF TypeOK
<1>4. w \in Job /\ w.pc = "write" /\ w.path = p /\ w.source = thread[t].source
  BY <1>2 DEF Job
<1>5. TypeOK'
  BY <1>0, <1>2, <1>4 DEF TypeOK, Job
<1>6. Visited' = Visited /\ \A q : ToWrite(q)' = ToWrite(q)
  BY <1>0 DEF ToWrite, InPlace, Visited, Allowed, Formats, Stable, Parses
<1>7. Untouched'
  BY <1>0, <1>1, <1>6 DEF Untouched, TypeOK
<1> HIDE DEF w
<1>8. HeldSource'
  BY <1>0, <1>3, <1>4, <1>6 DEF HeldSource
<1>9. WritersAllowed' /\ WriteParses'
  BY <1>0, <1>1, <1>3, <1>4, <1>6 DEF WritersAllowed, WriteParses, Parses
<1>10. p \in Visited
  BY <1>1 DEF ToWrite
<1>11. AtWorkVisited' /\ ReadAllowed'
  BY <1>0, <1>3, <1>4, <1>6, <1>10 DEF AtWorkVisited, ReadAllowed
<1> QED
  BY <1>5, <1>7, <1>8, <1>9, <1>11

(* Writing the output. *)
LEMMA WriteIInv ==
    ASSUME IInv, NEW t \in Threads, Write(t)
    PROVE  IInv'
<1> USE DEF IInv
<1> DEFINE p == thread[t].path
<1>0. /\ files' = [files EXCEPT ![p] = Formatted[thread[t].source]]
      /\ thread' = [thread EXCEPT ![t] = Idle] /\ ok' = (ok /\ TRUE)
      /\ mode' = mode /\ original' = original /\ unreadable' = unreadable /\ denied' = denied /\ entries' = entries
      /\ todo' = todo /\ failed' = failed
  BY DEF Write, Leave, setting
<1>1. ToWrite(p) /\ Parses(thread[t].source)
  BY DEF WritersAllowed, WriteParses, Write
<1>2. Formatted[thread[t].source] \in Contents
  BY <1>1, FormatterAssumption DEF Parses
<1>3. \A u \in Threads : thread'[u] = IF u = t THEN Idle ELSE thread[u]
  BY <1>0 DEF TypeOK
<1>4. TypeOK'
  BY <1>0, <1>2 DEF TypeOK
<1>5. Visited' = Visited /\ \A q : ToWrite(q)' = ToWrite(q)
  BY <1>0 DEF ToWrite, InPlace, Visited, Allowed, Formats, Stable, Parses
<1>6. Untouched'
  BY <1>0, <1>1, <1>5 DEF Untouched, TypeOK
<1>7. HeldSource' /\ WritersAllowed' /\ AtWorkVisited' /\ WriteParses' /\ ReadAllowed'
  BY <1>0, <1>3, <1>5 DEF HeldSource, WritersAllowed, AtWorkVisited, WriteParses, ReadAllowed, Idle, Parses
<1> QED
  BY <1>4, <1>6, <1>7

(* A thread gets its next entry. *)
LEMMA VisitIInv ==
    ASSUME IInv, NEW t \in Threads, Visit(t)
    PROVE  IInv'
<1>1. PICK i \in todo :
        /\ todo' = todo \ {i} /\ UNCHANGED <<setting, files, failed>>
        /\ IF entries[i] = WalkError THEN Leave(t, FALSE)
           ELSE thread' = [thread EXCEPT ![t] = [Idle EXCEPT !.pc = "read", !.path = entries[i]]]
                /\ UNCHANGED ok
  BY DEF Visit
<1>2. failed' \subseteq Paths /\ todo' \subseteq todo
  BY <1>1 DEF IInv, TypeOK
<1>3. CASE entries[i] = WalkError
  BY <1>1, <1>2, <1>3, LeaveIInv DEF Leave
<1>4. CASE entries[i] # WalkError
  <2> DEFINE j == [Idle EXCEPT !.pc = "read", !.path = entries[i]]
  <2>1. entries[i] \in Paths /\ entries[i] \in Visited
    BY <1>4, EntryCases DEF IInv
  <2>2. j \in Job /\ j.pc = "read" /\ j.path = entries[i]
    BY <2>1 DEF Job, Idle
  <2>3. thread' = [thread EXCEPT ![t] = j] /\ ok' = ok
    BY <1>1, <1>4
  <2> HIDE DEF j
  <2> QED
    BY <1>1, <1>2, <2>1, <2>2, <2>3, JobIInv
<1> QED
  BY <1>3, <1>4

(* A thread reads its file: one that is not to be written is as it was.     *)
LEMMA ReadIInv ==
    ASSUME IInv, NEW t \in Threads, Read(t)
    PROVE  IInv'
<1> DEFINE j == [thread[t] EXCEPT !.pc = "process", !.source = files[thread[t].path]]
<1>1. thread[t] \in Job /\ thread[t].path \in Paths
  BY AtWork DEF IInv, Read, Job
<1>2. files[thread[t].path] \in Contents \cup {Empty}
  BY <1>1 DEF IInv, TypeOK
<1>3. /\ j \in Job /\ j.pc = "process" /\ j.path = thread[t].path
      /\ j.source = files[thread[t].path]
  BY <1>1, <1>2 DEF Job
<1>4. thread[t].path \in Visited
  BY DEF IInv, AtWorkVisited, Read
<1>5. ~ToWrite(j.path) => j.source = original[j.path]
  BY <1>1, <1>3 DEF IInv, Untouched
<1>6. thread' = [thread EXCEPT ![t] = j]
  BY <1>1 DEF Read, IInv, TypeOK
<1> HIDE DEF j
<1> QED
  BY <1>3, <1>4, <1>5, <1>6, JobIInv DEF Read

(* Every step keeps the invariant. *)
LEMMA NextIInv == IInv /\ [Next]_vars => IInv'
<1> SUFFICES ASSUME IInv, [Next]_vars PROVE IInv'
  OBVIOUS
<1>1. CASE UNCHANGED vars
  <2>1. /\ UNCHANGED <<todo, files, thread, failed, ok>>
        /\ mode' = mode /\ original' = original /\ unreadable' = unreadable /\ denied' = denied /\ entries' = entries
    BY <1>1 DEF vars, setting
  <2> QED
    BY <2>1 DEF IInv, TypeOK, Untouched, HeldSource, WritersAllowed, AtWorkVisited, WriteParses, ReadAllowed,
                ToWrite, InPlace, Visited, Allowed, Formats, Stable, Parses
<1>2. ASSUME NEW t \in Threads, Step(t) PROVE IInv'
  <2>0. failed \subseteq Paths
    BY DEF IInv, TypeOK
  <2>1. CASE Visit(t)
    BY <2>1, VisitIInv
  <2>2. CASE Read(t)
    BY <2>2, ReadIInv
  <2>3. CASE ReadFails(t)
    BY <2>0, <2>3, LeaveIInv DEF ReadFails, Leave
  <2>4. CASE ProcessOnly(t)
    <3>1. thread' = [thread EXCEPT ![t] = Idle] /\ ok' \in BOOLEAN
      BY <2>4 DEF ProcessOnly, Leave
    <3> QED
      BY <2>0, <2>4, <3>1, LeaveIInv DEF ProcessOnly
  <2>5. CASE Create(t)
    BY <2>5, CreateIInv
  <2>6. CASE CreateFails(t)
    BY <2>0, <2>6, LeaveIInv DEF CreateFails, Leave
  <2>7. CASE Write(t)
    BY <2>7, WriteIInv
  <2>8. CASE WriteFails(t)
    <3>1. thread[t].path \in Paths
      BY <2>8, AtWork DEF WriteFails, IInv, Job
    <3> QED
      BY <2>0, <2>8, <3>1, LeaveIInv DEF WriteFails, Leave
  <2> QED
    BY <1>2, <2>1, <2>2, <2>3, <2>4, <2>5, <2>6, <2>7, <2>8 DEF Step
<1> QED
  BY <1>1, <1>2 DEF Next

-----------------------------------------------------------------------------
(* The strengthened invariant holds whatever the threads do. *)
THEOREM WalkerInvariant == Spec => []IInv
BY InitIInv, NextIInv, PTL DEF Spec

(* The types, for any number of threads and files. *)
THEOREM WalkerTyped == Spec => []TypeOK
<1>1. IInv => TypeOK
  BY DEF IInv
<1> QED
  BY <1>1, WalkerInvariant, PTL

(* The files of a step that changes one are to be written. *)
LEMMA StepTouches ==
    ASSUME IInv, [Next]_vars, NEW p \in Paths, files'[p] # files[p]
    PROVE  ToWrite(p)
<1>1. files' # files
  OBVIOUS
<1>2. PICK t \in Threads : Create(t) \/ Write(t)
  BY <1>1 DEF Next, Step, Visit, Read, ReadFails, ProcessOnly, CreateFails, WriteFails, vars
<1>3. p = thread[t].path
  BY <1>2 DEF Create, Write, IInv, TypeOK
<1>4. CASE Create(t)
  BY <1>3, <1>4, StaleToWrite DEF Create
<1>5. CASE Write(t)
  BY <1>3, <1>5 DEF Write, IInv, WritersAllowed
<1> QED
  BY <1>2, <1>4, <1>5

(* Files that are formatted already, do not parse, or were not asked to be  *)
(* written are never opened for writing: however many threads there are and *)
(* however the arguments overlap.                                           *)
THEOREM StaleOnly == Spec => OnlyStaleTouched
<1>1. IInv /\ [Next]_vars =>
        [\A p \in Paths : files'[p] # files[p] =>
            InPlace /\ p \in Visited \cap Allowed /\ Formats(original[p]) /\ ~Stable(original[p])]_vars
  BY StepTouches DEF ToWrite
<1> QED
  BY <1>1, WalkerInvariant, PTL DEF Spec, OnlyStaleTouched

-----------------------------------------------------------------------------
(* Formatting settles: the output of the second run, if there is one, is    *)
(* stable.  Without it a file that is given three times may change thrice.  *)
Settles == \A c \in DOMAIN Formatted :
    Parses(Formatted[c]) => Stable(Formatted[Formatted[c]])

AtWorkOn(t, p) == thread[t].pc # "idle" /\ thread[t].path = p

-----------------------------------------------------------------------------
(* When no file is given twice, nobody else works on a thread's file, it is *)
(* as it was until the thread writes it, and so is one not handed out yet.  *)
AlonePending ==
    \A i \in todo : entries[i] # WalkError =>
        /\ \A t \in Threads : ~AtWorkOn(t, entries[i])
        /\ files[entries[i]] = original[entries[i]]
AloneThreads == \A t, u \in Threads :
    thread[t].pc # "idle" /\ AtWorkOn(u, thread[t].path) => t = u
AloneFiles == \A t \in Threads :
    /\ thread[t].pc \in {"read", "process"} => files[thread[t].path] = original[thread[t].path]
    /\ thread[t].pc \in {"process", "write"} => thread[t].source = original[thread[t].path]

Alone == ~Overlap => AlonePending /\ AloneThreads /\ AloneFiles

(* What a file to be written may hold: what it held, nothing, that          *)
(* formatted once, or twice when it was given twice.                        *)
Once(p)  == Formatted[original[p]]
Again(p) == mode = "format" /\ Overlap /\ Parses(Once(p))
Known(p) == {original[p], Empty, Once(p)} \cup {c \in {Formatted[Once(p)]} : Again(p)}

KnownFiles == \A p \in Paths : ToWrite(p) => files[p] \in Known(p)
KnownSources == \A t \in Threads :
    /\ thread[t].pc = "process" /\ ToWrite(thread[t].path) => thread[t].source \in Known(thread[t].path)
    /\ thread[t].pc = "write" => \/ thread[t].source = original[thread[t].path]
                                 \/ Again(thread[t].path) /\ thread[t].source = Once(thread[t].path)

(* A file that is empty is being written, or its write failed; one that is  *)
(* still to be formatted has an entry or a thread that will.                *)
EmptyPending == \A p \in Paths : files[p] = Empty =>
    p \in failed \/ \E t \in Threads : thread[t].pc = "write" /\ thread[t].path = p
Coming(p) ==
    \/ \E i \in todo : entries[i] = p
    \/ \E t \in Threads : /\ thread[t].path = p
                          /\ \/ thread[t].pc = "read"
                             \/ thread[t].pc = "process" /\ thread[t].source = original[p]
RawPending == \A p \in Paths : ToWrite(p) /\ files[p] = original[p] => Coming(p)

(* The status of what was handed out and is not worked on.                  *)
Good(i) == entries[i] # WalkError /\ ((\E t \in Threads : AtWorkOn(t, entries[i])) \/ Fine(entries[i]))
StatusSoFar ==
    ~Overlap => (ok <=> failed = {} /\ \A i \in DOMAIN entries \ todo : Good(i))

-----------------------------------------------------------------------------
(* The steps, by what they do to a thread, the files and the status.        *)
Same == /\ mode' = mode /\ original' = original /\ unreadable' = unreadable
        /\ denied' = denied /\ entries' = entries
Others(t) == \A u \in Threads : u # t => thread'[u] = thread[u]

Refuses(t, i) ==
    /\ entries[i] = WalkError /\ todo' = todo \ {i} /\ thread[t].pc = "idle"
    /\ thread'[t].pc = "idle" /\ files' = files /\ failed' = failed /\ ok' = FALSE
Begins(t, i) ==
    /\ entries[i] \in Paths /\ todo' = todo \ {i} /\ thread[t].pc = "idle"
    /\ thread'[t].pc = "read" /\ thread'[t].path = entries[i]
    /\ files' = files /\ failed' = failed /\ ok' = ok
Reads(t) ==
    /\ thread[t].pc = "read" /\ thread'[t].pc = "process" /\ thread'[t].path = thread[t].path
    /\ thread'[t].source = files[thread[t].path]
    /\ todo' = todo /\ files' = files /\ failed' = failed /\ ok' = ok
Ends(t) ==
    /\ thread[t].pc # "idle" /\ thread'[t].pc = "idle" /\ todo' = todo /\ files' = files
    /\ \/ ReadFails(t) \/ ProcessOnly(t) \/ CreateFails(t) \/ WriteFails(t)
Truncates(t) ==
    /\ Stale(t) /\ ToWrite(thread[t].path) /\ thread'[t].pc = "write"
    /\ thread'[t].path = thread[t].path /\ thread'[t].source = thread[t].source
    /\ files' = [files EXCEPT ![thread[t].path] = Empty]
    /\ todo' = todo /\ failed' = failed /\ ok' = ok
Puts(t) ==
    /\ thread[t].pc = "write" /\ ToWrite(thread[t].path) /\ Parses(thread[t].source)
    /\ thread'[t].pc = "idle"
    /\ files' = [files EXCEPT ![thread[t].path] = Formatted[thread[t].source]]
    /\ todo' = todo /\ failed' = failed /\ ok' = ok

Shape(t) ==
    /\ Same /\ Others(t)
    /\ \/ \E i \in todo : Refuses(t, i) \/ Begins(t, i)
       \/ Reads(t) \/ Ends(t) \/ Truncates(t) \/ Puts(t)

(* A step of a thread has one of these shapes.                              *)
LEMMA StepShape ==
    ASSUME IInv, NEW t \in Threads, Step(t)
    PROVE  Shape(t)
<1>0. TypeOK /\ thread \in [Threads -> {Idle} \cup Job] /\ ok \in BOOLEAN
  BY DEF IInv, TypeOK, Job
<1>1. Idle.pc = "idle" /\ (thread[t].pc # "idle" => thread[t] \in Job)
  BY <1>0, AtWork DEF Idle
<1>2. ASSUME thread' = [thread EXCEPT ![t] = Idle] PROVE Others(t) /\ thread'[t].pc = "idle"
  BY <1>0, <1>1, <1>2 DEF Others
<1>3. CASE Visit(t)
  <2>1. PICK i \in todo :
          /\ todo' = todo \ {i} /\ UNCHANGED <<setting, files, failed>> /\ thread[t].pc = "idle"
          /\ IF entries[i] = WalkError THEN Leave(t, FALSE)
             ELSE thread' = [thread EXCEPT ![t] = [Idle EXCEPT !.pc = "read", !.path = entries[i]]]
                  /\ UNCHANGED ok
    BY <1>3 DEF Visit
  <2>2. Same
    BY <2>1 DEF Same, setting
  <2>3. CASE entries[i] = WalkError
    <3>1. thread' = [thread EXCEPT ![t] = Idle] /\ ok' = FALSE
      BY <2>1, <2>3 DEF Leave
    <3>2. Refuses(t, i)
      BY <1>2, <2>1, <2>3, <3>1 DEF Refuses
    <3> QED
      BY <1>2, <2>2, <3>1, <3>2 DEF Shape
  <2>4. CASE entries[i] # WalkError
    <3> DEFINE j == [Idle EXCEPT !.pc = "read", !.path = entries[i]]
    <3>1. entries[i] \in Paths /\ j.pc = "read" /\ j.path = entries[i]
      BY <1>0, <2>4, EntryCases DEF Idle
    <3>2. thread' = [thread EXCEPT ![t] = j] /\ ok' = ok
      BY <2>1, <2>4
    <3> HIDE DEF j
    <3>3. Others(t) /\ thread'[t] = j
      BY <1>0, <3>2 DEF Others
    <3>4. Begins(t, i)
      BY <2>1, <3>1, <3>2, <3>3 DEF Begins
    <3> QED
      BY <2>2, <3>3, <3>4 DEF Shape
  <2> QED
    BY <2>3, <2>4
<1>4. CASE Read(t)
  <2> DEFINE j == [thread[t] EXCEPT !.pc = "process", !.source = files[thread[t].path]]
  <2>1. thread' = [thread EXCEPT ![t] = j] /\ thread[t].pc = "read"
    BY <1>0, <1>4 DEF Read
  <2>2. j.pc = "process" /\ j.path = thread[t].path /\ j.source = files[thread[t].path]
    BY <1>1, <2>1 DEF Job
  <2> HIDE DEF j
  <2>3. Others(t) /\ thread'[t] = j
    BY <1>0, <2>1 DEF Others
  <2>4. Same /\ todo' = todo /\ files' = files /\ failed' = failed /\ ok' = ok
    BY <1>4 DEF Read, Same, setting
  <2> QED
    BY <2>1, <2>2, <2>3, <2>4 DEF Shape, Reads
<1>5. CASE ReadFails(t) \/ ProcessOnly(t) \/ CreateFails(t) \/ WriteFails(t)
  <2>1. thread' = [thread EXCEPT ![t] = Idle]
    BY <1>5 DEF ReadFails, ProcessOnly, CreateFails, WriteFails, Leave
  <2>2. thread[t].pc # "idle" /\ Same /\ todo' = todo /\ files' = files
    BY <1>5 DEF ReadFails, ProcessOnly, CreateFails, WriteFails, Same, setting, Stale
  <2> QED
    BY <1>2, <1>5, <2>1, <2>2 DEF Shape, Ends
<1>6. CASE Create(t)
  <2> DEFINE j == [thread[t] EXCEPT !.pc = "write"]
  <2>1. thread' = [thread EXCEPT ![t] = j] /\ thread[t].pc = "process"
    BY <1>0, <1>6 DEF Create, Stale, Goto
  <2>2. j.pc = "write" /\ j.path = thread[t].path /\ j.source = thread[t].source
    BY <1>1, <2>1 DEF Job
  <2> HIDE DEF j
  <2>3. Others(t) /\ thread'[t] = j
    BY <1>0, <2>1 DEF Others
  <2>4. /\ Same /\ todo' = todo /\ failed' = failed /\ ok' = ok
        /\ files' = [files EXCEPT ![thread[t].path] = Empty]
    BY <1>6 DEF Create, Same, setting
  <2>5. Stale(t) /\ ToWrite(thread[t].path)
    BY <1>6, StaleToWrite DEF Create
  <2> QED
    BY <2>2, <2>3, <2>4, <2>5 DEF Shape, Truncates
<1>7. CASE Write(t)
  <2>1. thread' = [thread EXCEPT ![t] = Idle] /\ ok' = (ok /\ TRUE) /\ thread[t].pc = "write"
    BY <1>7 DEF Write, Leave
  <2>2. ok' = ok
    BY <1>0, <2>1
  <2>3. ToWrite(thread[t].path) /\ Parses(thread[t].source)
    BY <2>1 DEF IInv, WritersAllowed, WriteParses
  <2>4. /\ Same /\ todo' = todo /\ failed' = failed
        /\ files' = [files EXCEPT ![thread[t].path] = Formatted[thread[t].source]]
    BY <1>7 DEF Write, Same, setting
  <2> QED
    BY <1>2, <2>1, <2>2, <2>3, <2>4 DEF Shape, Puts
<1> QED
  BY <1>3, <1>4, <1>5, <1>6, <1>7 DEF Step

(* What the settings decide stays.                                          *)
LEMMA SameFacts ==
    ASSUME Same
    PROVE  /\ Overlap' = Overlap /\ Visited' = Visited /\ InPlace' = InPlace /\ Allowed' = Allowed
           /\ \A c : Formats(c)' = Formats(c)
           /\ \A p : ToWrite(p)' = ToWrite(p) /\ Fine(p)' = Fine(p) /\ Once(p)' = Once(p)
           /\ \A p : Again(p)' = Again(p) /\ Known(p)' = Known(p)
BY DEF Same, Overlap, Visited, InPlace, Allowed, ToWrite, Fine, Once, Again, Known, Formats, Stable, Parses

(* Only a thread that begins works on a path it did not work on.            *)
LEMMA WorkShrinks ==
    ASSUME NEW t \in Threads, Others(t), Reads(t) \/ Ends(t) \/ Truncates(t) \/ Puts(t)
    PROVE  \A u \in Threads : \A p : AtWorkOn(u, p)' => AtWorkOn(u, p)
BY DEF Others, Reads, Ends, Truncates, Puts, Stale, AtWorkOn

-----------------------------------------------------------------------------
(* At the start nothing is worked on and every file is as it was.           *)
LEMMA InitAlone == Init => Alone
<1> SUFFICES ASSUME Init PROVE Alone
  OBVIOUS
<1>1. (\A t \in Threads : thread[t].pc = "idle") /\ files = original
  BY DEF Init, Idle
<1> QED
  BY <1>1 DEF Alone, AlonePending, AloneThreads, AloneFiles, AtWorkOn

(* A step of a thread keeps it alone on its file.                           *)
LEMMA StepAlone ==
    ASSUME IInv, Alone, NEW t \in Threads, Shape(t)
    PROVE  Alone'
<1>0. TypeOK /\ files \in [Paths -> Contents \cup {Empty}] /\ Same /\ Others(t) /\ entries' = entries
      /\ original' = original
  BY DEF IInv, TypeOK, Shape, Same
<1>1. SUFFICES ASSUME ~Overlap PROVE AlonePending' /\ AloneThreads' /\ AloneFiles'
  BY <1>0, SameFacts DEF Alone
<1>2. AlonePending /\ AloneThreads /\ AloneFiles
  BY <1>1 DEF Alone
<1>3. \A i \in todo : i \in DOMAIN entries /\ entries[i] \in Paths \cup {WalkError}
  BY <1>0, EntryCases
<1>4. ASSUME NEW i \in todo, Refuses(t, i) PROVE AlonePending' /\ AloneThreads' /\ AloneFiles'
  <2>1. \A u \in Threads : \A p : AtWorkOn(u, p)' => AtWorkOn(u, p)
    BY <1>0, <1>4 DEF Others, Refuses, AtWorkOn
  <2>2. AlonePending'
    BY <1>0, <1>2, <1>4, <2>1 DEF AlonePending, Refuses
  <2> QED
    BY <1>0, <1>2, <1>4, <2>1, <2>2 DEF AloneThreads, AloneFiles, Refuses, Others, AtWorkOn
<1>5. ASSUME NEW i \in todo, Begins(t, i) PROVE AlonePending' /\ AloneThreads' /\ AloneFiles'
  <2>1. \A u \in Threads : ~AtWorkOn(u, entries[i])
    BY <1>2, <1>5, FormatterAssumption DEF AlonePending, Begins
  <2>2. files[entries[i]] = original[entries[i]]
    BY <1>2, <1>5, FormatterAssumption DEF AlonePending, Begins
  <2>3. \A k \in todo' : k \in todo /\ entries[k] # entries[i]
    BY <1>1, <1>3, <1>5 DEF Begins, Overlap
  <2>4. AlonePending'
    BY <1>0, <1>2, <1>5, <2>3 DEF AlonePending, Begins, Others, AtWorkOn
  <2>5. AloneThreads'
    BY <1>0, <1>2, <1>5, <2>1 DEF AloneThreads, Begins, Others, AtWorkOn
  <2>6. AloneFiles'
    BY <1>0, <1>2, <1>5, <2>2 DEF AloneFiles, Begins, Others
  <2> QED
    BY <2>4, <2>5, <2>6
<1>6. CASE Reads(t)
  <2>1. \A u \in Threads : \A p : AtWorkOn(u, p)' => AtWorkOn(u, p)
    BY <1>0, <1>6, WorkShrinks
  <2>2. AlonePending'
    BY <1>0, <1>2, <1>6, <2>1 DEF AlonePending, Reads
  <2>3. AloneThreads'
    BY <1>0, <1>2, <1>6 DEF AloneThreads, Reads, Others, AtWorkOn
  <2>4. AloneFiles'
    BY <1>0, <1>2, <1>6 DEF AloneFiles, Reads, Others
  <2> QED
    BY <2>2, <2>3, <2>4
<1>7. CASE Ends(t)
  <2>1. \A u \in Threads : \A p : AtWorkOn(u, p)' => AtWorkOn(u, p)
    BY <1>0, <1>7, WorkShrinks
  <2>2. todo' = todo /\ files' = files /\ thread'[t].pc = "idle"
    BY <1>7 DEF Ends
  <2>3. AlonePending'
    BY <1>0, <1>2, <2>1, <2>2 DEF AlonePending
  <2> QED
    BY <1>0, <1>2, <2>2, <2>3 DEF AloneThreads, AloneFiles, Others, AtWorkOn
<1>8. CASE Truncates(t) \/ Puts(t)
  <2> DEFINE p == thread[t].path
  <2>1. \A u \in Threads : \A q : AtWorkOn(u, q)' => AtWorkOn(u, q)
    BY <1>0, <1>8, WorkShrinks
  <2>2. AtWorkOn(t, p) /\ todo' = todo /\ \A q \in Paths : q # p => files'[q] = files[q]
    BY <1>0, <1>8 DEF Truncates, Puts, Stale, AtWorkOn
  <2>3. AlonePending'
    BY <1>0, <1>2, <1>3, <2>1, <2>2 DEF AlonePending
  <2>4. AloneThreads'
    BY <1>0, <1>2, <1>8, <2>1 DEF AloneThreads, Truncates, Puts, Stale, Others, AtWorkOn
  <2>5. ASSUME NEW u \in Threads, u # t, thread[u].pc # "idle"
        PROVE  thread[u].path \in Paths /\ thread[u].path # p
    BY <1>0, <1>2, <2>2, <2>5, AtWork DEF AloneThreads, AtWorkOn, Job
  <2>6. ASSUME NEW u \in Threads, u # t
        PROVE  /\ thread'[u].pc \in {"read", "process"} => files'[thread'[u].path] = original[thread'[u].path]
               /\ thread'[u].pc \in {"process", "write"} => thread'[u].source = original[thread'[u].path]
    BY <1>0, <1>2, <2>2, <2>5, <2>6 DEF AloneFiles, Others
  <2>7. /\ thread'[t].pc \notin {"read", "process"}
        /\ thread'[t].pc = "write" => thread'[t].source = original[thread'[t].path]
    BY <1>2, <1>8 DEF AloneFiles, Truncates, Puts, Stale
  <2> QED
    BY <1>0, <2>3, <2>4, <2>6, <2>7 DEF AloneFiles
<1> QED
  BY <1>4, <1>5, <1>6, <1>7, <1>8 DEF Shape

-----------------------------------------------------------------------------
(* What becomes of the files, by the steps.                                 *)
Course == KnownFiles /\ KnownSources /\ EmptyPending /\ RawPending

LEMMA InitCourse == Init => Course
<1> SUFFICES ASSUME Init PROVE Course
  OBVIOUS
<1>1. /\ \A t \in Threads : thread[t].pc = "idle"
      /\ files = original /\ original \in [Paths -> Contents] /\ todo = DOMAIN entries
  BY DEF Init, Idle
<1>2. KnownFiles /\ KnownSources
  BY <1>1 DEF KnownFiles, KnownSources, Known
<1>3. EmptyPending
  BY <1>1, FormatterAssumption DEF EmptyPending
<1>4. RawPending
  BY <1>1 DEF RawPending, Coming, ToWrite, Visited
<1> QED
  BY <1>2, <1>3, <1>4 DEF Course

(* The output of a file to be written is a content and not what it held.    *)
LEMMA OnceIsNew ==
    ASSUME TypeOK, NEW p \in Paths, ToWrite(p)
    PROVE  /\ Parses(original[p]) /\ Once(p) \in Contents /\ Once(p) # original[p]
           /\ Parses(Once(p)) => Formatted[Once(p)] \in Contents
           /\ mode = "verify" => Stable(Once(p))
           /\ InPlace
<1>1. Parses(original[p]) /\ ~Stable(original[p]) /\ (mode = "verify" => Stable(Once(p))) /\ InPlace
  BY DEF ToWrite, Formats, Once
<1>2. Once(p) \in Contents /\ (Parses(Once(p)) => Formatted[Once(p)] \in Contents)
  BY <1>1, FormatterAssumption DEF Parses, Once
<1> QED
  BY <1>1, <1>2 DEF Stable, Once

(* A stale source is what the file held or, when the file is given twice,   *)
(* that formatted: a second output is never stale.                          *)
LEMMA StaleSource ==
    ASSUME Settles, IInv, Alone, KnownSources, NEW t \in Threads, Stale(t), ToWrite(thread[t].path)
    PROVE  \/ thread[t].source = original[thread[t].path]
           \/ Again(thread[t].path) /\ thread[t].source = Once(thread[t].path)
<1> DEFINE p == thread[t].path
           c == thread[t].source
<1>1. thread[t].pc = "process" /\ p \in Paths /\ Parses(c) /\ ~Stable(c) /\ InPlace
  BY AtWork DEF IInv, Stale, Formats, Unchanged, Stable, Job
<1>2. c \in Known(p)
  BY <1>1 DEF KnownSources
<1>3. c # Empty
  BY <1>1, FormatterAssumption DEF Parses
<1>4. CASE c = Once(p) /\ c # original[p]
  <2>1. mode = "format"
    BY <1>1, <1>4, OnceIsNew DEF IInv, InPlace
  <2>2. Overlap
    BY <1>1, <1>4 DEF Alone, AloneFiles
  <2> QED
    BY <1>1, <1>4, <2>1, <2>2 DEF Again
<1>5. CASE Again(p) /\ c = Formatted[Once(p)]
  <2>1. Parses(original[p]) /\ Parses(Once(p))
    BY <1>1, <1>5, OnceIsNew DEF IInv, Again
  <2>2. Stable(Formatted[Once(p)])
    BY <2>1 DEF Settles, Parses, Once
  <2> QED
    BY <1>1, <1>5, <2>2
<1> QED
  BY <1>2, <1>3, <1>4, <1>5 DEF Known

(* A second output is not what the file held.                               *)
LEMMA AgainIsNew ==
    ASSUME Settles, TypeOK, NEW p \in Paths, ToWrite(p), Again(p)
    PROVE  Formatted[Once(p)] # original[p]
<1>1. Parses(original[p]) /\ Parses(Once(p)) /\ ~Stable(original[p])
  BY DEF ToWrite, Formats, Again
<1>2. Stable(Formatted[Once(p)])
  BY <1>1 DEF Settles, Parses, Once
<1> QED
  BY <1>1, <1>2

(* What a thread writes is the first output or the second, new either way.  *)
LEMMA PutsNew ==
    ASSUME Settles, IInv, KnownSources, NEW t \in Threads, Puts(t)
    PROVE  /\ Formatted[thread[t].source] \in Known(thread[t].path)
           /\ Formatted[thread[t].source] \in Contents
           /\ Formatted[thread[t].source] # original[thread[t].path]
<1> DEFINE p == thread[t].path
<1>1. /\ p \in Paths /\ ToWrite(p) /\ TypeOK
      /\ thread[t].source = original[p] \/ (Again(p) /\ thread[t].source = Once(p))
  BY AtWork DEF IInv, Puts, KnownSources, Job
<1>2. CASE thread[t].source = original[p]
  BY <1>1, <1>2, OnceIsNew DEF Once, Known
<1>3. CASE Again(p) /\ thread[t].source = Once(p)
  BY <1>1, <1>3, OnceIsNew, AgainIsNew DEF Again, Known
<1> QED
  BY <1>1, <1>2, <1>3

(* The four parts of the course, kept by every step of a thread.            *)
LEMMA StepKnown ==
    ASSUME Settles, IInv, Alone, Course, NEW t \in Threads, Shape(t)
    PROVE  KnownFiles' /\ KnownSources'
<1>0. /\ files \in [Paths -> Contents \cup {Empty}] /\ Same /\ Others(t) /\ original' = original
      /\ KnownFiles /\ KnownSources
  BY DEF IInv, TypeOK, Shape, Same, Course
<1>1. /\ \A p : ToWrite(p)' = ToWrite(p) /\ Once(p)' = Once(p)
      /\ \A p : Again(p)' = Again(p) /\ Known(p)' = Known(p)
  BY <1>0, SameFacts
<1>2. ASSUME NEW u \in Threads, u # t
      PROVE  /\ thread'[u].pc = "process" /\ ToWrite(thread'[u].path)
                => thread'[u].source \in Known(thread'[u].path)
             /\ thread'[u].pc = "write" =>
                  \/ thread'[u].source = original[thread'[u].path]
                  \/ Again(thread'[u].path) /\ thread'[u].source = Once(thread'[u].path)
  BY <1>0, <1>1, <1>2 DEF KnownSources, Others
<1>3. CASE (\E i \in todo : Refuses(t, i) \/ Begins(t, i)) \/ Ends(t)
  <2>1. files' = files /\ thread'[t].pc \notin {"process", "write"}
    BY <1>3 DEF Refuses, Begins, Ends
  <2> QED
    BY <1>0, <1>1, <1>2, <2>1 DEF KnownFiles, KnownSources
<1>4. CASE Reads(t)
  <2>1. thread[t].path \in Paths
    BY <1>4, AtWork DEF IInv, Reads, Job
  <2>2. /\ files' = files /\ thread'[t].pc = "process"
        /\ ToWrite(thread'[t].path) => thread'[t].source \in Known(thread'[t].path)
    BY <1>0, <1>4, <2>1 DEF Reads, KnownFiles
  <2> QED
    BY <1>0, <1>1, <1>2, <2>2 DEF KnownFiles, KnownSources
<1>5. CASE Truncates(t)
  <2>1. Empty \in Known(thread[t].path)
    BY DEF Known
  <2>2. KnownFiles'
    BY <1>0, <1>1, <1>5, <2>1 DEF KnownFiles, Truncates
  <2>3. /\ thread'[t].pc = "write" /\ thread'[t].path = thread[t].path /\ thread'[t].source = thread[t].source
        /\ \/ thread[t].source = original[thread[t].path]
           \/ Again(thread[t].path) /\ thread[t].source = Once(thread[t].path)
    BY <1>0, <1>5, StaleSource DEF Truncates
  <2> QED
    BY <1>0, <1>1, <1>2, <2>2, <2>3 DEF KnownSources
<1>6. CASE Puts(t)
  <2>1. KnownFiles'
    BY <1>0, <1>1, <1>6, PutsNew DEF KnownFiles, Puts
  <2>2. thread'[t].pc = "idle"
    BY <1>6 DEF Puts
  <2> QED
    BY <1>0, <1>1, <1>2, <2>1, <2>2 DEF KnownSources
<1> QED
  BY <1>3, <1>4, <1>5, <1>6 DEF Shape

LEMMA StepEmpty ==
    ASSUME Settles, IInv, Course, NEW t \in Threads, Shape(t)
    PROVE  EmptyPending'
<1>0. files \in [Paths -> Contents \cup {Empty}] /\ Others(t) /\ EmptyPending
  BY DEF IInv, TypeOK, Shape, Course
<1>1. SUFFICES ASSUME NEW p \in Paths, files'[p] = Empty
               PROVE  p \in failed' \/ \E u \in Threads : thread'[u].pc = "write" /\ thread'[u].path = p
  BY DEF EmptyPending
<1>2. CASE (\E i \in todo : Refuses(t, i) \/ Begins(t, i)) \/ Reads(t)
  <2>1. files' = files /\ failed' = failed /\ thread[t].pc # "write"
    BY <1>2 DEF Refuses, Begins, Reads
  <2> QED
    BY <1>0, <1>1, <2>1 DEF EmptyPending, Others
<1>3. CASE Ends(t)
  <2>1. files' = files /\ failed \subseteq failed' /\ (thread[t].pc = "write" => thread[t].path \in failed')
    BY <1>3 DEF Ends, ReadFails, ProcessOnly, CreateFails, WriteFails, Stale
  <2> QED
    BY <1>0, <1>1, <2>1 DEF EmptyPending, Others
<1>4. CASE Truncates(t)
  BY <1>0, <1>1, <1>4 DEF EmptyPending, Truncates, Stale, Others
<1>5. CASE Puts(t)
  <2>1. Formatted[thread[t].source] # Empty
    BY <1>5, PutsNew, FormatterAssumption DEF Course
  <2>2. p # thread[t].path /\ files[p] = Empty /\ failed' = failed
    BY <1>0, <1>1, <1>5, <2>1 DEF Puts
  <2> QED
    BY <1>0, <1>1, <2>2 DEF EmptyPending, Others
<1> QED
  BY <1>2, <1>3, <1>4, <1>5 DEF Shape

(* A thread that holds what the file held does not leave without writing.   *)
LEMMA EndsNothing ==
    ASSUME IInv, NEW t \in Threads, Ends(t), NEW p \in Paths, ToWrite(p), thread[t].path = p,
           thread[t].pc = "read" \/ (thread[t].pc = "process" /\ thread[t].source = original[p])
    PROVE  FALSE
<1>1. /\ p \notin unreadable /\ p \notin denied /\ InPlace
      /\ Formats(original[p]) /\ ~Unchanged(original[p])
  BY DEF ToWrite, Allowed, Formats, Stable, Unchanged
<1>2. ~ReadFails(t) /\ ~CreateFails(t) /\ ~WriteFails(t)
  BY <1>1 DEF ReadFails, CreateFails, WriteFails, Stale
<1>3. ~ProcessOnly(t)
  BY <1>1 DEF ProcessOnly, InPlace
<1> QED
  BY <1>2, <1>3 DEF Ends

LEMMA StepRaw ==
    ASSUME Settles, IInv, Course, NEW t \in Threads, Shape(t)
    PROVE  RawPending'
<1>0. /\ files \in [Paths -> Contents \cup {Empty}] /\ original \in [Paths -> Contents]
      /\ Same /\ Others(t) /\ RawPending /\ entries' = entries /\ original' = original
  BY DEF IInv, TypeOK, Shape, Course, Same
<1>1. SUFFICES ASSUME NEW p \in Paths, ToWrite(p), files'[p] = original[p]
               PROVE  Coming(p)'
  BY <1>0, SameFacts DEF RawPending
<1>2. ASSUME NEW u \in Threads, u # t, thread[u].path = p,
             thread[u].pc = "read" \/ (thread[u].pc = "process" /\ thread[u].source = original[p])
      PROVE  Coming(p)'
  BY <1>0, <1>2 DEF Coming, Others
<1>3. CASE \E i \in todo : Refuses(t, i) \/ Begins(t, i)
  <2>1. PICK i \in todo : Refuses(t, i) \/ Begins(t, i)
    BY <1>3
  <2>2. files[p] = original[p] /\ todo' = todo \ {i} /\ thread[t].pc = "idle"
    BY <1>1, <2>1 DEF Refuses, Begins
  <2>3. ASSUME NEW k \in todo, entries[k] = p PROVE Coming(p)'
    <3>1. CASE k # i
      BY <1>0, <2>2, <2>3, <3>1 DEF Coming
    <3>2. CASE k = i
      <4>1. Begins(t, i)
        BY <2>1, <2>3, <3>2, FormatterAssumption DEF Refuses
      <4> QED
        BY <1>0, <2>3, <3>2, <4>1 DEF Begins, Coming
    <3> QED
      BY <3>1, <3>2
  <2> QED
    BY <1>0, <1>1, <1>2, <2>2, <2>3 DEF RawPending, Coming
<1>4. CASE Reads(t)
  <2>1. files[p] = original[p] /\ todo' = todo
    BY <1>1, <1>4 DEF Reads
  <2>2. ASSUME thread[t].path = p PROVE Coming(p)'
    BY <1>0, <1>4, <2>1, <2>2 DEF Reads, Coming
  <2>3. ASSUME NEW k \in todo, entries[k] = p PROVE Coming(p)'
    BY <1>0, <2>1, <2>3 DEF Coming
  <2> QED
    BY <1>1, <1>0, <1>2, <2>1, <2>2, <2>3 DEF RawPending, Coming
<1>5. CASE Ends(t)
  <2>1. files[p] = original[p] /\ todo' = todo
    BY <1>1, <1>5 DEF Ends
  <2>2. ASSUME NEW k \in todo, entries[k] = p PROVE Coming(p)'
    BY <1>0, <2>1, <2>2 DEF Coming
  <2> QED
    BY <1>0, <1>1, <1>2, <1>5, <2>1, <2>2, EndsNothing DEF RawPending, Coming
<1>6. CASE Truncates(t) \/ Puts(t)
  <2>1. p # thread[t].path
    <3>1. Empty # original[p]
      BY <1>0, FormatterAssumption
    <3>2. Puts(t) => Formatted[thread[t].source] # original[thread[t].path]
      BY PutsNew DEF Course
    <3> QED
      BY <1>0, <1>1, <1>6, <3>1, <3>2 DEF Truncates, Puts
  <2>2. files[p] = original[p] /\ todo' = todo
    BY <1>0, <1>1, <1>6, <2>1 DEF Truncates, Puts
  <2>3. ASSUME NEW k \in todo, entries[k] = p PROVE Coming(p)'
    BY <1>0, <2>2, <2>3 DEF Coming
  <2> QED
    BY <1>0, <1>1, <1>2, <2>1, <2>2, <2>3 DEF RawPending, Coming
<1> QED
  BY <1>3, <1>4, <1>5, <1>6 DEF Shape

-----------------------------------------------------------------------------
(* A thread that leaves a file it was alone with answers for it.            *)
LEMMA EndsFine ==
    ASSUME IInv, AloneFiles, NEW t \in Threads, Ends(t), ok \in BOOLEAN
    PROVE  \/ failed' = failed /\ (ok' <=> ok /\ Fine(thread[t].path))
           \/ failed' # {} /\ ok' = FALSE
<1> DEFINE p == thread[t].path
           c == thread[t].source
<1>1. CASE WriteFails(t)
  BY <1>1 DEF WriteFails, Leave
<1>2. CASE ReadFails(t)
  BY <1>2 DEF ReadFails, Leave, Fine
<1>3. ASSUME thread[t].pc = "process" PROVE p \notin unreadable /\ c = original[p]
  BY <1>3 DEF IInv, ReadAllowed, AloneFiles
<1>4. CASE CreateFails(t)
  <2>1. /\ InPlace /\ Formats(c) /\ ~Stable(c) /\ p \in denied /\ c = original[p]
        /\ ok' = FALSE /\ failed' = failed
    BY <1>3, <1>4 DEF CreateFails, Leave, Stale, Formats, Unchanged, Stable
  <2> QED
    BY <2>1 DEF Fine, InPlace
<1>5. CASE ProcessOnly(t)
  <2>1. p \notin unreadable /\ c = original[p] /\ failed' = failed
    BY <1>3, <1>5 DEF ProcessOnly
  <2>2. CASE mode = "parse_only"
    BY <1>5, <2>1, <2>2 DEF ProcessOnly, Leave, Fine, InPlace
  <2>3. CASE mode = "dump"
    BY <1>5, <2>1, <2>3 DEF ProcessOnly, Leave, Fine, InPlace
  <2>4. CASE mode = "check"
    <3>1. \/ ~Formats(c) /\ ok' = FALSE
          \/ Formats(c) /\ ok' = (ok /\ Formatted[c] = c)
      BY <1>5, <2>4 DEF ProcessOnly, Leave, InPlace
    <3>2. (Fine(p) <=> Parses(c) /\ Formatted[c] = c) /\ (Formats(c) <=> Parses(c))
      BY <2>1, <2>4 DEF Fine, Stable, Formats
    <3> QED
      BY <2>1, <3>1, <3>2
  <2>5. CASE mode \notin {"parse_only", "dump", "check"}
    <3>1. \/ ~Formats(c) /\ ok' = FALSE
          \/ Formats(c) /\ Unchanged(c) /\ ok' = (ok /\ TRUE)
      BY <1>5, <2>5 DEF ProcessOnly, Leave
    <3>2. Fine(p) <=> Formats(c) /\ (Stable(c) \/ p \notin denied)
      BY <2>1, <2>5 DEF Fine
    <3>3. Formats(c) /\ Unchanged(c) => Stable(c)
      BY DEF Formats, Unchanged, Stable
    <3> QED
      BY <2>1, <3>1, <3>2, <3>3
  <2> QED
    BY <2>2, <2>3, <2>4, <2>5
<1> QED
  BY <1>1, <1>2, <1>4, <1>5 DEF Ends

LEMMA InitStatus == Init => StatusSoFar
BY DEF Init, StatusSoFar

(* The status tells of what was handed out, after every step of a thread.   *)
LEMMA StepStatus ==
    ASSUME IInv, Alone, StatusSoFar, NEW t \in Threads, Shape(t)
    PROVE  StatusSoFar'
<1>0. /\ TypeOK /\ Same /\ Others(t) /\ entries' = entries /\ ok \in BOOLEAN /\ todo \subseteq DOMAIN entries
      /\ \A p : Fine(p)' = Fine(p)
  BY SameFacts DEF IInv, TypeOK, Shape, Same
<1>1. SUFFICES ASSUME ~Overlap
               PROVE  ok' <=> failed' = {} /\ \A i \in DOMAIN entries \ todo' : Good(i)'
  BY <1>0, SameFacts DEF StatusSoFar
<1>2. /\ AlonePending /\ AloneThreads /\ AloneFiles
      /\ ok <=> failed = {} /\ \A i \in DOMAIN entries \ todo : Good(i)
  BY <1>1 DEF Alone, StatusSoFar
<1>3. ASSUME NEW i \in todo, Refuses(t, i)
      PROVE  ok' <=> failed' = {} /\ \A k \in DOMAIN entries \ todo' : Good(k)'
  <2>1. i \in DOMAIN entries \ todo' /\ ~Good(i)' /\ ok' = FALSE
    BY <1>0, <1>3 DEF Refuses, Good
  <2> QED
    BY <2>1
<1>4. ASSUME NEW i \in todo, Begins(t, i)
      PROVE  ok' <=> failed' = {} /\ \A k \in DOMAIN entries \ todo' : Good(k)'
  <2>1. Good(i)'
    BY <1>0, <1>4, FormatterAssumption DEF Begins, Good, AtWorkOn
  <2>2. ASSUME NEW k \in DOMAIN entries \ todo PROVE Good(k)' <=> Good(k)
    <3>1. entries[k] # entries[i]
      BY <1>0, <1>1, <1>4, <2>2 DEF Begins, Overlap
    <3>2. \A u \in Threads : AtWorkOn(u, entries[k])' <=> AtWorkOn(u, entries[k])
      BY <1>0, <1>4, <3>1 DEF Begins, Others, AtWorkOn
    <3> QED
      BY <1>0, <3>2 DEF Good
  <2>3. DOMAIN entries \ todo' = (DOMAIN entries \ todo) \cup {i} /\ failed' = failed /\ ok' = ok
    BY <1>0, <1>4 DEF Begins
  <2> QED
    BY <1>2, <2>1, <2>2, <2>3
<1>5. CASE Reads(t) \/ Truncates(t)
  <2>1. \A u \in Threads : \A p : AtWorkOn(u, p)' <=> AtWorkOn(u, p)
    BY <1>0, <1>5 DEF Reads, Truncates, Stale, Others, AtWorkOn
  <2>2. \A k : Good(k)' <=> Good(k)
    BY <1>0, <2>1 DEF Good
  <2>3. todo' = todo /\ failed' = failed /\ ok' = ok
    BY <1>5 DEF Reads, Truncates
  <2> QED
    BY <1>0, <1>2, <2>2, <2>3
<1>6. CASE Ends(t) \/ Puts(t)
  <2>0. PICK p \in Paths : p = thread[t].path
    BY <1>6, AtWork DEF Ends, Puts, IInv, Job
  <2>1. /\ todo' = todo /\ thread[t].pc # "idle" /\ thread'[t].pc = "idle"
        /\ p \in Visited /\ AtWorkOn(t, p)
    BY <1>0, <1>6, <2>0 DEF Ends, Puts, IInv, AtWorkVisited, AtWorkOn
  <2>2. PICK k \in DOMAIN entries : entries[k] = p
    BY <2>1 DEF Visited
  <2>3. k \notin todo /\ p # WalkError
    BY <1>2, <2>1, <2>2, FormatterAssumption DEF AlonePending
  <2>4. \A u \in Threads : ~AtWorkOn(u, p)'
    BY <1>0, <1>2, <2>1 DEF AloneThreads, Others, AtWorkOn
  <2>5. ASSUME NEW i \in DOMAIN entries \ todo, entries[i] # p PROVE Good(i)' <=> Good(i)
    <3>1. \A u \in Threads : AtWorkOn(u, entries[i])' <=> AtWorkOn(u, entries[i])
      BY <1>0, <2>1, <2>5 DEF Others, AtWorkOn
    <3> QED
      BY <1>0, <3>1 DEF Good
  <2>6. ASSUME NEW i \in DOMAIN entries \ todo, entries[i] = p PROVE Good(i) /\ (Good(i)' <=> Fine(p))
    BY <1>0, <2>1, <2>3, <2>4, <2>6 DEF Good
  <2>7. (\A i \in DOMAIN entries \ todo : Good(i)') <=>
          (\A i \in DOMAIN entries \ todo : Good(i)) /\ Fine(p)
    BY <2>2, <2>3, <2>5, <2>6
  <2>8. \/ failed' = failed /\ (ok' <=> ok /\ Fine(p))
        \/ failed' # {} /\ ok' = FALSE
    <3>1. CASE Ends(t)
      BY <1>0, <1>2, <2>0, <3>1, EndsFine
    <3>2. CASE Puts(t)
      <4>1. ToWrite(p) /\ ok' = ok /\ failed' = failed
        BY <2>0, <3>2 DEF Puts
      <4>2. Fine(p)
        BY <4>1 DEF ToWrite, Fine, InPlace, Allowed
      <4> QED
        BY <4>1, <4>2
    <3> QED
      BY <1>6, <3>1, <3>2
  <2> QED
    BY <1>0, <1>2, <2>1, <2>7, <2>8
<1> QED
  BY <1>3, <1>4, <1>5, <1>6 DEF Shape

-----------------------------------------------------------------------------
(* A step that changes nothing.                                             *)
LEMMA Stutter ==
    ASSUME UNCHANGED vars
    PROVE  (Alone => Alone') /\ (Course => Course') /\ (StatusSoFar => StatusSoFar')
<1>1. Same /\ UNCHANGED <<todo, files, thread, failed, ok>>
  BY DEF vars, setting, Same
<1>2. entries' = entries /\ original' = original
  BY <1>1 DEF Same
<1>3. Alone => Alone'
  BY <1>1, <1>2, SameFacts DEF Alone, AlonePending, AloneThreads, AloneFiles, AtWorkOn
<1>4. KnownFiles /\ KnownSources => KnownFiles' /\ KnownSources'
  BY <1>1, <1>2, SameFacts DEF KnownFiles, KnownSources
<1>5. EmptyPending /\ RawPending => EmptyPending' /\ RawPending'
  BY <1>1, <1>2, SameFacts DEF EmptyPending, RawPending, Coming
<1>6. StatusSoFar => StatusSoFar'
  BY <1>1, <1>2, SameFacts DEF StatusSoFar, Good, AtWorkOn
<1> QED
  BY <1>3, <1>4, <1>5, <1>6 DEF Course

(* A step of the walk is one of a thread or changes nothing.                *)
LEMMA NextShape ==
    ASSUME IInv, [Next]_vars
    PROVE  (\E t \in Threads : Shape(t)) \/ UNCHANGED vars
BY StepShape DEF Next

(* "each file is reformatted in place", for any number of threads and of    *)
(* arguments that overlap: in the end a file that formats holds its output  *)
(* or, when it was given twice, the output formatted once more; every other *)
(* file holds what it held.                                                 *)
THEOREM FilesEndDone ==
    ASSUME Settles
    PROVE  Spec => []FilesDone
<1>1. Init => IInv /\ Alone /\ Course
  BY InitIInv, InitAlone, InitCourse
<1>2. IInv /\ Alone /\ Course /\ [Next]_vars => (IInv /\ Alone /\ Course)'
  <2> SUFFICES ASSUME IInv, Alone, Course, [Next]_vars PROVE (IInv /\ Alone /\ Course)'
    OBVIOUS
  <2>1. IInv'
    BY NextIInv
  <2>2. ASSUME NEW t \in Threads, Shape(t) PROVE Alone' /\ Course'
    BY <2>2, StepAlone, StepKnown, StepEmpty, StepRaw DEF Course
  <2> QED
    BY <2>1, <2>2, NextShape, Stutter
<1>3. IInv /\ Course => FilesDone
  <2> SUFFICES ASSUME IInv, Course, Done, NEW p \in Paths \ failed
               PROVE  \/ files[p] = Target(p)
                      \/ mode = "format" /\ Overlap /\ p \in Visited /\ Parses(Target(p))
                         /\ files[p] = Formatted[Target(p)]
    BY DEF FilesDone
  <2>1. CASE ToWrite(p)
    <3>1. files[p] # Empty
      BY DEF Course, EmptyPending, Done
    <3>2. files[p] # original[p]
      BY <2>1 DEF Course, RawPending, Coming, Done
    <3>3. files[p] = Once(p) \/ (Again(p) /\ files[p] = Formatted[Once(p)])
      BY <2>1, <3>1, <3>2 DEF Course, KnownFiles, Known
    <3>4. Target(p) = Once(p) /\ p \in Visited
      BY <2>1 DEF ToWrite, Target, Once
    <3> QED
      BY <3>3, <3>4 DEF Again
  <2>2. CASE ~ToWrite(p)
    <3>1. files[p] = original[p]
      BY <2>2 DEF IInv, Untouched
    <3>2. Target(p) = original[p]
      BY <2>2 DEF ToWrite, Target, Stable
    <3> QED
      BY <3>1, <3>2
  <2> QED
    BY <2>1, <2>2
<1> QED
  BY <1>1, <1>2, <1>3, PTL DEF Spec

(* Exit status 0 if and only if all inputs were processed, for any number   *)
(* of threads and files, in whatever order they finish.                     *)
THEOREM StatusExact == Spec => []StatusTells
<1>1. Init => IInv /\ Alone /\ StatusSoFar
  BY InitIInv, InitAlone, InitStatus
<1>2. IInv /\ Alone /\ StatusSoFar /\ [Next]_vars => (IInv /\ Alone /\ StatusSoFar)'
  <2> SUFFICES ASSUME IInv, Alone, StatusSoFar, [Next]_vars PROVE (IInv /\ Alone /\ StatusSoFar)'
    OBVIOUS
  <2>1. IInv'
    BY NextIInv
  <2>2. ASSUME NEW t \in Threads, Shape(t) PROVE Alone' /\ StatusSoFar'
    BY <2>2, StepAlone, StepStatus
  <2> QED
    BY <2>1, <2>2, NextShape, Stutter
<1>3. IInv /\ StatusSoFar => StatusTells
  <2> SUFFICES ASSUME IInv, StatusSoFar, Done, ~Overlap PROVE ok = ExpectedStatus
    BY DEF StatusTells
  <2>1. ok \in BOOLEAN /\ todo = {} /\ \A t \in Threads : thread[t].pc = "idle"
    BY DEF IInv, TypeOK, Done
  <2>2. \A i : Good(i) <=> entries[i] # WalkError /\ Fine(entries[i])
    BY <2>1 DEF Good, AtWorkOn
  <2>3. ok <=> failed = {} /\ \A i \in DOMAIN entries : Good(i)
    BY <2>1 DEF StatusSoFar
  <2>4. ok <=> ExpectedStatus
    BY <2>2, <2>3 DEF ExpectedStatus
  <2> QED
    BY <2>1, <2>4 DEF ExpectedStatus
<1> QED
  BY <1>1, <1>2, <1>3, PTL DEF Spec
=============================================================================
