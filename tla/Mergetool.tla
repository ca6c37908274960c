----------------------------- MODULE Mergetool ------------------------------
(***************************************************************************)
(* `run_mergetool` of src/main.rs: the three versions are formatted in     *)
(* place, `git merge-file` (external) merges them into LOCAL, the result is*)
(* formatted and moved onto MERGED.  Every step may fail and leaves behind *)
(* what the steps before it did.  There is one thread, so `process_path`   *)
(* is one step here; Walker has its parts.                                 *)
(***************************************************************************)
EXTENDS Naturals, FiniteSets

CONSTANTS Contents,    \* what a file may hold
          Formatted,   \* the formatter: a function on the contents that parse
          Clean,       \* what a merge without conflicts may write
          Conflicting, \* what a merge with conflicts may write
          Empty,       \* a file whose write failed
          Missing,     \* no file
          MaxConflicts \* bound on the conflicts of a merge

ASSUME MergeAssumption ==
    /\ DOMAIN Formatted \subseteq Contents /\ {Empty, Missing} \cap Contents = {}
    /\ \A c \in DOMAIN Formatted : Formatted[c] \in Contents
    /\ Clean \cup Conflicting \subseteq Contents /\ MaxConflicts \in Nat \ {0}

Versions == {"base", "local", "remote"}
Roles    == Versions \cup {"merged"}
Modes    == {"format", "verify", "check", "parse_only", "dump"}
Holds    == Contents \cup {Empty, Missing}

(* The exit code of git, 255 for an error; Killed when there is none.       *)
Killed == 256
Codes  == (0..MaxConflicts) \cup {255, Killed}

VARIABLES mode,      \* which of the options was given besides --mergetool
          nix,       \* MERGED is a `.nix` file
          original,  \* the files when the program started
          denied,    \* versions that cannot be opened for writing
          pc,
          files,     \* the files now
          ok,        \* no version failed so far
          code,      \* what git merge-file returned
          merging,   \* history: the versions git merge-file was given
          outcome,   \* history: what git left in LOCAL
          status     \* the exit status

setting == <<mode, nix, original, denied>>
vars == <<setting, pc, files, ok, code, merging, outcome, status>>

Init ==
    /\ mode \in Modes /\ nix \in BOOLEAN
    /\ original \in [Roles -> Contents \cup {Missing}] /\ original["merged"] \in Conflicting
    /\ denied \in SUBSET Versions
    /\ pc = "start" /\ files = original /\ ok = TRUE
    /\ code = Killed /\ merging = original /\ outcome = Missing /\ status = 1

Parses(c) == c \in DOMAIN Formatted
Stable(c) == Parses(c) /\ Formatted[c] = c
Formats(c) == Parses(c) /\ (mode = "verify" => Stable(Formatted[c]))
InPlace == mode \in {"format", "verify"}

(* `process_path` on a version: what it may hold afterwards, and whether    *)
(* that is a success.  A write that fails may have truncated it.            *)
Processed(v) == LET c == files[v] IN
    IF mode = "dump" \/ ~Formats(c) THEN {<<c, FALSE>>}    \* a missing file, too
    ELSE IF mode = "parse_only" \/ Stable(c) THEN {<<c, TRUE>>}
    ELSE IF mode = "check" \/ v \in denied THEN {<<c, FALSE>>}
    ELSE {<<Formatted[c], TRUE>>, <<Empty, FALSE>>}

Exit(s) == pc' = "done" /\ status' = s

(* "Skipping non-Nix file". *)
Skip ==
    /\ pc = "start" /\ ~nix
    /\ Exit(1)
    /\ UNCHANGED <<setting, files, ok, code, merging, outcome>>

Start ==
    /\ pc = "start" /\ nix
    /\ pc' = "base"
    /\ UNCHANGED <<setting, files, ok, code, merging, outcome, status>>

Following == [base |-> "local", local |-> "remote", remote |-> "merge"]

(* Mutant of Folded: the last version decides. *)
Overwritten(success) == success

(* `ok &= pre_format(..)`: the other versions are formatted all the same.   *)
Folded(success) == ok /\ success

(* Mutant of PreFormat: `&&`, which stops at the first failure. *)
PreFormatShort(v) == \E r \in Processed(v) :
    /\ pc = v
    /\ files' = [files EXCEPT ![v] = r[1]] /\ ok' = Folded(r[2])
    /\ pc' = IF r[2] THEN Following[v] ELSE "merge"
    /\ UNCHANGED <<setting, code, merging, outcome, status>>

PreFormat(v) == \E r \in Processed(v) :
    /\ pc = v
    /\ files' = [files EXCEPT ![v] = r[1]] /\ ok' = Folded(r[2])
    /\ pc' = Following[v]
    /\ UNCHANGED <<setting, code, merging, outcome, status>>

PreFormatFailed ==
    /\ pc = "merge" /\ ~ok
    /\ Exit(1)
    /\ UNCHANGED <<setting, files, ok, code, merging, outcome>>

GitNotStarted ==
    /\ pc = "merge" /\ ok
    /\ Exit(1)
    /\ UNCHANGED <<setting, files, ok, code, merging, outcome>>

(* What git leaves in LOCAL for each code: after an error it is as before.  *)
MergeResults(c) ==
    CASE c = 0            -> Clean
      [] c \in {255, Killed} -> {files["local"]}
      [] OTHER            -> Conflicting

(* `git merge-file local base remote`, which has to write LOCAL.            *)
GitMerge ==
    /\ pc = "merge" /\ ok
    /\ code' \in (IF "local" \in denied THEN {255, Killed} ELSE Codes) /\ merging' = files
    /\ outcome' \in MergeResults(code') /\ files' = [files EXCEPT !["local"] = outcome']
    /\ IF code' = Killed THEN Exit(1) ELSE pc' = "format" /\ UNCHANGED status
    /\ UNCHANGED <<setting, ok>>

(* Mutants of FormatMerge: a result that does not format is moved as it is, *)
(* or one that parses is not formatted.                                     *)
FormatMergeAnyway == \E r \in Processed("local") :
    /\ pc = "format"
    /\ files' = [files EXCEPT !["local"] = r[1]]
    /\ pc' = "rename"
    /\ UNCHANGED <<setting, ok, code, merging, outcome, status>>

FormatMergeSkipped ==
    /\ pc = "format"
    /\ IF Parses(files["local"]) THEN pc' = "rename" /\ UNCHANGED status ELSE Exit(1)
    /\ UNCHANGED <<setting, files, ok, code, merging, outcome>>

(* The result is formatted like any file; conflict markers do not parse.    *)
FormatMerge == \E r \in Processed("local") :
    /\ pc = "format"
    /\ files' = [files EXCEPT !["local"] = r[1]]
    /\ IF r[2] THEN pc' = "rename" /\ UNCHANGED status ELSE Exit(1)
    /\ UNCHANGED <<setting, ok, code, merging, outcome>>

(* Mutant of MergeStatus: everything went well. *)
AlwaysSuccess == 0

(* `status.success()`, turned into 0 or 1 by `main`. *)
MergeStatus == IF code = 0 THEN 0 ELSE 1

Rename ==
    /\ pc = "rename"
    /\ files' = [files EXCEPT !["merged"] = files["local"], !["local"] = Missing]
    /\ Exit(MergeStatus)
    /\ UNCHANGED <<setting, ok, code, merging, outcome>>

RenameFails ==
    /\ pc = "rename"
    /\ Exit(1)
    /\ UNCHANGED <<setting, files, ok, code, merging, outcome>>

Next ==
    \/ Skip \/ Start \/ \E v \in Versions : PreFormat(v)
    \/ PreFormatFailed \/ GitNotStarted \/ GitMerge
    \/ FormatMerge \/ Rename \/ RenameFails

Spec == Init /\ [][Next]_vars

-----------------------------------------------------------------------------
(* "Each of BASE, LOCAL and REMOTE is pre-formatted": git is given three    *)
(* formatted versions or is not run, so that layout alone never conflicts.  *)
MergesFormatted ==
    pc \in {"format", "rename"} /\ InPlace =>
        \A v \in Versions : Parses(original[v]) /\ merging[v] = Formatted[original[v]]

(* One version that fails does not keep the others from being formatted:    *)
(* each is formatted before git would run, unless it cannot be, or its      *)
(* write failed.                                                            *)
EachVersionTried ==
    pc = "merge" /\ mode = "format" => \A v \in Versions :
        \/ ~ok /\ files[v] = Empty
        \/ files[v] = IF Parses(original[v]) /\ v \notin denied
                      THEN Formatted[original[v]] ELSE original[v]

(* `content` is what git left in LOCAL after process_path has succeeded on  *)
(* it: formatted if files are written, as it was if they are only looked at.*)
FormattedMerge(content) ==
    /\ mode # "dump" /\ Parses(outcome)
    /\ content = IF InPlace THEN Formatted[outcome] ELSE outcome
    /\ mode \in {"verify", "check"} => Stable(content)

(* MERGED is replaced when git is through, by what git left in LOCAL, and   *)
(* never by a merge that was not formatted, even if it parses; LOCAL is     *)
(* gone then.                                                               *)
MergedOnlyFormatted ==
    [][files'["merged"] # files["merged"] =>
          /\ code \in Codes \ {Killed}
          /\ FormattedMerge(files'["merged"]) /\ files'["local"] = Missing]_vars

(* Exit status 0 tells git that MERGED is resolved: only after a merge      *)
(* without conflicts that was formatted and moved.                          *)
ZeroMeansResolved ==
    pc = "done" /\ status = 0 =>
        /\ code = 0 /\ outcome \in Clean
        /\ FormattedMerge(files["merged"]) /\ files["local"] = Missing
=============================================================================
