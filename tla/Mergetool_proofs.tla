-------------------------- MODULE Mergetool_proofs --------------------------
(***************************************************************************)
(* For any contents, formatter and number of conflicts: git is given       *)
(* formatted versions, every version is tried, status 0 means resolved and *)
(* MERGED is only replaced by a formatted LOCAL.                           *)
(***************************************************************************)
EXTENDS Mergetool, TLAPS

(* What holds between the steps, inductive together.                       *)

(* The versions that are still as they were given. *)
Todo == CASE pc \in {"start", "base"} -> Versions
          [] pc = "local"             -> {"local", "remote"}
          [] pc = "remote"            -> {"remote"}
          [] OTHER                    -> {}

Formatting == pc \in {"start", "base", "local", "remote", "merge"}

TypeOK ==
    /\ mode \in Modes /\ nix \in BOOLEAN /\ denied \in SUBSET Versions
    /\ original \in [Roles -> Contents \cup {Missing}]
    /\ pc \in Versions \cup {"start", "merge", "format", "rename", "done"}
    /\ files \in [Roles -> Holds] /\ merging \in [Roles -> Holds]
    /\ outcome \in Holds /\ ok \in BOOLEAN /\ code \in Codes

TodoUntouched == \A v \in Todo : files[v] = original[v]

(* A version that was formatted with success. *)
Succeeded == Formatting /\ ok /\ InPlace => \A v \in Versions \ Todo :
    Parses(original[v]) /\ files[v] = Formatted[original[v]]

(* A version that was tried, with success or not. *)
Tried == Formatting /\ mode = "format" => \A v \in Versions \ Todo :
    \/ ~ok /\ files[v] = Empty
    \/ files[v] = IF Parses(original[v]) /\ v \notin denied
                  THEN Formatted[original[v]] ELSE original[v]

(* LOCAL between the merge and the rename: what git left, then formatted. *)
LocalIsResult ==
    /\ pc = "format" => files["local"] = outcome
    /\ pc = "rename" => FormattedMerge(files["local"])
    /\ pc \in {"format", "rename"} => code # Killed /\ (code = 0 => outcome \in Clean)

IInv == /\ TypeOK /\ TodoUntouched /\ Succeeded /\ Tried /\ LocalIsResult
        /\ MergesFormatted /\ ZeroMeansResolved

-----------------------------------------------------------------------------
(* What process_path returns, case by case.                                 *)
LEMMA Outcomes ==
    ASSUME NEW v, NEW r \in Processed(v)
    PROVE  \/ /\ r[1] = files[v] /\ r[2] = FALSE
              /\ mode = "dump" \/ ~Formats(files[v]) \/ (~Stable(files[v]) /\ (mode = "check" \/ v \in denied))
           \/ /\ r[1] = files[v] /\ r[2] = TRUE /\ Formats(files[v])
              /\ mode # "dump" /\ (mode = "parse_only" \/ Stable(files[v]))
           \/ /\ r[1] = Formatted[files[v]] /\ r[2] = TRUE /\ Formats(files[v])
              /\ mode \notin {"check", "parse_only", "dump"} /\ v \notin denied
           \/ r[1] = Empty /\ r[2] = FALSE
<1> DEFINE c == files[v]
<1>1. CASE mode = "dump" \/ ~Formats(c)
  <2>1. r = <<c, FALSE>>
    BY <1>1 DEF Processed
  <2> QED
    BY <1>1, <2>1
<1>2. CASE ~(mode = "dump" \/ ~Formats(c)) /\ (mode = "parse_only" \/ Stable(c))
  <2>1. r = <<c, TRUE>>
    BY <1>2 DEF Processed
  <2>2. r[1] = c /\ r[2] = TRUE
    BY <2>1
  <2> QED
    BY <1>2, <2>2
<1>3. CASE /\ ~(mode = "dump" \/ ~Formats(c)) /\ ~(mode = "parse_only" \/ Stable(c))
           /\ mode = "check" \/ v \in denied
  <2>1. r = <<c, FALSE>>
    BY <1>3 DEF Processed
  <2>2. r[1] = c /\ r[2] = FALSE
    BY <2>1
  <2> QED
    BY <1>3, <2>2
<1>4. CASE /\ ~(mode = "dump" \/ ~Formats(c)) /\ ~(mode = "parse_only" \/ Stable(c))
           /\ ~(mode = "check" \/ v \in denied)
  <2>1. r = <<Formatted[c], TRUE>> \/ r = <<Empty, FALSE>>
    BY <1>4 DEF Processed
  <2>2. CASE r = <<Formatted[c], TRUE>>
    <3>1. r[1] = Formatted[c] /\ r[2] = TRUE
      BY <2>2
    <3> QED
      BY <1>4, <3>1
  <2>3. CASE r = <<Empty, FALSE>>
    <3>1. r[1] = Empty /\ r[2] = FALSE
      BY <2>3
    <3> QED
      BY <3>1
  <2> QED
    BY <2>1, <2>2, <2>3
<1> QED
  BY <1>1, <1>2, <1>3, <1>4

(* What process_path may leave in a file, whatever it held.                 *)
LEMMA ProcessedTyped ==
    ASSUME TypeOK, NEW v \in Roles, NEW r \in Processed(v)
    PROVE  r[1] \in Holds /\ r[2] \in BOOLEAN
<1>1. files[v] \in Holds
  BY DEF TypeOK
<1>2. Formats(files[v]) => Formatted[files[v]] \in Holds
  BY MergeAssumption DEF Formats, Parses, Holds
<1> QED
  BY <1>1, <1>2, Outcomes DEF Holds

(* A success in place leaves the formatted content, which it had before if  *)
(* it was stable.                                                           *)
LEMMA SuccessFormats ==
    ASSUME TypeOK, InPlace, NEW v \in Roles, NEW r \in Processed(v), r[2] = TRUE
    PROVE  Parses(files[v]) /\ r[1] = Formatted[files[v]]
<1>1. Formats(files[v]) /\ (r[1] = Formatted[files[v]] \/ (r[1] = files[v] /\ Stable(files[v])))
  BY Outcomes DEF InPlace
<1> QED
  BY <1>1 DEF Formats, Stable

(* Without options a file ends up formatted, as it was if it cannot be, or  *)
(* empty with a failure.                                                    *)
LEMMA FormatOutcome ==
    ASSUME TypeOK, mode = "format", NEW v \in Versions, NEW r \in Processed(v)
    PROVE  \/ ~r[2] /\ r[1] = Empty
           \/ r[1] = IF Parses(files[v]) /\ v \notin denied THEN Formatted[files[v]] ELSE files[v]
BY Outcomes DEF Formats, Stable

(* A success on what git left formats it as far as the options ask for it.  *)
LEMMA SuccessMerges ==
    ASSUME TypeOK, files["local"] = outcome, NEW r \in Processed("local"), r[2] = TRUE
    PROVE  FormattedMerge(r[1])
<1>1. mode # "dump" /\ Formats(outcome)
  BY Outcomes
<1>2. CASE InPlace
  <2>1. r[1] = Formatted[outcome]
    BY <1>2, SuccessFormats DEF Roles, Versions
  <2> QED
    BY <1>1, <1>2, <2>1 DEF FormattedMerge, Formats, InPlace
<1>3. CASE ~InPlace
  <2>1. mode \in {"check", "parse_only"}
    BY <1>1, <1>3 DEF TypeOK, Modes, InPlace
  <2>2. r[1] = outcome /\ (mode = "check" => Stable(outcome))
    BY <2>1, Outcomes
  <2> QED
    BY <1>1, <1>3, <2>1, <2>2 DEF FormattedMerge, Formats
<1> QED
  BY <1>2, <1>3

-----------------------------------------------------------------------------
(* The invariant holds at the start. *)
LEMMA InitIInv == Init => IInv
<1> SUFFICES ASSUME Init PROVE IInv
  OBVIOUS
<1> USE DEF Init
<1>1. TypeOK
  BY MergeAssumption DEF TypeOK, Holds, Codes, Versions
<1> QED
  BY <1>1 DEF IInv, TodoUntouched, Succeeded, Tried, LocalIsResult, MergesFormatted, ZeroMeansResolved,
              Todo, Formatting

(* Formatting one version keeps the invariant. *)
LEMMA PreFormatIInv ==
    ASSUME IInv, NEW v \in Versions, PreFormat(v)
    PROVE  IInv'
<1> USE DEF IInv
<1>1. PICK r \in Processed(v) :
        /\ pc = v /\ files' = [files EXCEPT ![v] = r[1]] /\ ok' = (ok /\ r[2])
        /\ pc' = Following[v] /\ UNCHANGED <<setting, code, merging, outcome, status>>
  BY DEF PreFormat, Folded
<1>2. /\ mode' = mode /\ nix' = nix /\ original' = original /\ denied' = denied
      /\ code' = code /\ merging' = merging /\ outcome' = outcome /\ status' = status
  BY <1>1 DEF setting
<1>3. v \in Roles /\ r[1] \in Holds /\ r[2] \in BOOLEAN
  BY <1>1, ProcessedTyped DEF Roles
<1>4. TypeOK'
  BY <1>1, <1>2, <1>3 DEF TypeOK, Following, Versions
<1>5. /\ v \in Todo /\ Todo' = Todo \ {v} /\ Formatting'
      /\ pc' \notin {"format", "rename", "done"}
  BY <1>1 DEF Todo, Versions, Following, Formatting
<1>6. files[v] = original[v]
  BY <1>5 DEF TodoUntouched
<1>7. \A w \in Versions : files'[w] = IF w = v THEN r[1] ELSE files[w]
  BY <1>1 DEF TypeOK, Roles
<1>8. TodoUntouched'
  BY <1>2, <1>5, <1>7 DEF TodoUntouched, Todo, Versions
<1>9. Succeeded'
  <2> SUFFICES ASSUME ok', InPlace, NEW w \in Versions \ Todo'
               PROVE  Parses(original[w]) /\ files'[w] = Formatted[original[w]]
    BY <1>2 DEF Succeeded, InPlace, Parses
  <2>1. CASE w = v
    BY <2>1, <1>1, <1>3, <1>6, <1>7, SuccessFormats
  <2>2. CASE w # v
    BY <2>2, <1>1, <1>5, <1>7 DEF Succeeded, Formatting, Versions
  <2> QED
    BY <2>1, <2>2
<1>10. Tried'
  <2> SUFFICES ASSUME mode = "format", NEW w \in Versions \ Todo'
               PROVE  \/ ~ok' /\ files'[w] = Empty
                      \/ files'[w] = IF Parses(original[w]) /\ w \notin denied
                                     THEN Formatted[original[w]] ELSE original[w]
    BY <1>2 DEF Tried, Parses
  <2>1. CASE w = v
    BY <2>1, <1>1, <1>6, <1>7, FormatOutcome
  <2>2. CASE w # v
    BY <2>2, <1>1, <1>5, <1>7 DEF Tried, Formatting, Versions
  <2> QED
    BY <2>1, <2>2
<1> QED
  BY <1>4, <1>5, <1>8, <1>9, <1>10 DEF LocalIsResult, MergesFormatted, ZeroMeansResolved

(* git merge-file finds formatted versions, and leaves a merge. *)
LEMMA GitMergeIInv ==
    ASSUME IInv, GitMerge
    PROVE  IInv'
<1> USE DEF IInv
<1>1. /\ pc = "merge" /\ ok /\ code' \in Codes /\ merging' = files
      /\ mode' = mode /\ nix' = nix /\ original' = original /\ denied' = denied /\ ok' = ok
      /\ \/ code' = Killed /\ pc' = "done" /\ status' = 1
         \/ code' # Killed /\ pc' = "format" /\ status' = status
  BY DEF GitMerge, setting, Exit, Codes
<1>2. outcome' \in MergeResults(code') /\ files' = [files EXCEPT !["local"] = outcome']
  BY DEF GitMerge
<1>3. outcome' \in Holds /\ (code' = 0 => outcome' \in Clean)
  <2>1. files["local"] \in Holds /\ Clean \cup Conflicting \subseteq Holds
    BY MergeAssumption DEF TypeOK, Holds, Roles, Versions
  <2> QED
    BY <1>2, <2>1 DEF MergeResults, Killed
<1>4. TypeOK'
  BY <1>1, <1>2, <1>3 DEF TypeOK
<1>5. MergesFormatted'
  <2>1. \A v \in Versions \ Todo : InPlace => Parses(original[v]) /\ files[v] = Formatted[original[v]]
    BY <1>1 DEF Succeeded, Formatting
  <2>2. Todo = {}
    BY <1>1 DEF Todo, Versions
  <2> QED
    BY <1>1, <2>1, <2>2 DEF MergesFormatted, InPlace, Parses
<1>6. LocalIsResult'
  <2>1. files'["local"] = outcome'
    BY <1>2 DEF TypeOK, Roles, Versions
  <2> QED
    BY <1>1, <1>3, <2>1 DEF LocalIsResult
<1>7. TodoUntouched' /\ Succeeded' /\ Tried'
  BY <1>1 DEF TodoUntouched, Todo, Succeeded, Tried, Formatting
<1>8. ZeroMeansResolved'
  BY <1>1 DEF ZeroMeansResolved
<1> QED
  BY <1>4, <1>5, <1>6, <1>7, <1>8

(* The result of the merge is formatted. *)
LEMMA FormatMergeIInv ==
    ASSUME IInv, FormatMerge
    PROVE  IInv'
<1> USE DEF IInv
<1>1. PICK r \in Processed("local") :
        /\ pc = "format" /\ files' = [files EXCEPT !["local"] = r[1]]
        /\ IF r[2] THEN pc' = "rename" /\ UNCHANGED status ELSE Exit(1)
        /\ UNCHANGED <<setting, ok, code, merging, outcome>>
  BY DEF FormatMerge
<1>2. /\ mode' = mode /\ nix' = nix /\ original' = original /\ denied' = denied
      /\ code' = code /\ merging' = merging /\ outcome' = outcome /\ ok' = ok
  BY <1>1 DEF setting
<1>3. "local" \in Roles /\ r[1] \in Holds /\ r[2] \in BOOLEAN
  BY <1>1, ProcessedTyped DEF Roles, Versions
<1>4. (r[2] = TRUE /\ pc' = "rename") \/ (pc' = "done" /\ status' = 1)
  BY <1>1, <1>3 DEF Exit
<1>5. TypeOK'
  BY <1>1, <1>2, <1>3, <1>4 DEF TypeOK
<1>6. files'["local"] = r[1]
  BY <1>1, <1>3 DEF TypeOK
<1>7. LocalIsResult'
  <2>1. r[2] = TRUE => FormattedMerge(r[1])
    BY <1>1, SuccessMerges DEF LocalIsResult
  <2>2. FormattedMerge(r[1]) => FormattedMerge(files["local"])'
    BY <1>2, <1>6 DEF FormattedMerge, Parses, InPlace, Stable
  <2> QED
    BY <1>1, <1>2, <1>4, <2>1, <2>2 DEF LocalIsResult
<1>8. MergesFormatted'
  BY <1>1, <1>2 DEF MergesFormatted, InPlace, Parses
<1>9. TodoUntouched' /\ Succeeded' /\ Tried' /\ ZeroMeansResolved'
  BY <1>4 DEF TodoUntouched, Todo, Succeeded, Tried, Formatting, ZeroMeansResolved
<1> QED
  BY <1>5, <1>7, <1>8, <1>9

(* LOCAL takes the place of MERGED. *)
LEMMA RenameIInv ==
    ASSUME IInv, Rename
    PROVE  IInv'
<1> USE DEF IInv
<1>1. /\ pc = "rename" /\ pc' = "done" /\ status' = MergeStatus
      /\ files' = [files EXCEPT !["merged"] = files["local"], !["local"] = Missing]
      /\ mode' = mode /\ nix' = nix /\ original' = original /\ denied' = denied
      /\ code' = code /\ merging' = merging /\ outcome' = outcome /\ ok' = ok
  BY DEF Rename, Exit, setting
<1>2. "local" \in Roles /\ "merged" \in Roles /\ Missing \in Holds
  BY DEF Roles, Versions, Holds
<1>3. TypeOK'
  BY <1>1, <1>2 DEF TypeOK
<1>4. files'["merged"] = files["local"] /\ files'["local"] = Missing
  BY <1>1, <1>2 DEF TypeOK
<1>5. ZeroMeansResolved'
  <2>1. FormattedMerge(files["local"]) => FormattedMerge(files["merged"])'
    BY <1>1, <1>4 DEF FormattedMerge, Parses, InPlace, Stable
  <2> QED
    BY <1>1, <1>4, <2>1 DEF ZeroMeansResolved, LocalIsResult, MergeStatus
<1>6. TodoUntouched' /\ Succeeded' /\ Tried' /\ MergesFormatted' /\ LocalIsResult'
  BY <1>1 DEF TodoUntouched, Todo, Succeeded, Tried, Formatting, MergesFormatted, LocalIsResult
<1> QED
  BY <1>3, <1>5, <1>6

(* The steps that leave the files alone: the start, and every other end.    *)
LEMMA StillIInv ==
    ASSUME IInv, Skip \/ Start \/ PreFormatFailed \/ GitNotStarted \/ RenameFails
    PROVE  IInv'
<1> USE DEF IInv
<1>1. /\ mode' = mode /\ nix' = nix /\ original' = original /\ denied' = denied
      /\ files' = files /\ code' = code /\ merging' = merging /\ outcome' = outcome /\ ok' = ok
      /\ \/ pc' = "done" /\ status' = 1
         \/ pc = "start" /\ pc' = "base" /\ status' = status
  BY DEF Skip, Start, PreFormatFailed, GitNotStarted, RenameFails, Exit, setting
<1>2. TypeOK'
  BY <1>1 DEF TypeOK, Versions
<1>3. TodoUntouched'
  BY <1>1 DEF TodoUntouched, Todo
<1>4. Succeeded' /\ Tried'
  BY <1>1 DEF Succeeded, Tried, Formatting, Todo
<1> QED
  BY <1>1, <1>2, <1>3, <1>4 DEF MergesFormatted, LocalIsResult, ZeroMeansResolved

(* Every step keeps the invariant. *)
LEMMA NextIInv == IInv /\ [Next]_vars => IInv'
<1> SUFFICES ASSUME IInv, [Next]_vars PROVE IInv'
  OBVIOUS
<1>1. CASE \E v \in Versions : PreFormat(v)
  BY <1>1, PreFormatIInv
<1>2. CASE UNCHANGED vars
  BY <1>2 DEF vars, setting, IInv, TypeOK, TodoUntouched, Succeeded, Tried, LocalIsResult,
              MergesFormatted, ZeroMeansResolved, Todo, Formatting, InPlace, Parses, FormattedMerge, Stable
<1> QED
  BY <1>1, <1>2, GitMergeIInv, FormatMergeIInv, RenameIInv, StillIInv DEF Next

-----------------------------------------------------------------------------
(* The inductive invariant of the mergetool holds in every reachable state. *)
THEOREM MergetoolInvariant == Spec => []IInv
BY InitIInv, NextIInv, PTL DEF Spec

(* git is given three formatted versions or is not run. *)
THEOREM GitSeesFormatted == Spec => []MergesFormatted
<1>1. IInv => MergesFormatted
  BY DEF IInv
<1> QED
  BY <1>1, MergetoolInvariant, PTL

(* No version keeps the others from being formatted. *)
THEOREM NoVersionSkipped == Spec => []EachVersionTried
<1>1. IInv => EachVersionTried
  BY DEF IInv, Tried, EachVersionTried, Formatting, Todo
<1> QED
  BY <1>1, MergetoolInvariant, PTL

(* Status 0 is the end of a merge without conflicts only. *)
THEOREM ZeroIsResolved == Spec => []ZeroMeansResolved
<1>1. IInv => ZeroMeansResolved
  BY DEF IInv
<1> QED
  BY <1>1, MergetoolInvariant, PTL

-----------------------------------------------------------------------------
(* No step but the rename changes MERGED. *)
LEMMA MergedStays ==
    ASSUME IInv, [Next]_vars, ~Rename
    PROVE  files'["merged"] = files["merged"]
<1>1. CASE FormatMerge
  BY <1>1 DEF FormatMerge, IInv, TypeOK, Roles, Versions
<1>2. CASE GitMerge
  <2>1. files' = [files EXCEPT !["local"] = outcome']
    BY <1>2 DEF GitMerge
  <2> QED
    BY <2>1 DEF IInv, TypeOK, Roles, Versions
<1>3. CASE \E v \in Versions : PreFormat(v)
  <2>1. PICK v \in Versions : PreFormat(v)
    BY <1>3
  <2>2. PICK r \in Processed(v) : files' = [files EXCEPT ![v] = r[1]]
    BY <2>1 DEF PreFormat
  <2> QED
    BY <2>2 DEF IInv, TypeOK, Roles, Versions
<1>4. CASE UNCHANGED files
  BY <1>4
<1>5. Skip \/ Start \/ PreFormatFailed \/ GitNotStarted \/ RenameFails \/ UNCHANGED vars => UNCHANGED files
  BY DEF Skip, Start, PreFormatFailed, GitNotStarted, RenameFails, vars
<1> QED
  BY <1>1, <1>2, <1>3, <1>4, <1>5 DEF Next

(* MERGED is replaced by what git left in LOCAL, formatted as the options   *)
(* ask for it, or not at all.                                               *)
THEOREM MergedSafe == Spec => MergedOnlyFormatted
<1> DEFINE Moving == files'["merged"] # files["merged"] =>
              /\ code \in Codes \ {Killed}
              /\ FormattedMerge(files'["merged"]) /\ files'["local"] = Missing
<1>1. IInv /\ [Next]_vars => [Moving]_vars
  <2> SUFFICES ASSUME IInv, Rename PROVE Moving
    BY MergedStays
  <2>1. pc = "rename" /\ files' = [files EXCEPT !["merged"] = files["local"], !["local"] = Missing]
    BY DEF Rename
  <2>2. files'["merged"] = files["local"] /\ files'["local"] = Missing
    BY <2>1 DEF IInv, TypeOK, Roles, Versions
  <2> QED
    BY <2>1, <2>2 DEF LocalIsResult, IInv, TypeOK
<1> QED
  BY <1>1, MergetoolInvariant, PTL DEF Spec, MergedOnlyFormatted
=============================================================================
