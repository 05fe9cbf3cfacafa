---------------------------- MODULE Sv2vInPlace ----------------------------
(***************************************************************************)
(* util/sv2v_in_place.py: converts the SystemVerilog files of a list to    *)
(* Verilog in place.  Every conversion reads the packages and the headers  *)
(* beside its own file, so nothing is written back before all are done.    *)
(***************************************************************************)
EXTENDS Integers, Sequences, SequencesExt, FiniteSets

CONSTANTS
    FileLists,   \* lists of paths: sequences over Sv \cup Svh \cup Other
    Sv, Svh,     \* paths ending in .sv and in .svh
    Pkg          \* those of Sv that end in pkg.sv

ASSUME Sv2vAssumption ==
    /\ Pkg \subseteq Sv /\ Sv \cap Svh = {}
    /\ \A f \in FileLists : f \in Seq(ToSet(f))

VARIABLES paths, sv_paths, svh_paths, pkg_paths, content, tmp, stage, next

sv2vLists == <<paths, sv_paths, svh_paths, pkg_paths>>
sv2vVars == <<sv2vLists, content, tmp, stage, next>>

CurrentPath(seq) == seq[next]

\* The first k members of s.
FirstOf(s, k) == {s[i] : i \in 1..k}

-----------------------------------------------------------------------------
ReadFileList ==
    /\ stage = "reading"
    /\ \/ stage' = "split"
       \/ stage' = "exit 1"
    /\ UNCHANGED <<sv2vLists, content, tmp, next>>

\* main splits the list; other paths are left out.
SplitPath ==
    /\ stage = "split" /\ next <= Len(paths)
    /\ \E p \in {CurrentPath(paths)} :
         /\ sv_paths' = IF p \in Sv THEN Append(sv_paths, p) ELSE sv_paths
         /\ svh_paths' = IF p \in Svh THEN Append(svh_paths, p) ELSE svh_paths
         /\ pkg_paths' = IF p \in Pkg THEN Append(pkg_paths, p) ELSE pkg_paths
    /\ next' = next + 1
    /\ UNCHANGED <<paths, content, tmp, stage>>

AllSplit ==
    /\ stage = "split" /\ next > Len(paths)
    /\ stage' = "transform" /\ next' = 1
    /\ UNCHANGED <<sv2vLists, content, tmp>>

\* What sv2v makes of a file: Verilog if everything it reads is as it was.
Converted(p) ==
    IF \A q \in {p} \cup ToSet(pkg_paths) \cup ToSet(svh_paths) : content[q] = "original"
    THEN "verilog" ELSE "damaged"

\* Mutant of transform_one: the result goes straight to the file.
TransformOneDirect ==
    /\ stage = "transform" /\ next <= Len(sv_paths)
    /\ \E p \in {CurrentPath(sv_paths)} :
         \/ /\ content' = [content EXCEPT ![p] = Converted(p)] /\ tmp' = Append(tmp, Converted(p))
            /\ next' = next + 1 /\ UNCHANGED stage
         \/ stage' = "exit 1" /\ UNCHANGED <<content, tmp, next>>
    /\ UNCHANGED sv2vLists

\* transform, first loop: into the temporary directory; sv2v may fail.
transform_one ==
    /\ stage = "transform" /\ next <= Len(sv_paths)
    /\ \/ /\ tmp' = Append(tmp, Converted(CurrentPath(sv_paths)))
          /\ next' = next + 1 /\ UNCHANGED stage
       \/ stage' = "exit 1" /\ UNCHANGED <<tmp, next>>
    /\ UNCHANGED <<sv2vLists, content>>

AllTransformed ==
    /\ stage = "transform" /\ next > Len(sv_paths)
    /\ stage' = "copy" /\ next' = 1
    /\ UNCHANGED <<sv2vLists, content, tmp>>

\* transform, second loop: shutil.copy overwrites the source.
CopyBack ==
    /\ stage = "copy" /\ next <= Len(sv_paths)
    /\ content' = [content EXCEPT ![CurrentPath(sv_paths)] = tmp[next]]
    /\ next' = next + 1
    /\ UNCHANGED <<sv2vLists, tmp, stage>>

\* shutil.copy stops in the middle of a file: the disk is full, or Ctrl-C.
CopyTorn ==
    /\ stage = "copy" /\ next <= Len(sv_paths)
    /\ content' = [content EXCEPT ![CurrentPath(sv_paths)] = "torn"]
    /\ stage' = "raised"
    /\ UNCHANGED <<sv2vLists, tmp, next>>

AllCopied ==
    /\ stage = "copy" /\ next > Len(sv_paths)
    /\ stage' = "splat" /\ next' = 1
    /\ UNCHANGED <<sv2vLists, content, tmp>>

\* Headers have been included by now, and are emptied.
SplatHeader ==
    /\ stage = "splat" /\ next <= Len(svh_paths)
    /\ content' = [content EXCEPT ![CurrentPath(svh_paths)] = "empty"]
    /\ next' = next + 1
    /\ UNCHANGED <<sv2vLists, tmp, stage>>

Finished ==
    /\ stage = "splat" /\ next > Len(svh_paths)
    /\ stage' = "exit 0" /\ UNCHANGED <<sv2vLists, content, tmp, next>>

\* What main does not catch ends the script anywhere: an OSError of the loops
\* that write (a read-only file) or of a missing sv2v, Ctrl-C.
Uncaught ==
    /\ stage \in {"reading", "split", "transform", "copy", "splat"}
    /\ stage' = "raised" /\ UNCHANGED <<sv2vLists, content, tmp, next>>

-----------------------------------------------------------------------------
Sv2vInit ==
    /\ paths \in FileLists /\ content = [p \in Sv \cup Svh |-> "original"]
    /\ sv_paths = <<>> /\ svh_paths = <<>> /\ pkg_paths = <<>>
    /\ tmp = <<>> /\ stage = "reading" /\ next = 1

Sv2vNext == \/ ReadFileList \/ SplitPath \/ AllSplit \/ transform_one
            \/ AllTransformed \/ CopyBack \/ CopyTorn \/ AllCopied \/ SplatHeader
            \/ Finished \/ Uncaught

Sv2vSpec == Sv2vInit /\ [][Sv2vNext]_sv2vVars

-----------------------------------------------------------------------------
(* Properties *)

\* A run that ends with exit code 1 has changed no file, so it can be repeated:
\* sv2v failing on the last file of the list leaves the first ones as they were.
FailureLeavesSources ==
    stage = "exit 1" => \A p \in Sv \cup Svh : content[p] = "original"

\* A run that succeeds has converted every listed file, each from undamaged
\* sources, and left the files that are not listed alone, even when a path is
\* listed twice.
AllConverted ==
    stage = "exit 0" =>
        \A p \in Sv \cup Svh :
            content[p] = CASE p \in Sv \cap ToSet(paths) -> "verilog"
                           [] p \in Svh \cap ToSet(paths) -> "empty"
                           [] OTHER -> "original"

\* A run that dies of an exception may leave the sources half converted, but in
\* order: the first n files of the list are Verilog, the last of them perhaps
\* torn, and no header has been emptied before every file is Verilog.
StoppedInOrder ==
    stage = "raised" =>
        \E n \in 0..Len(sv_paths), k \in 0..Len(svh_paths) :
            /\ \A p \in Sv :
                 \/ content[p] = IF p \in FirstOf(sv_paths, n) THEN "verilog" ELSE "original"
                 \/ n > 0 /\ p = sv_paths[n] /\ content[p] = "torn"
            /\ \A p \in Svh :
                 content[p] = IF p \in FirstOf(svh_paths, k) THEN "empty" ELSE "original"
            /\ k > 0 => \A p \in ToSet(sv_paths) : content[p] = "verilog"

\* However the script ends, what is on disk is what a caller can rely on: its
\* own failures change nothing, success converts the whole list, and only an
\* exception in the writing loops leaves a part, without a damaged conversion.
ConversionOrderly == FailureLeavesSources /\ AllConverted /\ StoppedInOrder
=============================================================================
