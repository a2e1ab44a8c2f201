-------------------------- MODULE OutputDirectory --------------------------
(***************************************************************************)
(* The output directory as its readers find it while a pipeline rewrites   *)
(* it: every generator opens its file with "w", which cuts it to nothing,  *)
(* and writes it buffer by buffer, so a reader meanwhile, or after the     *)
(* process died, finds a part.  What the generators write and in which     *)
(* order is the business of module PipelineFiles; here a file is a set of  *)
(* records (the rows of a CSV, the statements of a Turtle file), one of a  *)
(* few that it may hold, and any file may be the next to be rewritten.  A  *)
(* part ends between two records or is torn, in the midst of one.          *)
(***************************************************************************)
EXTENDS Integers, Sequences, FiniteSets

CONSTANTS Files,       \* the files there may be
          Contents,    \* Contents[f]: what a generator may make of f
          MaxRewrites, \* bound of the model: files written
          None         \* a file that does not exist

ASSUME FilesAssumption ==
    /\ \A f \in Files : Contents[f] # {} /\ \A c \in Contents[f] : IsFiniteSet(c)
    /\ IsFiniteSet(Files)
    /\ None \notin Files \cup Nat

VARIABLES dir,         \* each file: None, or its records and whether it is torn
          writing,     \* the file that is open, None if none is
          rewrites     \* files opened, for MaxRewrites

dirVars == <<dir, writing, rewrites>>

Part(c, torn) == [has |-> c, torn |-> torn]
Whole(c) == Part(c, FALSE)

\* os.path.isfile
IsFile(f) == dir[f] # None
\* What a reader of the whole file gets.
Records(f) == IF IsFile(f) THEN dir[f].has ELSE {}

\* Some of the files an earlier run has left, whole, and no others.
DirInit(there) ==
    /\ \E fs \in SUBSET there :
          dir = [f \in Files |-> IF f \in fs
                                THEN Whole(CHOOSE c \in Contents[f] : TRUE)
                                ELSE None]
    /\ writing = None
    /\ rewrites = 0

\* open(path, "w") and the buffers flushed so far.
OpenFile(f) ==
    /\ writing = None
    /\ rewrites < MaxRewrites
    /\ \E c \in Contents[f] : \E part \in SUBSET c, torn \in BOOLEAN :
          dir' = [dir EXCEPT ![f] = Part(part, torn)]
    /\ writing' = f
    /\ rewrites' = rewrites + 1

CloseFile ==
    /\ writing # None
    /\ \E c \in Contents[writing] :
          /\ dir[writing].has \subseteq c
          /\ dir' = [dir EXCEPT ![writing] = Whole(c)]
    /\ writing' = None
    /\ UNCHANGED rewrites

\* The pipeline is killed: the file stays as it is.
PipelineDies ==
    /\ writing # None
    /\ writing' = None
    /\ UNCHANGED <<dir, rewrites>>

Rewrite == (\E f \in Files : OpenFile(f)) \/ CloseFile \/ PipelineDies
=============================================================================
