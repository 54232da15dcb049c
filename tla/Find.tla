-------------------------------- MODULE Find --------------------------------
(***************************************************************************)
(* src/fork/find.c: the walk of find_in_dir() over a directory tree, one   *)
(* process.  A directory stays open until everything below it has been     *)
(* walked.  Paths stay within the 128 bytes of the buffer, which the       *)
(* program does not check.                                                 *)
(***************************************************************************)
EXTENDS Pipes

CONSTANTS Trees,   \* the directory trees that are tried, see below
          Limit    \* the descriptors a process may have open

\* A tree is [in, dirs, named]: the directory of each entry, None for the one that
\* find is started in, the entries that are directories, and those whose name
\* strstr() or strcasestr() finds the searched word in.
Dots == {".", ".."}

VARIABLES
  tree,
  walk,     \* the open directories, outermost first: what each has left to read
  shown,    \* the paths printed
  refused   \* directories that could not be opened
findVars == <<tree, walk, shown, refused>>

FindStart == PipesInit("opendir", <<>>) /\ walk = <<>> /\ shown = <<>> /\ refused = {}
FindIdle == tree = None /\ walk = <<>> /\ shown = <<>> /\ refused = {}

\* An open directory: its path, a sequence of names, and what readdir() still has.
Opened(path, d) ==
  [path |-> path, left |-> Dots \cup {e \in DOMAIN tree.in : tree.in[e] = d}]

OpenTop(p) ==
  /\ At(p, "opendir")
  /\ \/ /\ walk' = <<Opened(<<>>, None)>> /\ Goto(p, "readdir")
        /\ UNCHANGED <<fds, kernelVars, lifeVars, var>>
     \/ Exit(p, 1) /\ UNCHANGED walk
  /\ UNCHANGED <<tree, shown, refused>>

Deepest == walk[Len(walk)]

\* readdir(): one more entry of the deepest directory, in any order.
Passed(e) == [walk EXCEPT ![Len(walk)].left = @ \ {e}]

Skip(p) ==
  /\ At(p, "readdir")
  /\ \E e \in Deepest.left \cap Dots : walk' = Passed(e)
  /\ UNCHANGED <<vars, tree, shown, refused>>

\* Seeded fault: the path of a sub-directory is not extended.
DescentFlat(e) == Append(Passed(e), Opened(Deepest.path, e))

Descent(e) == Append(Passed(e), Opened(Append(Deepest.path, e), e))

\* openat() fails for want of a descriptor or a permission.
Visit(p) ==
  /\ At(p, "readdir")
  /\ \E e \in Deepest.left \ Dots :
       /\ shown' = IF e \in tree.named THEN Append(shown, Append(Deepest.path, e)) ELSE shown
       /\ \/ /\ e \in tree.dirs /\ Len(walk) < Limit
             /\ walk' = Descent(e) /\ UNCHANGED refused
          \/ e \in tree.dirs /\ walk' = Passed(e) /\ refused' = refused \cup {e}
          \/ e \notin tree.dirs /\ walk' = Passed(e) /\ UNCHANGED refused
  /\ UNCHANGED <<vars, tree>>

\* The end of a directory: back to the one it is in, or the end of find.
CloseDir(p) ==
  /\ At(p, "readdir") /\ Deepest.left = {}
  /\ walk' = SubSeq(walk, 1, Len(walk) - 1)
  /\ IF Len(walk) = 1 THEN Exit(p, 0) ELSE UNCHANGED vars
  /\ UNCHANGED <<tree, shown, refused>>

FindStep(p) == OpenTop(p) \/ Skip(p) \/ Visit(p) \/ CloseDir(p)
=============================================================================
