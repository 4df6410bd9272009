------------------------------ MODULE ProjectTree ------------------------------
(***************************************************************************)
(* The tools that list: project_tree and list_directory, over              *)
(* NodeWorkspaceAdapter.  The walk awaits the disk once for every          *)
(* directory, and directories vanish meanwhile.                            *)
(*                                                                         *)
(* A directory is read once in a walk, at one moment.  What others change  *)
(* in it before that is as if it had been so from the start, and every     *)
(* call may find another folder; what is left for a walk to meet is a      *)
(* directory that is listed and is gone when its turn comes.               *)
(***************************************************************************)
EXTENDS Integers, Sequences, SequencesExt, FiniteSets

CONSTANTS
  Trees,    \* what folders may hold: parent, kind and hidden of each node
  MaxEntries  \* bound: the largest limit on what is listed

VARIABLES
  tree,   \* what the folder holds; its root is 0
  gone,   \* directories that vanished after they were listed
  limit,  \* maxEntries
  walk    \* the call that runs, or ran last

treeVars == <<tree, gone, limit, walk>>

(* Nodes are numbered in the order of their names, each behind the         *)
(* directory that holds it.                                                *)
IsTree(t) ==
  /\ t.parent \in Seq(Nat)
  /\ t.kind \in [DOMAIN t.parent -> {"directory", "file", "other"}]
  /\ t.hidden \subseteq DOMAIN t.parent
  /\ \A n \in DOMAIN t.parent :
       /\ t.parent[n] < n
       /\ t.parent[n] # 0 => t.kind[t.parent[n]] = "directory"

Nodes == DOMAIN tree.parent
Kind(n) == tree.kind[n]

(* Its name is ignored or its path is a secret.                            *)
Hidden(n) == n \in tree.hidden

Idle == [step |-> "idle", queue |-> <<>>, entries |-> <<>>, omitted |-> 0,
         truncated |-> FALSE, missed |-> {}]

TreeTypeOK ==
  /\ tree \in Trees /\ gone \subseteq Nodes /\ limit \in 1 .. MaxEntries
  /\ walk.step \in {"idle", "walking", "done", "listed"}
  /\ walk.entries \in Seq(Nodes) /\ walk.queue \in Seq(Nodes \cup {0})
  /\ walk.omitted \in Nat /\ walk.truncated \in BOOLEAN

TreeInit ==
  /\ tree \in Trees /\ gone = {}
  /\ limit \in 1 .. MaxEntries
  /\ walk = Idle

-----------------------------------------------------------------------------
Children(d)    == {n \in Nodes : tree.parent[n] = d}
Directories(S) == {n \in S : Kind(n) = "directory"}

(* Directories first, then by name.                                        *)
ByName(S) ==
  [i \in 1 .. Cardinality(S) |-> CHOOSE n \in S : Cardinality({m \in S : m <= n}) = i]
Sorted(S) == ByName(Directories(S)) \o ByName(S \ Directories(S))

AtMost(s, k) == SubSeq(s, 1, IF Len(s) > k THEN k ELSE Len(s))

(* What a walk lists of a directory, if there is room.                     *)
Listable(n) == ~Hidden(n) /\ Kind(n) # "other"

(* Faulty: the directory met last is walked first.                         *)
QueuedFirst(queue, dirs) == dirs \o queue

Queued(queue, dirs) == queue \o dirs

projectTree ==
  /\ walk.step # "walking"
  /\ tree' \in Trees /\ gone' = {}
  /\ walk' = [Idle EXCEPT !.step = "walking", !.queue = <<0>>]
  /\ UNCHANGED limit

(* One directory: every child is looked at, also past the limit.  One that *)
(* cannot be read counts once.                                             *)
ReadDirectory ==
  /\ walk.step = "walking" /\ walk.queue # <<>>
  /\ LET d     == Head(walk.queue)
         found == {n \in Children(d) : Listable(n)}
         room  == limit - Len(walk.entries)
         shown == AtMost(Sorted(found), room)
         w     == [walk EXCEPT !.queue = Tail(@)]
     IN  walk' = IF d \in gone
                 THEN [w EXCEPT !.omitted = @ + 1, !.missed = @ \cup {d}]
                 ELSE [w EXCEPT !.entries = @ \o shown,
                                !.queue = Queued(@, AtMost(ByName(Directories(found)), room)),
                                !.truncated = @ \/ Len(shown) < Cardinality(found),
                                !.omitted = @ + Cardinality(Children(d)) - Len(shown)]
  /\ UNCHANGED <<tree, gone, limit>>

Walked ==
  /\ walk.step = "walking" /\ walk.queue = <<>>
  /\ walk' = [walk EXCEPT !.step = "done"]
  /\ UNCHANGED <<tree, gone, limit>>

(* list_directory: one directory, cut after it is sorted; what is cut is   *)
(* not counted as omitted.                                                 *)
listDirectory(d) ==
  /\ walk.step # "walking" /\ gone = {}
  /\ LET found == {n \in Children(d) : ~Hidden(n)} IN
       walk' = [Idle EXCEPT !.step = "listed",
                            !.entries = AtMost(Sorted(found), limit),
                            !.truncated = Cardinality(found) > limit,
                            !.omitted = Cardinality(Children(d) \ found)]
  /\ UNCHANGED <<tree, gone, limit>>

(* Another program removes a directory that waits to be read.              *)
Vanishes(d) ==
  /\ d \in ToSet(walk.queue) \ gone /\ gone' = gone \cup {d}
  /\ UNCHANGED <<tree, limit, walk>>

TreeNext ==
  \/ projectTree \/ ReadDirectory \/ Walked
  \/ \E d \in Nodes : Vanishes(d)
  \/ \E d \in {n \in Nodes : Kind(n) = "directory"} \cup {0} : listDirectory(d)

TreeSpec == TreeInit /\ [][TreeNext]_treeVars

-----------------------------------------------------------------------------
Depth(n) ==
  LET depth[m \in Nodes] == IF tree.parent[m] = 0 THEN 1 ELSE 1 + depth[tree.parent[m]]
  IN  depth[n]

(* The nodes a walk would list if it had no limit.                         *)
Open(n) ==
  LET open[m \in Nodes] == /\ Listable(m)
                           /\ tree.parent[m] # 0 =>
                                /\ open[tree.parent[m]]
                                /\ tree.parent[m] \notin walk.missed
  IN  open[n]

(* A tree that was cut was cut at its deepest: nothing that is left out is *)
(* shallower than anything that is listed ("a cap truncates the deep       *)
(* corners rather than everything after the first alphabetical             *)
(* directory"); it says whether it was cut, and lists no secret, nothing   *)
(* below one, and nothing twice.                                           *)
TreeIsTrue ==
  walk.step = "done" =>
    LET listed == ToSet(walk.entries) IN
    /\ Len(walk.entries) <= limit /\ IsInjective(walk.entries)
    /\ \A n \in listed : Open(n)
    /\ \A n \in {m \in Nodes : Open(m)} \ listed : \A e \in listed : Depth(e) <= Depth(n)
    /\ walk.truncated <=> \E n \in Nodes \ listed : Open(n)
=============================================================================
