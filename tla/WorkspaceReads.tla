---------------------------- MODULE WorkspaceReads ----------------------------
(***************************************************************************)
(* The tools that read: read_file, search and active_document, over        *)
(* NodeWorkspaceAdapter (the disk) and VsCodeEditorAdapter (the buffers).  *)
(* Every tool awaits the disk between its steps, and the user edits, saves *)
(* and undoes meanwhile.                                                   *)
(*                                                                         *)
(* A place is <<root, path>>: what a document is opened under, and what    *)
(* the files are.  One place is a symbolic link.                           *)
(***************************************************************************)
EXTENDS Naturals, Sequences, FiniteSets, FiniteSetsExt

CONSTANTS
  Files,      \* the places that hold a file
  Outside,    \* a place in no root
  Link,       \* the place that is a link
  Secrets,    \* the paths inspectPath blocks
  MaxChanges  \* bound: texts written or typed

VARIABLES
  target,   \* where Link leads
  disk,     \* the text of each file
  unsaved,  \* the text of each dirty document, by the place it is opened under
  seen,     \* per place, what it showed since the call began, and what was
            \* written to it under an unsaved document
  changes,  \* texts so far; each new one is numbered
  call      \* the call that runs, or ran last

readVars == <<target, disk, unsaved, seen, changes, call>>

Roots  == {1, 2}             \* the workspace folders, in their order
Places == Files \cup {Link}
Texts  == 0 .. MaxChanges
Clean  == MaxChanges + 1     \* no unsaved text

Real(p)   == IF p = Link THEN target ELSE p
Blocked(p) == p[2] \in Secrets
OnDisk(p) == disk[Real(p)]
Shows(p)  == IF unsaved[p] # Clean THEN unsaved[p] ELSE OnDisk(p)
Dirty     == {p \in Places : unsaved[p] # Clean}

Idle == [tool |-> "none", step |-> "idle", at |-> Outside, skip |-> {}, left |-> {},
         buffers |-> {}, hits |-> {}, count |-> 0]

ReadsTypeOK ==
  /\ target \in Files \cup {Outside}
  /\ disk \in [Files \cup {Outside} -> Texts]
  /\ unsaved \in [Places -> Texts \cup {Clean}]
  /\ seen \in [Places -> SUBSET Texts] /\ changes \in Texts
  /\ call.step \in {"idle", "resolved", "loading", "walking", "done"}
  /\ call.hits \subseteq Places \X Texts

ReadsInit ==
  /\ target \in Files \cup {Outside}
  /\ disk = [p \in Files \cup {Outside} |-> 0]
  /\ unsaved = [p \in Places |-> Clean]
  /\ seen = [p \in Places |-> {}] /\ changes = 0
  /\ call = Idle

-----------------------------------------------------------------------------
(* A call begins when none runs; what is on the screen is noted from then. *)
Begins == call.step \in {"idle", "done"} /\ changes < MaxChanges
Noted  == [p \in Places |-> {Shows(p)}]

Report(c, p, text) == [c EXCEPT !.hits = @ \cup {<<p, text>>}, !.count = @ + 1]

(* resolvePath: the first root that has the path, really inside it.  A     *)
(* secret ends the search; so does a path no root has.                     *)
Resolved(path) ==
  LET inside == {r \in Roots : /\ <<r, path>> \in Places
                               /\ Real(<<r, path>>)[1] = r}
  IN  {p \in {Real(<<r, path>>) : r \in {q \in inside : q = Min(inside)}} : ~Blocked(p)}

ReadFile(path) ==
  /\ Begins
  /\ seen' = Noted
  /\ \E p \in Resolved(path) :
       call' = [Idle EXCEPT !.tool = "read", !.step = "resolved", !.at = p]
  /\ UNCHANGED <<target, disk, unsaved, changes>>

(* Faulty: only the file on disk is looked at.                             *)
LooksAtDisk ==
  call' = [call EXCEPT !.step = "loading"]

(* getDocumentSnapshotFor: unsaved text wins over the disk.                *)
LooksAtBuffer ==
  call' = IF unsaved[call.at] # Clean
          THEN [Report(call, call.at, unsaved[call.at]) EXCEPT !.step = "done"]
          ELSE [call EXCEPT !.step = "loading"]

Look ==
  /\ call.step = "resolved"
  /\ LooksAtBuffer
  /\ UNCHANGED <<target, disk, unsaved, seen, changes>>

(* readDiskFile, of the path the link was followed to.                     *)
Load ==
  /\ call.step = "loading"
  /\ call' = [Report(call, call.at, disk[call.at]) EXCEPT !.step = "done"]
  /\ UNCHANGED <<target, disk, unsaved, seen, changes>>

(* active_document: one step, of whatever has the focus.                   *)
ActiveDocument(p) ==
  /\ Begins
  /\ ~Blocked(p)
  /\ seen' = Noted
  /\ call' = [Report(Idle, p, Shows(p)) EXCEPT !.tool = "active", !.step = "done"]
  /\ UNCHANGED <<target, disk, unsaved, changes>>

-----------------------------------------------------------------------------
(* search.                                                                 *)

(* What the walk of the first root meets: links are not files to it.       *)
Walked == {p \in Files : p[1] = 1 /\ ~Blocked(p)}

(* The dirty documents are noted first, and their paths left out of the    *)
(* walk.                                                                   *)
Search ==
  /\ Begins
  /\ seen' = Noted
  /\ LET dirty == {p \in Dirty : ~Blocked(p)} IN
       call' = [Idle EXCEPT !.tool = "search", !.step = "walking", !.left = Walked,
                            !.skip = {p[2] : p \in dirty},
                            !.buffers = {<<p, unsaved[p]>> : p \in dirty}]
  /\ UNCHANGED <<target, disk, unsaved, changes>>

Skipped(p) == p[2] \in call.skip

(* One file of the walk, as it is on the disk when the walk gets there.    *)
Visit(p) ==
  /\ call.step = "walking" /\ p \in call.left
  /\ LET c == IF Skipped(p) THEN call ELSE Report(call, p, disk[p])
     IN  call' = [c EXCEPT !.left = @ \ {p}]
  /\ UNCHANGED <<target, disk, unsaved, seen, changes>>

(* The buffers, as they were when the call began, go before the files.     *)
AddBuffers ==
  /\ call.step = "walking" /\ call.left = {}
  /\ call' = [call EXCEPT !.step = "done", !.hits = @ \cup call.buffers,
                          !.count = @ + Cardinality(call.buffers)]
  /\ UNCHANGED <<target, disk, unsaved, seen, changes>>

-----------------------------------------------------------------------------
(* The user, and the disk.                                                 *)

WrittenTo(p) == {disk'[q] : q \in {f \in Files : f = p /\ disk'[f] # disk[f]}}
SeenAfter == seen' = [p \in Places |-> seen[p] \cup {Shows(p)'} \cup WrittenTo(p)]

Type(p) ==
  /\ changes < MaxChanges /\ changes' = changes + 1
  /\ unsaved' = [unsaved EXCEPT ![p] = changes + 1]
  /\ UNCHANGED <<target, disk, call>>
  /\ SeenAfter

(* A file may be dirty under two names: the other document stays dirty.    *)
Save(p) ==
  /\ p \in Dirty
  /\ disk' = [disk EXCEPT ![Real(p)] = unsaved[p]]
  /\ unsaved' = [unsaved EXCEPT ![p] = Clean]
  /\ UNCHANGED <<target, changes, call>>
  /\ SeenAfter

Revert(p) ==
  /\ p \in Dirty
  /\ unsaved' = [unsaved EXCEPT ![p] = Clean]
  /\ UNCHANGED <<target, disk, changes, call>>
  /\ SeenAfter

(* Another program writes a file, be it dirty or not, or moves the link.   *)
Rewrite(p) ==
  /\ p \in Files
  /\ changes < MaxChanges /\ changes' = changes + 1
  /\ disk' = [disk EXCEPT ![p] = changes + 1]
  /\ UNCHANGED <<target, unsaved, call>>
  /\ SeenAfter

Relink(p) ==
  /\ target' = p /\ p # target
  /\ UNCHANGED <<disk, unsaved, changes, call>>
  /\ SeenAfter

ReadsNext ==
  \/ \E path \in {p[2] : p \in Places} : ReadFile(path)
  \/ \E p \in Places : ActiveDocument(p) \/ Type(p) \/ Save(p) \/ Revert(p)
  \/ \E p \in Files : Visit(p) \/ Rewrite(p)
  \/ \E p \in Files \cup {Outside} : Relink(p)
  \/ Look \/ Load \/ Search \/ AddBuffers

ReadsSpec == ReadsInit /\ [][ReadsNext]_readVars

-----------------------------------------------------------------------------
(* What a tool reports of a file, as it is named, the file showed while    *)
(* the tool worked, or another program wrote it to the disk meanwhile; and *)
(* no name is reported twice, whatever is typed, saved or undone.  A       *)
(* search reports the documents that were dirty when it began, with the    *)
(* text they had then, and leaves out no file of its folder but one whose  *)
(* path a dirty document of another folder shares.                         *)
ReportsAreTrue ==
  call.step = "done" =>
    /\ \A h \in call.hits : h[2] \in seen[h[1]]
    /\ \A g, h \in call.hits : g[1] = h[1] => g = h
    /\ call.count = Cardinality(call.hits)
    /\ call.tool = "search" =>
         /\ call.buffers \subseteq call.hits
         /\ \A p \in Walked : (\E h \in call.hits : h[1] = p)
                              \/ \E b \in call.buffers : b[1] # p /\ b[1][2] = p[2]

(* The documents and the disk are compared by name.  Of the files          *)
(* themselves neither promise holds when one is edited through a link:     *)
(* "the same file is never counted twice",                                 *)
CountedOnce ==
  call.step = "done" => \A g, h \in call.hits : Real(g[1]) = Real(h[1]) => g = h

(* and "never silently substitute disk content for a dirty buffer".        *)
BufferWins ==
  [][call.step = "resolved" /\ call'.step = "loading" =>
       \A p \in Dirty : Real(p) # call.at]_readVars
=============================================================================
