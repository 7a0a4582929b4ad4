---------------------------- MODULE DisplayClaim ----------------------------
(* How compositors that start at the same time claim X11 display numbers:   *)
(* the lock file, its reclaim when it looks stale, the abstract socket and   *)
(* the socket in the file system, one system call per step. Files are named  *)
(* by path: whoever unlinks a path unlinks the file that is there now.       *)
EXTENDS Naturals, FiniteSets

CONSTANTS
  Procs,                   \* compositors
  Displays,                \* the display numbers scanned: 0 .. n
  Nobody                   \* no compositor

ASSUME ConstantsAssumption ==
  /\ Nobody \notin Procs
  /\ Displays \in SUBSET Nat

VARIABLES
  pc,                      \* compositor -> what it does next
  slot,                    \* compositor -> the display number it is at
  lock,                    \* display -> the lock file at its path
  path,                    \* display -> who bound the socket at its path
  abstract                 \* display -> who has the abstract socket

vars == <<pc, slot, lock, path, abstract>>

NoFile == [by |-> Nobody, pid |-> FALSE]
\* The file a compositor creates is empty until its process id is written.
Files == [by : Procs, pid : BOOLEAN] \cup {NoFile}

Steps == {"create", "write", "writeFd", "judge", "unlinkLock", "unlinkPath", "recreate",
          "bindAbstract", "unlinkStale", "bindPath", "dropLock"}
Ends == {"holds", "gaveUp", "dead"}

Alive(p) == pc[p] # "dead"

TypeOK ==
  /\ pc \in [Procs -> Steps \cup Ends]
  /\ slot \in [Procs -> Displays]
  /\ lock \in [Displays -> Files]
  /\ path \in [Displays -> Procs \cup {Nobody}]
  /\ abstract \in [Displays -> Procs \cup {Nobody}]

\* Locks and sockets of compositors that have crashed may lie about.
Init ==
  /\ \E crashed \in SUBSET Procs :
       /\ pc = [p \in Procs |-> IF p \in crashed THEN "dead" ELSE "create"]
       /\ \E first \in Displays :
            /\ \A d \in Displays : first <= d
            /\ slot = [p \in Procs |-> first]
       /\ lock \in [Displays -> {NoFile} \cup [by : crashed, pid : BOOLEAN]]
       /\ path \in [Displays -> {Nobody} \cup crashed]
  /\ abstract = [d \in Displays |-> Nobody]

Goto(p, label) == pc' = [pc EXCEPT ![p] = label]

\* A mutant of NextSlot: the same number is tried again.
SameSlot(p) == Goto(p, "create") /\ UNCHANGED slot

\* The next number, or SetupError::NoFreeDisplay.
NextSlot(p) ==
  IF slot[p] + 1 \in Displays
  THEN Goto(p, "create") /\ slot' = [slot EXCEPT ![p] = @ + 1]
  ELSE Goto(p, "gaveUp") /\ UNCHANGED slot

\* O_CREAT | O_EXCL: an existing lock is judged next.
Create(p) ==
  /\ pc[p] = "create"
  /\ IF lock[slot[p]] = NoFile
     THEN /\ lock' = [lock EXCEPT ![slot[p]] = [by |-> p, pid |-> FALSE]]
          /\ Goto(p, "write")
     ELSE Goto(p, "judge") /\ UNCHANGED lock
  /\ UNCHANGED <<slot, path, abstract>>

\* fs::write by path: the file is read-only and refuses, but one that has been
\* unlinked since is created anew.
WritePid(p) ==
  /\ pc[p] = "write"
  /\ lock' = IF lock[slot[p]] = NoFile
             THEN [lock EXCEPT ![slot[p]] = [by |-> p, pid |-> TRUE]]
             ELSE lock
  /\ Goto(p, "writeFd")
  /\ UNCHANGED <<slot, path, abstract>>

\* write_all through the descriptor reaches the file this compositor created,
\* if it still is the one at the path.
WriteFd(p) ==
  /\ pc[p] = "writeFd"
  /\ lock' = IF lock[slot[p]].by = p THEN [lock EXCEPT ![slot[p]].pid = TRUE] ELSE lock
  /\ Goto(p, "bindAbstract")
  /\ UNCHANGED <<slot, path, abstract>>

\* A lock is stale if it has no process id in it or that of a dead process;
\* one that cannot be read is left alone.
Stale(file) == file # NoFile /\ (file.pid => ~Alive(file.by))

Judge(p) ==
  /\ pc[p] = "judge"
  /\ IF Stale(lock[slot[p]])
     THEN Goto(p, "unlinkLock") /\ UNCHANGED slot
     ELSE NextSlot(p)
  /\ UNCHANGED <<lock, path, abstract>>

\* reclaim_stale_display gives up if the lock has gone meanwhile.
UnlinkLock(p) ==
  /\ pc[p] = "unlinkLock"
  /\ lock' = [lock EXCEPT ![slot[p]] = NoFile]
  /\ IF lock[slot[p]] = NoFile
     THEN NextSlot(p)
     ELSE Goto(p, "unlinkPath") /\ UNCHANGED slot
  /\ UNCHANGED <<path, abstract>>

UnlinkPath(p) ==
  /\ pc[p] = "unlinkPath"
  /\ path' = [path EXCEPT ![slot[p]] = Nobody]
  /\ Goto(p, "recreate")
  /\ UNCHANGED <<slot, lock, abstract>>

Recreate(p) ==
  /\ pc[p] = "recreate"
  /\ IF lock[slot[p]] = NoFile
     THEN /\ lock' = [lock EXCEPT ![slot[p]] = [by |-> p, pid |-> FALSE]]
          /\ Goto(p, "write") /\ UNCHANGED slot
     ELSE NextSlot(p) /\ UNCHANGED lock
  /\ UNCHANGED <<path, abstract>>

\* A mutant of BindAbstract: its error is ignored.
BindAbstractIfFree(p) ==
  /\ pc[p] = "bindAbstract"
  /\ abstract' = IF abstract[slot[p]] = Nobody THEN [abstract EXCEPT ![slot[p]] = p] ELSE abstract
  /\ Goto(p, "unlinkStale")
  /\ UNCHANGED <<slot, lock, path>>

\* The kernel gives an abstract name to one socket at a time.
BindAbstract(p) ==
  /\ pc[p] = "bindAbstract"
  /\ IF abstract[slot[p]] = Nobody
     THEN abstract' = [abstract EXCEPT ![slot[p]] = p] /\ Goto(p, "unlinkStale")
     ELSE Goto(p, "dropLock") /\ UNCHANGED abstract
  /\ UNCHANGED <<slot, lock, path>>

UnlinkStale(p) ==
  /\ pc[p] = "unlinkStale"
  /\ path' = [path EXCEPT ![slot[p]] = Nobody]
  /\ Goto(p, "bindPath")
  /\ UNCHANGED <<slot, lock, abstract>>

\* Binding fails if the path exists: the abstract socket is closed, and the
\* guard unlinks the path, whose ever it is.
BindPath(p) ==
  /\ pc[p] = "bindPath"
  /\ IF path[slot[p]] = Nobody
     THEN /\ path' = [path EXCEPT ![slot[p]] = p]
          /\ Goto(p, "holds") /\ UNCHANGED abstract
     ELSE /\ path' = [path EXCEPT ![slot[p]] = Nobody]
          /\ abstract' = [abstract EXCEPT ![slot[p]] = Nobody]
          /\ Goto(p, "dropLock")
  /\ UNCHANGED <<slot, lock>>

\* The lock's guard unlinks the path, whose ever the lock is by now.
DropLock(p) ==
  /\ pc[p] = "dropLock"
  /\ lock' = [lock EXCEPT ![slot[p]] = NoFile]
  /\ NextSlot(p)
  /\ UNCHANGED <<path, abstract>>

\* A crash leaves the files; the abstract name goes with the process.
Crash(p) ==
  /\ pc[p] \notin {"dead", "gaveUp"}
  /\ Goto(p, "dead")
  /\ abstract' = [d \in Displays |-> IF abstract[d] = p THEN Nobody ELSE abstract[d]]
  /\ UNCHANGED <<slot, lock, path>>

\* An orderly exit drops the guards.
Exit(p) ==
  /\ pc[p] = "holds"
  /\ Goto(p, "dead")
  /\ lock' = [lock EXCEPT ![slot[p]] = NoFile]
  /\ path' = [path EXCEPT ![slot[p]] = Nobody]
  /\ abstract' = [abstract EXCEPT ![slot[p]] = Nobody]
  /\ UNCHANGED slot

Claim(p) ==
  \/ Create(p) \/ WritePid(p) \/ WriteFd(p) \/ Judge(p) \/ UnlinkLock(p) \/ UnlinkPath(p)
  \/ Recreate(p) \/ BindAbstract(p) \/ UnlinkStale(p) \/ BindPath(p) \/ DropLock(p)

Next == \E p \in Procs : Claim(p) \/ Crash(p) \/ Exit(p)

Spec == Init /\ [][Next]_vars

\* setup_connection runs without waiting for anything.
Fairness == \A p \in Procs : WF_vars(Claim(p))

----------------------------------------------------------------------------
(* Properties                                                              *)

\* No two compositors that live hold the same display: when a lock file is
\* reclaimed that was not stale, or unlinked by a guard that is not its
\* owner's, the abstract socket still keeps them apart.
DisplayExclusive ==
  \A p, q \in Procs :
    pc[p] = "holds" /\ pc[q] = "holds" /\ slot[p] = slot[q] => p = q

\* Every compositor that starts gets a display, gives up, or crashes: nobody
\* waits for another one's lock.
ClaimEnds == \A p \in Procs : <>(pc[p] \in Ends)

\* What the comment on is_stale_lock says: a lock that is judged stale has an
\* owner that is gone, or is a leftover no live process considers its own.
StaleLockIsNobodys ==
  \A p \in Procs : pc[p] = "unlinkLock" =>
    LET file == lock[slot[p]] IN file # NoFile => ~Alive(file.by)
=============================================================================
