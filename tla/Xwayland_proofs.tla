--------------------------- MODULE Xwayland_proofs ---------------------------
(***************************************************************************)
(* X11 support, for any number of compositors, display numbers, clients    *)
(* and failing calls.  The locks alone do not keep two compositors apart:  *)
(* what does is SocketInv, that whoever has got past the bind of the       *)
(* abstract socket is the one the kernel gave it to.  The supervisor's     *)
(* invariant is LookedAfter strengthened by WatchInv, which says what its  *)
(* thread and channel can be at each of its states, terminal ones too.     *)
(***************************************************************************)
EXTENDS Xwayland, TLAPS

-----------------------------------------------------------------------------
(* The claim of a display                                                  *)

\* The program starts in a state of the right types.
LEMMA ClaimInitType == Init => TypeOK
  BY ConstantsAssumption DEF Init, TypeOK, Files, NoFile, Steps, Ends

\* Going on to the next display number, or giving up.
LEMMA NextSlotType ==
  ASSUME TypeOK, NEW p \in Procs, NextSlot(p)
  PROVE  pc' \in [Procs -> Steps \cup Ends] /\ slot' \in [Procs -> Displays]
  BY DEF TypeOK, NextSlot, Goto, Steps, Ends

\* Every step of a claim keeps the types.
LEMMA ClaimType ==
  ASSUME TypeOK, [Next]_vars
  PROVE  TypeOK'
<1> USE DEF TypeOK, Goto, Steps, Ends, Files, NoFile
<1>0. ASSUME NEW p \in Procs
      PROVE  slot[p] \in Displays /\ lock[slot[p]] \in Files
  OBVIOUS
<1>1. ASSUME NEW p \in Procs, Create(p) PROVE TypeOK'
  <2>1. [by |-> p, pid |-> FALSE] \in Files
    OBVIOUS
  <2>2. lock' \in [Displays -> Files]
    BY <1>1, <2>1 DEF Create
  <2>3. pc' \in [Procs -> Steps \cup Ends]
    BY <1>1 DEF Create
  <2> QED
    BY <1>1, <2>2, <2>3 DEF Create
<1>2. ASSUME NEW p \in Procs, WritePid(p) PROVE TypeOK'
  BY <1>2, <1>0 DEF WritePid
<1>3. ASSUME NEW p \in Procs, WriteFd(p) PROVE TypeOK'
  <2>1. CASE lock[slot[p]].by = p
    <3>1. lock[slot[p]] \in [by : Procs, pid : BOOLEAN]
      BY <1>0, <2>1, ConstantsAssumption
    <3>2. [lock[slot[p]] EXCEPT !.pid = TRUE] \in Files
      BY <3>1
    <3> QED
      BY <1>3, <1>0, <2>1, <3>2 DEF WriteFd
  <2>2. CASE lock[slot[p]].by # p
    BY <1>3, <2>2 DEF WriteFd
  <2> QED
    BY <2>1, <2>2
<1>4. ASSUME NEW p \in Procs, Judge(p) PROVE TypeOK'
  BY <1>4, <1>0, NextSlotType DEF Judge
<1>5. ASSUME NEW p \in Procs, UnlinkLock(p) PROVE TypeOK'
  BY <1>5, <1>0, NextSlotType DEF UnlinkLock
<1>6. ASSUME NEW p \in Procs, UnlinkPath(p) PROVE TypeOK'
  BY <1>6, <1>0 DEF UnlinkPath
<1>7. ASSUME NEW p \in Procs, Recreate(p) PROVE TypeOK'
  <2>1. CASE lock[slot[p]] = NoFile
    <3>1. [by |-> p, pid |-> FALSE] \in Files
      OBVIOUS
    <3>2. lock' \in [Displays -> Files]
      BY <1>7, <2>1, <3>1 DEF Recreate
    <3>3. pc' \in [Procs -> Steps \cup Ends]
      BY <1>7, <2>1 DEF Recreate
    <3> QED
      BY <1>7, <2>1, <3>2, <3>3 DEF Recreate
  <2>2. CASE lock[slot[p]] # NoFile
    BY <1>7, <2>2, NextSlotType DEF Recreate
  <2> QED
    BY <2>1, <2>2
<1>8. ASSUME NEW p \in Procs, BindAbstract(p) PROVE TypeOK'
  <2>1. abstract' \in [Displays -> Procs \cup {Nobody}]
    BY <1>8, <1>0 DEF BindAbstract
  <2>2. pc' \in [Procs -> Steps \cup Ends]
    BY <1>8 DEF BindAbstract
  <2> QED
    BY <1>8, <2>1, <2>2 DEF BindAbstract
<1>9. ASSUME NEW p \in Procs, UnlinkStale(p) PROVE TypeOK'
  BY <1>9, <1>0 DEF UnlinkStale
<1>10. ASSUME NEW p \in Procs, BindPath(p) PROVE TypeOK'
  BY <1>10, <1>0 DEF BindPath
<1>11. ASSUME NEW p \in Procs, DropLock(p) PROVE TypeOK'
  BY <1>11, <1>0, NextSlotType DEF DropLock
<1>12. ASSUME NEW p \in Procs, Crash(p) PROVE TypeOK'
  BY <1>12, <1>0 DEF Crash
<1>13. ASSUME NEW p \in Procs, Exit(p) PROVE TypeOK'
  BY <1>13, <1>0 DEF Exit
<1>14. CASE UNCHANGED vars
  BY <1>14 DEF vars
<1> QED
  BY <1>1, <1>2, <1>3, <1>4, <1>5, <1>6, <1>7, <1>8, <1>9, <1>10, <1>11, <1>12,
     <1>13, <1>14
  DEF Next, Claim

\* Whoever has got past the bind of the abstract socket has it.
SocketInv ==
  \A p \in Procs :
    pc[p] \in {"unlinkStale", "bindPath", "holds"} => abstract[slot[p]] = p

\* A step takes the abstract socket from nobody but the process that steps.
LEMMA SocketStep ==
  ASSUME TypeOK, SocketInv, [Next]_vars
  PROVE  SocketInv'
<1> USE DEF TypeOK, SocketInv, Goto, Steps, Ends
<1>1. ASSUME NEW p \in Procs, Create(p) PROVE SocketInv'
  BY <1>1 DEF Create
<1>2. ASSUME NEW p \in Procs, WritePid(p) \/ WriteFd(p) PROVE SocketInv'
  BY <1>2 DEF WritePid, WriteFd
<1>3. ASSUME NEW p \in Procs, Judge(p) PROVE SocketInv'
  BY <1>3 DEF Judge, NextSlot
<1>4. ASSUME NEW p \in Procs, UnlinkLock(p) PROVE SocketInv'
  BY <1>4 DEF UnlinkLock, NextSlot
<1>5. ASSUME NEW p \in Procs, UnlinkPath(p) PROVE SocketInv'
  BY <1>5 DEF UnlinkPath
<1>6. ASSUME NEW p \in Procs, Recreate(p) PROVE SocketInv'
  BY <1>6 DEF Recreate, NextSlot
<1>7. ASSUME NEW p \in Procs, BindAbstract(p) PROVE SocketInv'
  <2>1. CASE abstract[slot[p]] = Nobody
    <3>1. \A d \in Displays : abstract'[d] = IF d = slot[p] THEN p ELSE abstract[d]
      BY <1>7, <2>1 DEF BindAbstract
    <3>2. slot' = slot /\ pc' = [pc EXCEPT ![p] = "unlinkStale"]
      BY <1>7, <2>1 DEF BindAbstract
    <3>3. SUFFICES ASSUME NEW q \in Procs, pc'[q] \in {"unlinkStale", "bindPath", "holds"}
                   PROVE  abstract'[slot[q]] = q
      BY <3>2
    <3>4. CASE q = p
      BY <3>1, <3>4
    <3>5. CASE q # p
      <4>1. abstract[slot[q]] = q
        BY <3>2, <3>3, <3>5
      <4>2. slot[q] # slot[p]
        BY <2>1, <4>1, ConstantsAssumption
      <4> QED
        BY <3>1, <4>1, <4>2
    <3> QED
      BY <3>4, <3>5
  <2>2. CASE abstract[slot[p]] # Nobody
    BY <1>7, <2>2 DEF BindAbstract
  <2> QED
    BY <2>1, <2>2
<1>8. ASSUME NEW p \in Procs, UnlinkStale(p) PROVE SocketInv'
  BY <1>8 DEF UnlinkStale
<1>9. ASSUME NEW p \in Procs, BindPath(p) PROVE SocketInv'
  <2>1. CASE path[slot[p]] = Nobody
    BY <1>9, <2>1 DEF BindPath
  <2>2. CASE path[slot[p]] # Nobody
    <3>1. abstract' = [abstract EXCEPT ![slot[p]] = Nobody]
      BY <1>9, <2>2 DEF BindPath
    <3>2. slot' = slot /\ pc' = [pc EXCEPT ![p] = "dropLock"]
      BY <1>9, <2>2 DEF BindPath
    <3>3. abstract[slot[p]] = p
      BY <1>9 DEF BindPath
    <3>4. SUFFICES ASSUME NEW q \in Procs, pc'[q] \in {"unlinkStale", "bindPath", "holds"}
                   PROVE  abstract'[slot[q]] = q
      BY <3>2
    <3>5. q # p /\ abstract[slot[q]] = q
      BY <3>2, <3>4
    <3> QED
      BY <3>1, <3>3, <3>5
  <2> QED
    BY <2>1, <2>2
<1>10. ASSUME NEW p \in Procs, DropLock(p) PROVE SocketInv'
  BY <1>10 DEF DropLock, NextSlot
<1>11. ASSUME NEW p \in Procs, Crash(p) PROVE SocketInv'
  BY <1>11, ConstantsAssumption DEF Crash
<1>12. ASSUME NEW p \in Procs, Exit(p) PROVE SocketInv'
  BY <1>12, ConstantsAssumption DEF Exit
<1>13. CASE UNCHANGED vars
  BY <1>13 DEF vars
<1> QED
  BY <1>1, <1>2, <1>3, <1>4, <1>5, <1>6, <1>7, <1>8, <1>9, <1>10, <1>11, <1>12, <1>13
  DEF Next, Claim

\* What the compositor with the supervisor does includes a claim's step or none.
LEMMA XwaylandClaims == [NextXwayland]_allVars => [Next]_vars
  BY DEF NextXwayland, Claiming, Supervising, allVars, vars

\* The claim's variables have the right types in every reachable state.
THEOREM ClaimTypeCorrect == SpecXwayland => []TypeOK
<1>1. InitXwayland => TypeOK
  BY ClaimInitType DEF InitXwayland
<1>2. TypeOK /\ [NextXwayland]_allVars => TypeOK'
  BY ClaimType, XwaylandClaims
<1> QED
  BY <1>1, <1>2, PTL DEF SpecXwayland

\* However many compositors start, crash and exit at the same time, and whatever
\* locks they find, steal or unlink (open_display_sockets, DisplayLockGuard), no
\* two of them hold the same display.
THEOREM DisplayExclusiveCorrect == SpecXwayland => []DisplayExclusive
<1>1. InitXwayland => SocketInv
  BY DEF InitXwayland, Init, SocketInv
<1>2. TypeOK /\ SocketInv /\ [NextXwayland]_allVars => SocketInv'
  BY SocketStep, XwaylandClaims
<1>3. SocketInv => DisplayExclusive
  BY DEF SocketInv, DisplayExclusive
<1> QED
  BY <1>1, <1>2, <1>3, ClaimTypeCorrect, PTL DEF SpecXwayland

-----------------------------------------------------------------------------
(* The supervisor                                                          *)

\* What the sources, the thread and the channel can be in each WatchState. Only
\* a terminal failure leaves Running with nobody to send a Rearm.
WatchInv ==
  /\ spawner \in {"none", "starting", "waiting", "leaving"}
  /\ \/ state = "Unset" /\ sources = {} /\ spawner = "none" /\ channel = 0
     \/ state \in {"Off", "Disarmed"} /\ terminal /\ spawner = "none" /\ channel = 0
     \/ state = "Watching" /\ sources = Watch!Sockets /\ spawner = "none" /\ channel = 0
     \/ /\ state = "Running" /\ sources = {}
        /\ \/ spawner # "none" /\ channel = 0
           \/ spawner = "none" /\ channel = 1
           \/ spawner = "none" /\ channel = 0 /\ terminal

\* Every step of the main loop keeps it.
LEMMA MainLoopStep ==
  ASSUME WatchInv, Watch!MainLoop
  PROVE  WatchInv'
<1> USE DEF WatchInv
<1>1. CASE Watch!Start
  BY <1>1 DEF Watch!Start, Watch!Armed, Watch!Fault
<1>2. CASE Watch!OnRearm
  BY <1>2 DEF Watch!OnRearm, Watch!Armed, Watch!ArmFails, Watch!main
<1>3. ASSUME NEW s \in Watch!Sockets, Watch!SocketReady(s) PROVE WatchInv'
  BY <1>3 DEF Watch!SocketReady, Watch!Armed, Watch!ArmFails, Watch!Unwatched
<1> QED
  BY <1>1, <1>2, <1>3 DEF Watch!MainLoop

\* So does every other step, of the thread, the satellite and the clients.
LEMMA OtherStep ==
  ASSUME WatchInv,
         \/ Watch!Thread
         \/ Watch!Satellite
         \/ \E c \in Clients : Watch!ClientLeaves(c)
         \/ \E c \in Clients : \E s \in Watch!Sockets : Watch!ClientConnects(c, s)
         \/ UNCHANGED watchVars
  PROVE  WatchInv'
<1> USE DEF WatchInv
<1>1. CASE Watch!Spawn
  BY <1>1 DEF Watch!Spawn, Watch!main
<1>2. CASE Watch!RequestRearm
  BY <1>2 DEF Watch!RequestRearm, Watch!main
<1>3. CASE Watch!SatelliteExits
  BY <1>3 DEF Watch!SatelliteExits, Watch!main
<1>4. ASSUME NEW c \in Clients, Watch!SatelliteServes(c) \/ Watch!ClientLeaves(c) PROVE WatchInv'
  BY <1>4 DEF Watch!SatelliteServes, Watch!ClientLeaves, Watch!main
<1>5. ASSUME NEW c \in Clients, NEW s \in Watch!Sockets, Watch!ClientConnects(c, s) PROVE WatchInv'
  BY <1>5 DEF Watch!ClientConnects, Watch!main
<1>6. CASE UNCHANGED watchVars
  BY <1>6 DEF watchVars
<1> QED
  BY <1>1, <1>2, <1>3, <1>4, <1>5, <1>6 DEF Watch!Thread, Watch!Satellite

LEMMA WatchInvariant == SpecXwayland => []WatchInv
<1>1. InitXwayland => WatchInv
  BY DEF InitXwayland, Watch!Init, WatchInv
<1>2. WatchInv /\ [NextXwayland]_allVars => WatchInv'
  BY MainLoopStep, OtherStep DEF NextXwayland, Claiming, Supervising, allVars
<1> QED
  BY <1>1, <1>2, PTL DEF SpecXwayland

\* Whatever fails, short of a terminal failure the sockets are watched, or one
\* thread is busy or has asked for the watch to come back (XwlsIntegration).
THEOREM LookedAfterCorrect == SpecXwayland => []LookedAfter
<1>1. WatchInv => LookedAfter
  BY DEF WatchInv, LookedAfter, Watch!LookedAfter
<1> QED
  BY <1>1, WatchInvariant, PTL

\* The event loop never watches the sockets while a thread has a satellite.
THEOREM NeverBothCorrect == SpecXwayland => []NeverBoth
<1>1. WatchInv => NeverBoth
  BY DEF WatchInv, NeverBoth, Watch!NeverBoth
<1> QED
  BY <1>1, WatchInvariant, PTL
=============================================================================
