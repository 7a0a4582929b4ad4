---------------------------- MODULE FcitxRouter ----------------------------
(* The D-Bus bridge: a thread that stands between the applications and the   *)
(* session bus, answers fcitx's calls itself, denies or forwards the others  *)
(* by a routing table, and tells the compositor what happens; and a second   *)
(* thread that serves the compositor's commands. Both share the table and    *)
(* the registry of input contexts, each behind a mutex.                      *)
EXTENDS Integers, Sequences, SequencesExt, Selection

CONSTANTS
  Clients,                 \* D-Bus connections of applications
  Paths,                   \* object paths of input contexts
  FirstPath,               \* the path a new allocator gives first
  Builtin,                 \* the table the bridge starts with
  Rules,                   \* rules Emacs may add
  Calls,                   \* calls applications may make
  None

ASSUME FirstPathAssumption == FirstPath \in Paths

\* Rules of the table, wherever they come from
AllRules == Rules \cup ToSet(Builtin)

VARIABLES
  bridge,                  \* the bridge thread: starting, up, down (or the process aborted)
  worker,                  \* the command thread: runs, or dead of a panic
  table,                   \* routing table, in order of precedence
  held,                    \* whose call is at the bus, with the table locked
  registry,                \* input context -> who registered it
  call,                    \* client -> its call without an answer yet
  commands,                \* channel from the compositor
  notices,                 \* channel to the compositor
  relayed,                 \* signals sent for text of the host's input method
  calls, asks              \* bounds: how many calls and commands are still to come

routerVars == <<bridge, worker, table, held, registry, call, commands, notices, relayed,
                calls, asks>>

Wildcard == "*"
Fields == {"destination", "interface", "method"}

----------------------------------------------------------------------------
(* Routing table *)

Specificity(r) == Cardinality({f \in Fields : r[f] # Wildcard})
Matches(r, m) == \A f \in Fields : r[f] \in {Wildcard, m[f]}

\* The order of the table: priority, then specificity, both downwards.
Before(r, q) ==
  \/ r.priority > q.priority
  \/ r.priority = q.priority /\ Specificity(r) > Specificity(q)

\* No rule stands after one that it precedes.
Sorted(t) == \A i, j \in DOMAIN t : i < j => ~Before(t[j], t[i])

\* RoutingTable::new sorts what it is given.
ASSUME BuiltinAssumption ==
  /\ \A r \in AllRules : r.priority \in Int
  /\ Builtin \in Seq(AllRules) /\ Sorted(Builtin)

\* A mutant of AddTo: the rule goes to the end and the table is not sorted.
AddLast(t, r) == Append(t, r)

\* push and a stable sort of a sorted table: the rule goes before the first it
\* precedes, or to the end.
AddTo(t, r) ==
  LET k == SelectInSeq(t, LAMBDA q : Before(r, q))
  IN IF k = 0 THEN Append(t, r) ELSE InsertAt(t, k, r)

RemoveFrom(t, id) == Selected(t, {q \in ToSet(t) : q.id # id})

Route(t, m) ==
  LET k == SelectInSeq(t, LAMBDA r : Matches(r, m)) IN IF k = 0 THEN None ELSE t[k].target

----------------------------------------------------------------------------
(* Decoding of fcitx calls, and of the host's preedit for its clients *)

IsFcitx(m) == m.interface = "fcitx"

\* ProcessKeyEvent and others are fcitx's, but the bridge has no name for them.
Classified(m) == IsFcitx(m) /\ m.method # "ProcessKeyEvent"

\* Reset, SetCapability and the surrounding text are answered and forgotten.
Event(m) ==
  CASE m.method = "FocusIn" -> <<[kind |-> "focus", ic |-> m.path, on |-> TRUE]>>
    [] m.method = "FocusOut" -> <<[kind |-> "focus", ic |-> m.path, on |-> FALSE]>>
    [] m.method = "SetCursorRect" -> <<[kind |-> "rect", ic |-> m.path, rect |-> m.rect]>>
    [] m.method = "DestroyIC" -> <<[kind |-> "destroyed", ic |-> m.path]>>
    [] OTHER -> <<>>

\* An allocator is made for each call, so that each allocates its first path.
Allocate == FirstPath

Least(a, b) == IF a < b THEN a ELSE b
Most(a, b) == IF a < b THEN b ELSE a

\* build_preedit_chunks: the text before the caret's range, within and after
\* it. Each of the first two indexes the text at the end of its part.
ChunksPanic(length, begin, end) ==
  LET b == Most(begin, 0)
      e == Most(end, b)
      pos == Least(b, length)
  IN length > 0 /\ (\/ 0 < b /\ Least(b, length) = length
                    \/ pos < Least(e, length) /\ Least(e, length) = length)

----------------------------------------------------------------------------
(* Calls of applications, in the filter of their connection *)

InitRouter ==
  /\ bridge = "starting"
  /\ worker = "runs"
  /\ table = Builtin
  /\ held = None
  /\ registry = [p \in Paths |-> None]
  /\ call = [c \in Clients |-> None]
  /\ commands = <<>>
  /\ notices = <<>>
  /\ relayed = 0

Notify(ns) == notices' = notices \o ns

\* The bus server cannot be created: the thread returns.
StartServer ==
  /\ bridge = "starting"
  /\ bridge' \in {"up", "down"}
  /\ UNCHANGED <<worker, table, held, registry, call, commands, notices, relayed, calls, asks>>

Send(c) ==
  /\ bridge = "up" /\ call[c] = None /\ calls > 0
  /\ \E m \in Calls : call' = [call EXCEPT ![c] = m]
  /\ calls' = calls - 1
  /\ UNCHANGED <<bridge, worker, table, held, registry, commands, notices, relayed, asks>>

\* The filter begins: the mutex of the table is free.
Filtering(c) == bridge = "up" /\ call[c] # None /\ held = None

\* A mutant of Deny: the caller is not told.
DenySilently(c) ==
  Filtering(c) /\ Route(table, call[c]) = "deny" /\ UNCHANGED routerVars

Deny(c) ==
  /\ Filtering(c)
  /\ Route(table, call[c]) = "deny"
  /\ call' = [call EXCEPT ![c] = None]
  /\ UNCHANGED <<bridge, worker, table, held, registry, commands, notices, relayed, calls, asks>>

\* An fcitx call is answered here. The registry's mutex is poisoned when the
\* command thread has panicked with it: a context cannot be registered any
\* more, and the panic in the filter takes the process down.
AnswerFcitx(c) ==
  LET m == call[c] IN
  /\ Filtering(c)
  /\ Route(table, m) # "deny"
  /\ Classified(m)
  /\ IF m.method = "CreateInputContext"
       THEN IF worker = "dead"
              THEN bridge' = "aborted" /\ UNCHANGED <<registry, call, notices>>
              ELSE /\ registry' = [registry EXCEPT ![Allocate] = c]
                   /\ call' = [call EXCEPT ![c] = None]
                   /\ UNCHANGED <<bridge, notices>>
       ELSE /\ Notify(Event(m))
            /\ call' = [call EXCEPT ![c] = None]
            /\ UNCHANGED <<bridge, registry>>
  /\ UNCHANGED <<worker, table, held, commands, relayed, calls, asks>>

\* Calls to the bus itself that no rule names are left to the connection.
PassToConnection(c) ==
  /\ Filtering(c)
  /\ call[c].interface = "bus" /\ Route(table, call[c]) = None
  /\ call' = [call EXCEPT ![c] = None]
  /\ UNCHANGED <<bridge, worker, table, held, registry, commands, notices, relayed, calls, asks>>

\* Neither denied, nor answered here, nor left to the connection.
ToForward(c) ==
  LET target == Route(table, call[c]) IN
  /\ target # "deny"
  /\ ~Classified(call[c])
  /\ call[c].interface = "bus" => target # None

\* The call waits for the bus with the table locked.
Forward(c) ==
  /\ Filtering(c)
  /\ ToForward(c)
  /\ held' = c
  /\ UNCHANGED <<bridge, worker, table, registry, call, commands, notices, relayed, calls, asks>>

\* The bus answers, or the call to it fails or times out, which is an answer too.
BusAnswers(c) ==
  /\ bridge = "up" /\ held = c
  /\ held' = None
  /\ call' = [call EXCEPT ![c] = None]
  /\ UNCHANGED <<bridge, worker, table, registry, commands, notices, relayed, calls, asks>>

----------------------------------------------------------------------------
(* Commands of the compositor, in the command thread *)

\* send_rpc: an error, when the thread is gone, is dropped.
Command(k) ==
  /\ asks > 0
  /\ asks' = asks - 1
  /\ commands' = IF worker = "runs" /\ bridge # "down" THEN Append(commands, k) ELSE commands
  /\ UNCHANGED <<bridge, worker, table, held, registry, call, notices, relayed, calls>>

Serving(kind) ==
  bridge = "up" /\ worker = "runs" /\ commands # <<>> /\ Head(commands).kind = kind

Served == commands' = Tail(commands)

\* A mutant of AddRule: the table is not locked.
AddRuleUnlocked ==
  /\ Serving("add") /\ Served
  /\ table' = AddTo(table, Head(commands).rule)
  /\ Notify(<<[kind |-> "added", id |-> Head(commands).rule.id]>>)
  /\ UNCHANGED <<bridge, worker, held, registry, call, relayed, calls, asks>>

AddRule ==
  /\ Serving("add") /\ Served
  /\ held = None
  /\ table' = AddTo(table, Head(commands).rule)
  /\ Notify(<<[kind |-> "added", id |-> Head(commands).rule.id]>>)
  /\ UNCHANGED <<bridge, worker, held, registry, call, relayed, calls, asks>>

RemoveRule ==
  /\ Serving("remove") /\ Served
  /\ held = None
  /\ table' = RemoveFrom(table, Head(commands).id)
  /\ Notify(<<[kind |-> "removed", id |-> Head(commands).id]>>)
  /\ UNCHANGED <<bridge, worker, held, registry, call, relayed, calls, asks>>

ListRules ==
  /\ Serving("list") /\ Served
  /\ held = None
  /\ Notify(<<[kind |-> "list", rules |-> table]>>)
  /\ UNCHANGED <<bridge, worker, table, held, registry, call, relayed, calls, asks>>

Registered(k) == registry[k.ic] # None

RelayCommit ==
  /\ Serving("commit") /\ Served
  /\ relayed' = relayed + (IF Registered(Head(commands)) THEN 1 ELSE 0)
  /\ UNCHANGED <<bridge, worker, table, held, registry, call, notices, calls, asks>>

\* The chunks are built with the registry locked: a panic poisons it. What is
\* left in the channel is never read.
RelayPreedit ==
  LET k == Head(commands) IN
  /\ Serving("preedit")
  /\ IF Registered(k) /\ ChunksPanic(k.text.length, k.text.begin, k.text.end)
       THEN worker' = "dead" /\ commands' = <<>> /\ UNCHANGED relayed
       ELSE /\ Served
            /\ relayed' = relayed + (IF Registered(k) THEN 1 ELSE 0)
            /\ UNCHANGED worker
  /\ UNCHANGED <<bridge, table, held, registry, call, notices, calls, asks>>

Filter(c) == Deny(c) \/ AnswerFcitx(c) \/ PassToConnection(c) \/ Forward(c) \/ BusAnswers(c)
Work == AddRule \/ RemoveRule \/ ListRules \/ RelayCommit \/ RelayPreedit
Router == StartServer \/ Work \/ \E c \in Clients : Send(c) \/ Filter(c)

----------------------------------------------------------------------------
(* Properties *)

TypeOKRouter ==
  /\ bridge \in {"starting", "up", "down", "aborted"}
  /\ worker \in {"runs", "dead"}
  /\ table \in Seq(AllRules)
  /\ held \in Clients \cup {None}
  /\ registry \in [Paths -> Clients \cup {None}]
  /\ call \in [Clients -> Calls \cup {None}]
  /\ relayed \in Nat /\ calls \in Nat /\ asks \in Nat

\* No call that the table denies is on its way to the bus: a rule that has been
\* acknowledged holds for the calls that came before it, too.
DenyIsFinal == held # None => Route(table, call[held]) # "deny"

\* A call is answered by the rule of highest priority, then specificity, that
\* matches it, whatever order rules were added and removed in.
BestRuleWins ==
  \A m \in Calls : \A i \in DOMAIN table :
    Matches(table[i], m) =>
      \E j \in DOMAIN table : /\ Matches(table[j], m) /\ ~Before(table[i], table[j])
                             /\ Route(table, m) = table[j].target

\* Every call of an application gets an answer, unless the process is gone.
CallAnswered == \A c \in Clients : call[c] # None ~> (call[c] = None \/ bridge = "aborted")

\* Preedit text that the command thread takes for a registered context is sent
\* on as a signal (winit.rs: clients of D-Bus receive inline preedit and commit).
PreeditRelayed ==
  [][commands # <<>> /\ Len(commands') < Len(commands) =>
       (Head(commands).kind = "preedit" /\ Registered(Head(commands)) =>
          relayed' = relayed + 1)]_routerVars
=============================================================================
