--------------------------- MODULE MCInputMethods ---------------------------
EXTENDS InputMethods

CONSTANTS p1, p2, r1

Rule(id, priority, destination, interface, target) ==
  [id |-> id, priority |-> priority, destination |-> destination, interface |-> interface,
   method |-> Wildcard, target |-> target]

MCBuiltin == <<Rule("builtin-portal", 100, "portal", Wildcard, "host")>>

\* One rule precedes the built-in one by its priority, one by being more
\* specific, and one comes after it.
MCRules == {Rule("deny", 200, "portal", Wildcard, "deny"), Rule("deny", 50, Wildcard, Wildcard, "deny")}

Fcitx(method, path) ==
  [destination |-> "fcitx", interface |-> "fcitx", method |-> method, path |-> path, rect |-> r1]

MCCalls ==
  {Fcitx(m, p) : m \in {"FocusIn", "FocusOut", "SetCursorRect", "DestroyIC"}, p \in {p1}}
  \cup {Fcitx("FocusIn", p2), Fcitx("CreateInputContext", p1), Fcitx("ProcessKeyEvent", p1)}
  \cup {[destination |-> d, interface |-> d, method |-> "Call", path |-> None, rect |-> None] :
           d \in {"portal", "bus"}}

MCTexts ==
  {[kind |-> "commit"], [kind |-> "preedit", length |-> 2, begin |-> 1, end |-> 1],
   [kind |-> "preedit", length |-> 2, begin |-> 2, end |-> 2]}

Budget(calls_, asks_, focus, carets) ==
  [calls |-> calls_, asks |-> asks_, focus |-> focus, reports |-> carets]
MCBudgets ==
  {Budget(1, 2, 0, 0), Budget(2, 1, 0, 0), Budget(3, 0, 0, 0), Budget(2, 0, 1, 0),
   Budget(1, 0, 2, 1), Budget(0, 0, 3, 3)}

\* Enough for a context to be registered, focused and typed into.
MCTypingBudgets == {Budget(3, 1, 0, 0)}
=============================================================================
