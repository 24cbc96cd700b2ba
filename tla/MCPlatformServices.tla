------------------------- MODULE MCPlatformServices -------------------------
(* A small instance of the platform services. *)
EXTENDS PlatformServices

CONSTANTS pd1, pd2, pd3

(* Three tasks that depend on at most two tasks, one of which does not      *)
(* exist; and four of which two have the same id.                          *)
TasksOf(n) == {s \in SUBSET {"a", "b", "c", "other"} : Cardinality(s) <= n /\ (n = 1 => "other" \notin s)}

MCProposals ==
  {<<[id |-> "a", deps |-> x], [id |-> "b", deps |-> y], [id |-> "c", deps |-> z]>> :
     x \in TasksOf(2), y \in TasksOf(2), z \in TasksOf(2)}
  \cup {<<[id |-> "a", deps |-> {}], [id |-> "b", deps |-> y], [id |-> "c", deps |-> z], [id |-> "b", deps |-> x]>> :
     x \in TasksOf(1), y \in TasksOf(1), z \in TasksOf(1)}

(* plugins/foo, other/foo and plugins/foobar, and a document two versions  *)
(* before 10.0.                                                            *)
MCPluginNameOf == [d \in PluginDirs |-> IF d = pd3 THEN "foobar" ELSE "foo"]
MCPathsBelow == [d \in PluginDirs |-> IF d = pd1 THEN {pd1, pd3} ELSE {d}]
MCFirstVersion == <<9, 8>>

(* The two days are of one month. *)
MCFirstOfMonth == [d \in 1 .. LastDay |-> 1]
=============================================================================
