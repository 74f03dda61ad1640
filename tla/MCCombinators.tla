--------------------------- MODULE MCCombinators ---------------------------
(* The calls of the combinators. *)
EXTENDS Combinators

CONSTANTS k1, k2, k3

App(kind, kids, mode, timeout, cancel) ==
  [kind |-> kind, kids |-> kids, mode |-> mode, timeout |-> timeout, cancel |-> cancel]

MCApps ==
  {App("gather", {k1, k2, k3}, m, FALSE, c) : m \in {"all", "return_exceptions"}, c \in BOOLEAN}
  \cup {App("wait", {k1, k2, k3}, m, x, x) :
          m \in {"FIRST_COMPLETED", "FIRST_EXCEPTION", "ALL_COMPLETED"}, x \in BOOLEAN}
  \cup {App("as_completed", {k1, k2, k3}, "all", x, FALSE) : x \in BOOLEAN}
  \cup {App(kind, {k1}, "all", FALSE, TRUE) : kind \in {"shield", "wait_for", "threadsafe"}}
  \cup {App("sleep", {}, "all", TRUE, TRUE)}
=============================================================================
