------------------------------ MODULE MCScopes ------------------------------
(* Applications for Scopes. *)
EXTENDS Scopes

CONSTANTS k1, k2, o1

App(t, ks, n, es, fs, os) ==
  [timeout |-> t, reschedules |-> ks = {}, kids |-> ks, awaits |-> n, raises |-> es,
   fates |-> fs, outsiders |-> os]

MCApps ==
  { App(TRUE, {}, 2, {"error"}, {}, {o1}),                             \* wait_for
    App(FALSE, {k1, k2}, 0, {}, {"ok", "error"}, {}),
    App(FALSE, {k1}, 1, {"base"}, {"ok", "error"}, {o1}),
    App(TRUE, {k1}, 0, {"error"}, {"error", "base"}, {}) }
=============================================================================
