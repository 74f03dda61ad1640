---------------------------- MODULE MCLifecycle ----------------------------
\* Instances of Lifecycle for TLC.
EXTENDS Lifecycle

CONSTANTS l1, l2

Plain == [forever |-> {}, kid |-> {}, late |-> FALSE, busy |-> {}, job |-> "none", calls |-> 0,
          runtime |-> "none", external |-> FALSE, patched |-> {},
          session |-> {}, tests |-> 0, fails |-> FALSE]

\* Two threads call run(), whose loops start and stop the runtime in turn or share it; main
\* awaits a job, or leaves a task that does.
Runs    == [Plain EXCEPT !.busy = {l1}, !.job = "main"]
Leaving == [Plain EXCEPT !.kid = {l1}, !.late = TRUE, !.busy = {l1}, !.job = "kid"]

\* One run() and one run_forever(), which is called and stopped from outside.
Forever == [Plain EXCEPT !.forever = {l1}, !.calls = 2]

\* The application has a runtime: it drives it, or lets the loops drive it, or made it
\* without contexts or with signals.
Driven  == [Plain EXCEPT !.runtime = "context", !.external = TRUE]
Refused == [Plain EXCEPT !.runtime = "plain"]
Signals == [Plain EXCEPT !.runtime = "signals"]

\* Two run() inside of regions that overlap.
Patched == [Plain EXCEPT !.patched = {l1, l2}]

\* The loop of a test session, whose first test leaves a task behind, next to a run().
Testing == [Plain EXCEPT !.session = {l1}, !.tests = 2, !.kid = {l1}]

\* Drivers that leave their poll loop by themselves.
Failing(a) == [a EXCEPT !.fails = TRUE]

All == {Failing(Runs), Leaving, Forever, Failing(Driven), Refused, Signals, Patched, Testing}

\* The properties claim nothing of what follows an upset: TLC stops there.
Calm == ~upset
=============================================================================
