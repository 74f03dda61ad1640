---------------------------- MODULE MCSuspension ----------------------------
\* Instances of Suspension for TLC.
EXTENDS Suspension

CONSTANTS c1, c2, e1, e2

Program(cs, ws, n, cl, abs) == [coros |-> cs, waits |-> ws, max |-> n, clears |-> cl, aborts |-> abs]

\* One coroutine that waits twice, with or without a timeout, for an event that is
\* set and cleared.
Reuse == Program({c1}, {<<e1>>}, 2, {e1}, {})

\* Two coroutines that wait once for the same event.
Share == Program({c1, c2}, {<<e1>>}, 1, {}, {})

\* One coroutine that waits for two events.
Both == Program({c1}, {<<e1, e2>>}, 1, {}, {})

\* The same, where one of them is cleared.
BothCleared == Program({c1}, {<<e1, e2>>}, 1, {e1}, {})

\* One coroutine that waits for an event behind a checkpoint that is aborted.
Guarded == Program({c1}, {<<>>, <<e1>>}, 2, {}, {c1})

\* One that waits for two events behind it.
GuardedPair == Program({c1}, {<<>>, <<e1, e2>>}, 2, {}, {c1})

All == {Reuse, Share, Both, BothCleared, Guarded, GuardedPair}
=============================================================================
