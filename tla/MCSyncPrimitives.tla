-------------------------- MODULE MCSyncPrimitives --------------------------
(* Applications of three tasks for SyncPrimitives. *)
EXTENDS SyncPrimitives

CONSTANTS t1, t2, t3

App(m, p1, p2, p3) == [maxsize |-> m, prog |-> (t1 :> p1 @@ t2 :> p2 @@ t3 :> p3)]

MCApps ==
  { App(0, <<"wait">>, <<"wait">>, <<"set", "set", "clear">>),
    App(0, <<"lock", "cwait", "unlock">>, <<"lock", "cwait", "unlock">>,
           <<"lock", "notify", "notify_all", "unlock">>),
    App(0, <<"lock", "cwait", "unlock">>, <<"lock", "unlock">>, <<"lock", "notify", "unlock">>),
    App(0, <<"get">>, <<"get", "get">>, <<"put", "put_nowait">>),
    App(1, <<"put">>, <<"put", "put_nowait">>, <<"get", "get_nowait">>),
    App(0, <<"put", "join">>, <<"get", "task_done", "task_done">>, <<"put_nowait", "join">>) }

\* The cancellers do not differ.
MCSymmetry == Permutations(Cancellers)
=============================================================================
