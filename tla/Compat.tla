------------------------------- MODULE Compat -------------------------------
(***************************************************************************)
(* The patching of the standard asyncio namespace,                         *)
(* src/mt_asyncio/asyncio/_compat.py: install, uninstall and the context   *)
(* manager installed(), by the threads that go on to run a loop.  Module   *)
(* Lifecycle extends this one.                                             *)
(*                                                                         *)
(* A name is a pair of _TARGET_MODULES and _SHADOWED, numbered in the      *)
(* order of the two loops.  The writes are made under _lock, one by one:   *)
(* code that uses asyncio meanwhile sees the names as they are.            *)
(***************************************************************************)
EXTENDS Integers, Sequences, SequencesExt

CONSTANTS Loops,      \* the thread of each loop
          Names,      \* how many pairs there are
          Present,    \* the pairs that both namespaces have
          None

ASSUME NamesAssumption == Names \in Nat /\ Present \subseteq 1..Names /\ None \notin Loops
ASSUME NoneAssumption  == None \notin Seq((1..Names) \X {"std", "ours"})   \* None is not a list

VARIABLES
  lock,       \* the thread that holds _lock over several steps
  attr,       \* what a name stands for in the standard modules
  saved,      \* the list install makes, before it is published
  installed,  \* _installed: None or a list of names and originals
  at,         \* the name that the loop of install is at
  region      \* where a thread is in `with installed():`

compatVars == <<lock, attr, saved, installed, at, region>>

CompatInit ==
  /\ lock = None /\ attr = [n \in 1..Names |-> "std"]
  /\ saved = <<>> /\ installed = None /\ at = 1
  /\ region = [t \in Loops |-> "out"]

Be(t, r) == region' = [region EXCEPT ![t] = r]

\* Mutant: install does not look whether it has been called.
InstallTwice(t) ==
  /\ region[t] = "out"
  /\ lock = None
  /\ lock' = t /\ saved' = <<>> /\ at' = 1
  /\ Be(t, "install")
  /\ UNCHANGED <<attr, installed>>

\* install: nothing is done a second time.
Install(t) ==
  /\ region[t] = "out"
  /\ lock = None
  /\ IF installed # None
       THEN Be(t, "in") /\ UNCHANGED <<lock, saved, at>>
       ELSE lock' = t /\ saved' = <<>> /\ at' = 1 /\ Be(t, "install")
  /\ UNCHANGED <<attr, installed>>

\* A name that one of the two lacks is passed over.
InstallName(t) ==
  /\ region[t] = "install"
  /\ at <= Names
  /\ at' = at + 1
  /\ saved' = IF at \in Present THEN Append(saved, <<at, attr[at]>>) ELSE saved
  /\ attr' = IF at \in Present THEN [attr EXCEPT ![at] = "ours"] ELSE attr
  /\ UNCHANGED <<lock, installed, region>>

InstallEnd(t) ==
  /\ region[t] = "install"
  /\ at > Names
  /\ installed' = saved /\ saved' = <<>>
  /\ lock' = None
  /\ Be(t, "in")
  /\ UNCHANGED <<attr, at>>

Uninstall(t) ==
  /\ region[t] = "in"
  /\ lock = None
  /\ IF installed = None
       THEN Be(t, "left") /\ UNCHANGED <<lock, saved>>
       ELSE lock' = t /\ saved' = Reverse(installed) /\ Be(t, "uninstall")
  /\ UNCHANGED <<attr, installed, at>>

\* The originals, the last one first.
UninstallName(t) ==
  /\ region[t] = "uninstall"
  /\ saved # <<>>
  /\ attr' = [attr EXCEPT ![Head(saved)[1]] = Head(saved)[2]]
  /\ saved' = Tail(saved)
  /\ UNCHANGED <<lock, installed, at, region>>

UninstallEnd(t) ==
  /\ region[t] = "uninstall"
  /\ saved = <<>>
  /\ installed' = None
  /\ lock' = None
  /\ Be(t, "left")
  /\ UNCHANGED <<attr, saved, at>>

\* with installed(): its two ends.
Entering(t) == Install(t) \/ InstallName(t) \/ InstallEnd(t)
Exiting(t)  == Uninstall(t) \/ UninstallName(t) \/ UninstallEnd(t)

-----------------------------------------------------------------------------
\* Whenever nobody is patching, the namespace is all ours if install has been called last and
\* all the standard one otherwise, however the regions of several threads overlap: an
\* original is never lost, and no name is left behind.  (A region does not keep what it has
\* installed: the first exit of two that overlap uninstalls for both.)
NamesRestored ==
  lock = None =>
    \A n \in 1..Names : attr[n] = IF installed # None /\ n \in Present THEN "ours" ELSE "std"
=============================================================================
