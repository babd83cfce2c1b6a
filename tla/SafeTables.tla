----------------------------- MODULE SafeTables -----------------------------
(* What internal/sites snapshot.go, import.go and migrate.go promise of the
   tables of a site, without rows, engines, containers, clocks or mutexes:
   which tables are live, which were copied into snapshots, and which were
   destroyed by an operation that had copied them first.  Live tables come from
   the site's own writes, from a copy or from a dump, and nothing the copies
   were counted on for is lost unless its copy is deleted on purpose.         *)
EXTENDS Naturals
CONSTANT Tables

VARIABLES live,    \* how many writes each table holds, 0 when it is absent
          copies,  \* the databases that some snapshot file holds
          gone     \* the databases destroyed with a copy of them at hand
vars == <<live, copies, gone>>

Blank == [t \in Tables |-> 0]

Init == /\ live \in [Tables -> Nat]
        /\ copies \subseteq {live} /\ gone = {}

Write == /\ \E t \in Tables : live' = [live EXCEPT ![t] = @ + 1]
         /\ UNCHANGED <<copies, gone>>

\* An empty database has nothing to dump.
Copy == /\ live # Blank /\ copies' = copies \cup {live}
        /\ UNCHANGED <<live, gone>>

\* The safety copy of an operation that overwrites tables: taken before the
\* first of them, or not at all (refused by the user, failed and only logged).
Saved == live # Blank /\ copies' = copies \cup {live} /\ gone' = gone \cup {live}
Unsaved == UNCHANGED <<copies, gone>>

\* Some or all tables of a copy take the place of the live ones.
Restore ==
  /\ Saved \/ Unsaved
  /\ \E c \in copies' : \E done \in SUBSET {t \in Tables : c[t] # 0} :
       live' = [t \in Tables |-> IF t \in done THEN c[t] ELSE live[t]]

\* Some or all tables of a dump from outside, made anew.
Import ==
  /\ Saved \/ Unsaved
  /\ \E done \in SUBSET Tables :
       live' = [t \in Tables |-> IF t \in done THEN 1 ELSE live[t]]

\* The volume is removed: counted on its copy only if there is one.
Wipe ==
  /\ live' = Blank /\ UNCHANGED copies
  /\ \/ UNCHANGED gone
     \/ live \in copies /\ gone' = gone \cup {live}

\* Snapshot files are deleted by the user or by the sweep; another file may
\* hold the same tables.
Forget ==
  \E dropped \in SUBSET copies :
    /\ copies \ dropped \subseteq copies' /\ copies' \in SUBSET copies
    /\ gone' = gone \ dropped /\ UNCHANGED live

Next == Write \/ Copy \/ Restore \/ Import \/ Wipe \/ Forget

Spec == Init /\ [][Next]_vars
=============================================================================
