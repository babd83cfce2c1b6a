------------------------------ MODULE DbEngine ------------------------------
(* The rules of internal/dbengine that carry no state: which engine a row
   names, which version may open a volume another version wrote, and what the
   engines' filters do to the lines of a dump.  A version is the sequence of
   the numbers between its dots, << >> when the row names none.              *)
EXTENDS Naturals, Sequences

\* Resolve: a row with an unknown engine is served by the default one.
Resolve(kind) == IF kind \in {"mysql", "mariadb"} THEN kind ELSE "mysql"

\* dbVersionFor: rows older than the split of the columns name only the second.
VersionFor(version, legacy) == IF version # << >> THEN version ELSE legacy

\* sameMajor: the first numbers agree, or one side names no version.
SameMajor(a, b) == a = << >> \/ b = << >> \/ a[1] = b[1]

\* isVersionAtLeast: component by component, a missing one counting as 0; the
\* first difference decides.
Component(v, i) == IF i \in 1..Len(v) THEN v[i] ELSE 0
Differs(a, b) == {i \in 1..(Len(a) + Len(b)) : Component(a, i) # Component(b, i)}
AtLeast(cand, min) ==
  \A i \in Differs(cand, min) :
     (\A j \in Differs(cand, min) : i <= j)
        => Component(cand, i) >= Component(min, i)

\* UpgradeAllowed of each engine.
UpgradeAllowed(kind, from, to) ==
  CASE kind = "mysql" -> SameMajor(from, to)
    [] kind = "mariadb" -> from = to \/ from = << >> \/ AtLeast(to, from)

\* CompareMarker: the volume's marker against what the row wants to start.
CompareMarker(have, want) ==
  /\ have.engine = want.engine
  /\ have.version = want.version
       \/ UpgradeAllowed(want.engine, have.version, want.version)

-----------------------------------------------------------------------------
(* Dumps.  A line is the set of the things in it the filters look for.       *)
Features == {"createdb", "use", "sandbox", "uca1400", "definer", "logbin"}

\* The chain of mysql.go, and what mariadb.go appends to it.
DropsIn(kind) == {"createdb", "use", "logbin"}
                   \cup (IF kind = "mariadb" THEN {"sandbox"} ELSE {})
Rewrites == {"uca1400", "definer"}

\* FilterImportStream: a dropped line leaves nothing, any other line leaves
\* without what the rewriting filters replace.
Streamed(lines, drops) ==
  {l \ Rewrites : l \in {l \in lines : l \cap drops = {}}}
=============================================================================
