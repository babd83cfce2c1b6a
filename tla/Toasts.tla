------------------------------- MODULE Toasts -------------------------------
(***************************************************************************)
(* Which health findings pop up as toasts, and where toasts go             *)
(* (main.go, the seen set in internal/ui/state.go,                         *)
(* internal/ui/notifications.go).                                          *)
(*                                                                         *)
(* The runner publishes snapshots, from overlapping batches too; the       *)
(* subscriber walks the findings of one and asks for each key whether it   *)
(* was seen, which also marks it.  During the first two seconds after the  *)
(* runner's start keys are only marked.  The seen set is written to the    *)
(* settings after those two seconds and when the window closes, and read   *)
(* back at the next start; the blocker's Quit button exits at once.        *)
(***************************************************************************)
EXTENDS Naturals, FiniteSets

CONSTANTS Keys,         \* keys of the warnings and blockers that can be found
          Publishers,   \* batches that can publish at one time
          MaxRuns,      \* bound: starts of the program
          ToastFaults   \* what may happen: "kill", "write" (settings)

ASSUME ToastAssumption ==
  Keys # {} /\ MaxRuns \in Nat \ {0} /\ ToastFaults \subseteq {"kill", "write"}

VARIABLES
  runs,        \* starts so far
  phase,       \* of the process: down, open or closing
  timer,       \* the goroutine that ends the first-fire window
  seen,        \* healthSeen
  saved,       \* the setting health.last_seen
  walking,       \* findings each publisher has still to walk
  floating,    \* Notifications.active
  history,     \* Notifications.archive
  dismissed,   \* toasts of this run the user dismissed (ghost)
  popped,      \* toasts of this run (ghost)
  before       \* toasts of the runs before (ghost)

toastVars == <<runs, phase, timer, seen, saved, walking, floating, history,
               dismissed, popped, before>>

ToastsTypeOK ==
  /\ runs \in 0 .. MaxRuns
  /\ phase \in {"down", "open", "closing"}
  /\ timer \in {"first", "clearing", "done"}
  /\ {seen, saved, floating, history, dismissed, popped, before} \subseteq SUBSET Keys
  /\ walking \in [Publishers -> SUBSET Keys]

Quiet == [p \in Publishers |-> {}]

ToastsInit ==
  /\ runs = 0 /\ phase = "down" /\ timer = "done"
  /\ seen = {} /\ saved = {} /\ walking = Quiet
  /\ floating = {} /\ history = {} /\ dismissed = {}
  /\ popped = {} /\ before = {}

-----------------------------------------------------------------------------
(* The process.                                                            *)

Alive == phase # "down"

(* HealthHydrateSeen; the first-fire window opens with the process.        *)
StartRun ==
  /\ phase = "down" /\ runs < MaxRuns
  /\ runs' = runs + 1 /\ phase' = "open" /\ timer' = "first"
  /\ seen' = saved
  /\ walking' = Quiet
  /\ floating' = {} /\ history' = {} /\ dismissed' = {}
  /\ popped' = {}
  /\ UNCHANGED <<saved, before>>

(* persistHealthSeen; a failed write is logged.                            *)
Persist ==
  saved' \in {seen} \cup (IF "write" \in ToastFaults THEN {saved} ELSE {})

ClearFirstFire ==
  /\ Alive /\ timer = "first"
  /\ timer' = "clearing"
  /\ UNCHANGED <<runs, phase, seen, saved, walking, floating, history, dismissed,
                 popped, before>>

PersistAfterFirst ==
  /\ Alive /\ timer = "clearing"
  /\ timer' = "done"
  /\ Persist
  /\ UNCHANGED <<runs, phase, seen, walking, floating, history, dismissed,
                 popped, before>>

Ended ==
  /\ phase' = "down"
  /\ before' = before \cup popped
  /\ popped' = {}
  /\ UNCHANGED <<runs, timer, seen, walking, floating, history, dismissed>>

(* The window closes: the services stop, then the set is written.  The     *)
(* runner goes on publishing meanwhile.                                    *)
CloseWindow ==
  /\ phase = "open"
  /\ phase' = "closing"
  /\ UNCHANGED <<runs, timer, seen, saved, walking, floating, history, dismissed,
                 popped, before>>

Exit == phase = "closing" /\ Persist /\ Ended

(* The blocker's Quit button, or a kill.                                   *)
Quit ==
  /\ phase = "open" /\ "kill" \in ToastFaults
  /\ UNCHANGED saved
  /\ Ended

-----------------------------------------------------------------------------
(* Findings.                                                               *)

Publish(p) ==
  /\ Alive /\ walking[p] = {}
  /\ \E found \in SUBSET Keys \ {{}} : walking' = [walking EXCEPT ![p] = found]
  /\ UNCHANGED <<runs, phase, timer, seen, saved, floating, history, dismissed,
                 popped, before>>

(* HealthShouldToast: asking marks the key, in the first-fire window too.  *)
Marked(k) == seen \cup {k}

ShouldToast(k) == timer # "first" /\ k \notin seen

Walk(p) ==
  /\ Alive
  /\ \E k \in walking[p] :
       /\ walking' = [walking EXCEPT ![p] = @ \ {k}]
       /\ seen' = Marked(k)
       /\ IF ShouldToast(k)
          THEN floating' = floating \cup {k} /\ popped' = popped \cup {k}
          ELSE UNCHANGED <<floating, popped>>
  /\ UNCHANGED <<runs, phase, timer, saved, history, dismissed, before>>

-----------------------------------------------------------------------------
(* The notification centre.                                                *)

(* Mutation of Promoted: the expired entry is dropped.                     *)
MutantPromoted(k) == history

(* promoteExpired: an expired toast is kept in the history.                *)
Promoted(k) == history \cup {k}

ToastExpires ==
  /\ Alive
  /\ \E k \in floating : floating' = floating \ {k} /\ history' = Promoted(k)
  /\ UNCHANGED <<runs, phase, timer, seen, saved, walking, dismissed, popped,
                 before>>

(* One entry, or all of the history.                                       *)
Dismiss ==
  /\ Alive /\ history # {}
  /\ \E gone \in {history} \cup {{k} : k \in history} :
       history' = history \ gone /\ dismissed' = dismissed \cup gone
  /\ UNCHANGED <<runs, phase, timer, seen, saved, walking, floating, popped,
                 before>>

ToastsNext ==
  \/ StartRun \/ ClearFirstFire \/ PersistAfterFirst \/ CloseWindow \/ Exit \/ Quit
  \/ \E p \in Publishers : Publish(p) \/ Walk(p)
  \/ ToastExpires \/ Dismiss

ToastsSpec == ToastsInit /\ [][ToastsNext]_toastVars

-----------------------------------------------------------------------------
(* Properties.                                                             *)

(* A toast stays somewhere the user finds it until the user dismisses it,  *)
(* and none is shown twice by overlapping snapshots.                       *)
ToastsAreKept ==
  Alive =>
    /\ popped = floating \cup history \cup dismissed
    /\ floating \cap history = {} /\ (floating \cup history) \cap dismissed = {}

(* "so we don't re-toast findings the user already saw on a previous run"  *)
(* (main.go:177-178).                                                      *)
NoToastTwice == popped \cap before = {}
=============================================================================
