------------------------------ MODULE Banners ------------------------------
(***************************************************************************)
(* The two banners of the main window (internal/ui/state.go,               *)
(* internal/ui/erractions.go, refreshTLSNotice in main.go).                *)
(*                                                                         *)
(* The error banner shows the error raised last, with the button of a      *)
(* recognised error, until it expires, the button's action clears it, or   *)
(* a newer error replaces it.  Errors are raised by any goroutine; clicks, *)
(* expiry and actions run on the frame's thread.  An action is two         *)
(* sections of the state's mutex: it claims the busy slot, and it clears   *)
(* the banner when it has done its work.                                   *)
(*                                                                         *)
(* The notice says that the local CA is not trusted.  Its button starts an *)
(* installer that runs mkcert, asks for the status again, writes the       *)
(* notice from the answer and at last lowers the busy flag.                *)
(***************************************************************************)
EXTENDS Naturals, FiniteSets

CONSTANTS MaxErrors,      \* bound: errors raised
          MaxInstalls     \* bound: clicks on the notice's button

ASSUME BannerAssumption == MaxErrors \in Nat /\ MaxInstalls \in Nat \ {0}

Installs == 1 .. MaxInstalls
Boot == 0                  \* the refresh at the end of the initialisation

VARIABLES
  error,      \* errorMessage (its number, 0 for none), errorActionRun, Busy
  raised,     \* errors raised so far
  acting,     \* the error whose action the frame's thread is running, or 0
  read,       \* errors that expired, were acted on or replaced (ghost)
  notice,     \* notice, noticeAction and noticeBusy
  trusted,    \* the local CA is in the system's trust store
  installer   \* pc of each installer, and the status it was told

bannerVars == <<error, raised, acting, read, notice, trusted, installer>>

NoError == [msg |-> 0, act |-> FALSE, busy |-> FALSE]

BannersTypeOK ==
  /\ error \in [msg : 0 .. MaxErrors, act : BOOLEAN, busy : BOOLEAN]
  /\ raised \in 0 .. MaxErrors
  /\ acting \in 0 .. MaxErrors
  /\ read \subseteq 1 .. MaxErrors
  /\ notice \in [shown : BOOLEAN, busy : BOOLEAN]
  /\ trusted \in BOOLEAN
  /\ installer \in
       [Installs \cup {Boot} ->
          [pc : {"idle", "install", "ask", "write", "unbusy", "gone"},
           told : BOOLEAN]]

BannersInit ==
  /\ error = NoError
  /\ raised = 0 /\ acting = 0 /\ read = {}
  /\ notice = [shown |-> FALSE, busy |-> FALSE]
  /\ trusted \in BOOLEAN
  /\ installer = [i \in Installs \cup {Boot} |->
                    [pc |-> IF i = Boot THEN "ask" ELSE "idle", told |-> FALSE]]

-----------------------------------------------------------------------------
(* The error banner.                                                       *)

(* setError: a plain error takes the older one's button away.              *)
WithError(e, n, act) == [msg |-> n, act |-> act, busy |-> FALSE]

(* SurfaceError: a recognised error brings a button, another one does not. *)
Raise(act) ==
  /\ raised < MaxErrors
  /\ raised' = raised + 1
  /\ error' = WithError(error, raised + 1, act)
  /\ read' = read \cup ({error.msg} \ {0})

RaiseError ==
  /\ \E act \in BOOLEAN : Raise(act)
  /\ UNCHANGED <<acting, notice, trusted, installer>>

(* ErrorBannerSnapshot, past the expiry.                                   *)
Expire ==
  /\ acting = 0 /\ error.msg # 0
  /\ error' = NoError
  /\ read' = read \cup {error.msg}
  /\ UNCHANGED <<raised, acting, notice, trusted, installer>>

TriggerErrorAction ==
  /\ acting = 0 /\ error.act /\ ~error.busy
  /\ error' = [error EXCEPT !.busy = TRUE]
  /\ acting' = error.msg
  /\ UNCHANGED <<raised, read, notice, trusted, installer>>

(* ClearErrorBanner, the last thing every action does.                     *)
ActionClears ==
  /\ acting # 0
  /\ error' = NoError
  /\ read' = read \cup {acting}
  /\ acting' = 0
  /\ UNCHANGED <<raised, notice, trusted, installer>>

-----------------------------------------------------------------------------
(* The notice.                                                             *)

Moves(i, pc) == installer' = [installer EXCEPT ![i].pc = pc]

(* The label, not the button, shows that an installer is at work.          *)
TriggerNoticeAction ==
  \E i \in Installs :
    /\ acting = 0 /\ notice.shown /\ ~notice.busy
    /\ installer[i].pc = "idle"
    /\ \A o \in 1 .. i - 1 : installer[o].pc # "idle"
    /\ notice' = [notice EXCEPT !.busy = TRUE]
    /\ Moves(i, "install")
    /\ UNCHANGED <<error, raised, acting, read, trusted>>

(* Mutation of AfterInstall: a failed installation returns before the      *)
(* status is read again.                                                   *)
MutantAfterInstall(ok) == IF ok THEN "ask" ELSE "gone"

(* What follows the installation, whatever came of it.                     *)
AfterInstall(ok) == "ask"

InstallCA(i) ==
  /\ installer[i].pc = "install"
  /\ \/ trusted' = TRUE /\ Moves(i, AfterInstall(TRUE))
        /\ UNCHANGED <<error, raised, read>>
     \/ Raise(FALSE) /\ Moves(i, AfterInstall(FALSE)) /\ UNCHANGED trusted
  /\ UNCHANGED <<acting, notice>>

(* mkcert.Available; a status that cannot be had clears the notice.        *)
AskStatus(i) ==
  /\ installer[i].pc = "ask"
  /\ \E told \in {trusted, TRUE} :
       installer' = [installer EXCEPT ![i] = [pc |-> "write", told |-> told]]
  /\ UNCHANGED <<error, raised, acting, read, notice, trusted>>

(* SetNotice and SetNoticeWithAction both lower the busy flag.             *)
WriteNotice(i) ==
  /\ installer[i].pc = "write"
  /\ notice' = [shown |-> ~installer[i].told, busy |-> FALSE]
  /\ Moves(i, IF i = Boot THEN "gone" ELSE "unbusy")
  /\ UNCHANGED <<error, raised, acting, read, trusted>>

(* The deferred SetNoticeBusy(false).                                      *)
Unbusy(i) ==
  /\ installer[i].pc = "unbusy"
  /\ notice' = [notice EXCEPT !.busy = FALSE]
  /\ Moves(i, "gone")
  /\ UNCHANGED <<error, raised, acting, read, trusted>>

BannersNext ==
  \/ RaiseError \/ Expire \/ TriggerErrorAction \/ ActionClears
  \/ TriggerNoticeAction
  \/ \E i \in Installs : InstallCA(i) \/ Unbusy(i)
  \/ \E i \in Installs \cup {Boot} : AskStatus(i) \/ WriteNotice(i)

BannersSpec == BannersInit /\ [][BannersNext]_bannerVars

-----------------------------------------------------------------------------
(* Properties.                                                             *)

(* A notice that says "working" has an installer that will write it: a     *)
(* failed installation does not leave the button dead for the rest of the  *)
(* run (the deferred SetNoticeBusy and the refresh of main.go:444-452).    *)
BusyMeansInstalling ==
  notice.busy => \E i \in Installs : installer[i].pc \in {"install", "ask", "write"}

(* "Returns true if an action was started, false when no callback is       *)
(* registered or one is already in flight" (state.go:1081-1083).           *)
OneInstallAtATime ==
  Cardinality({i \in Installs : installer[i].pc \in {"install", "ask", "write"}}) <= 1

(* An error leaves the banner because it expired, its own button was used  *)
(* or a newer one took its place; an older error's action does not take it *)
(* away ("it shows with an 8-second auto-dismiss", state.go:625).          *)
ErrorsAreNotSwallowed == 1 .. raised \subseteq read \cup {error.msg}
=============================================================================
