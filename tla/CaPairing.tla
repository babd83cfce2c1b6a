----------------------------- MODULE CaPairing -----------------------------
(***************************************************************************)
(* The certificate pairing card of the Access tab                          *)
(* (internal/ui/accesspanel.go, internal/ui/capairing.go): a short-lived   *)
(* HTTP server hands the root CA to a phone, and the card shows the        *)
(* server's URL as a QR code.                                              *)
(*                                                                         *)
(* A boot is one click on "Start CA pairing server".  Its goroutine looks  *)
(* at the panel, binds a port and enters the server in the panel, in three *)
(* sections of the panel's mutex; a watcher clears the panel when that     *)
(* server is done.  The URL of boot b is b: every boot binds a port of its *)
(* own.                                                                    *)
(***************************************************************************)
EXTENDS Naturals, FiniteSets

CONSTANTS PanelSites,   \* the sites the user selects
          MaxBoots      \* bound: clicks on the start button

ASSUME PairingAssumption == PanelSites # {} /\ MaxBoots \in Nat \ {0}

Boots == 1 .. MaxBoots
NoBoot == 0

VARIABLES
  selected,   \* the selected site
  tab,        \* the Access tab is the one drawn
  panel,      \* AccessPanel: pairing, pairingURL and lastSiteID
  drawn,      \* the URL the frame in progress has read, or none
  qr,         \* qrPairImg: the boot whose URL the image encodes
  starter,    \* the goroutine of each boot
  server,     \* the HTTP server of each boot
  watcher,    \* the goroutine that waits for the server to be done
  asked,      \* boots someone asked to stop, timed out or used up (ghost)
  latest,     \* the boot that entered the panel last (ghost)
  owner       \* the site a boot was started for (ghost)

pairingVars ==
  <<selected, tab, panel, drawn, qr, starter, server, watcher, asked, latest,
    owner>>

PairingTypeOK ==
  /\ selected \in PanelSites
  /\ tab \in BOOLEAN
  /\ panel \in [pairing : Boots \cup {NoBoot}, url : Boots \cup {NoBoot},
                last : PanelSites \cup {"none"}]
  /\ {drawn, qr} \subseteq Boots \cup {NoBoot}
  /\ starter \in [Boots -> {"idle", "check", "bind", "enter", "gone"}]
  /\ server \in [Boots -> {"none", "up", "down"}]
  /\ watcher \in [Boots -> BOOLEAN]
  /\ asked \subseteq Boots
  /\ latest \in Boots \cup {NoBoot}
  /\ owner \in [Boots -> PanelSites \cup {"none"}]

PairingInit ==
  /\ selected \in PanelSites
  /\ tab = TRUE
  /\ panel = [pairing |-> NoBoot, url |-> NoBoot, last |-> "none"]
  /\ drawn = NoBoot
  /\ qr = NoBoot
  /\ starter = [b \in Boots |-> "idle"]
  /\ server = [b \in Boots |-> "none"]
  /\ watcher = [b \in Boots |-> FALSE]
  /\ asked = {}
  /\ latest = NoBoot
  /\ owner = [b \in Boots |-> "none"]

-----------------------------------------------------------------------------
(* The user, between two frames.                                           *)

NotDrawing == drawn = NoBoot

SelectPanel(s) ==
  /\ NotDrawing /\ s # selected
  /\ selected' = s
  /\ UNCHANGED <<tab, panel, drawn, qr, starter, server, watcher, asked, latest, owner>>

SwitchTab ==
  /\ NotDrawing /\ tab' = ~tab
  /\ UNCHANGED <<selected, panel, drawn, qr, starter, server, watcher, asked,
                 latest, owner>>

(* The start button: drawn while the panel shows no server; a click drawn  *)
(* before an earlier one took effect counts too.                           *)
StartPairing ==
  \E b \in Boots :
    /\ NotDrawing /\ tab /\ panel.pairing = NoBoot
    /\ starter[b] = "idle" /\ \A o \in 1 .. b - 1 : starter[o] # "idle"
    /\ starter' = [starter EXCEPT ![b] = "check"]
    /\ owner' = [owner EXCEPT ![b] = selected]
    /\ UNCHANGED <<selected, tab, panel, drawn, qr, server, watcher, asked, latest>>

(* What the panel holds once nothing pairs.                                *)
Cleared(p) == [p EXCEPT !.pairing = NoBoot, !.url = NoBoot]

(* Stop is idempotent; a server that is down stays down.                   *)
Stopped(b) == [server EXCEPT ![b] = "down"]

StopPairing ==
  /\ NotDrawing /\ tab /\ panel.pairing # NoBoot
  /\ panel' = Cleared(panel)
  /\ server' = Stopped(panel.pairing)
  /\ asked' = asked \cup {panel.pairing}
  /\ UNCHANGED <<selected, tab, drawn, qr, starter, watcher, latest, owner>>

-----------------------------------------------------------------------------
(* A frame of the tab: a server of the site drawn before is stopped, and   *)
(* the QR code is encoded unless an image is cached for the URL.           *)

MovedAway == panel.last # "none" /\ panel.last # selected
             /\ panel.pairing # NoBoot

Draw ==
  LET kept == IF MovedAway THEN Cleared(panel) ELSE panel
  IN  /\ NotDrawing /\ tab
      /\ panel' = [kept EXCEPT !.last = selected]
      /\ server' = IF MovedAway THEN Stopped(panel.pairing) ELSE server
      /\ asked' = IF MovedAway THEN asked \cup {panel.pairing} ELSE asked
      /\ drawn' = kept.url
      /\ UNCHANGED <<selected, tab, qr, starter, watcher, latest, owner>>

(* cachedPairQR: an image is reused while the URL is still the panel's.    *)
QrFor(url) == IF qr # NoBoot /\ panel.url = url THEN qr ELSE url

ShowQr ==
  /\ ~NotDrawing
  /\ qr' = QrFor(drawn)
  /\ drawn' = NoBoot
  /\ UNCHANGED <<selected, tab, panel, starter, server, watcher, asked, latest,
                 owner>>

-----------------------------------------------------------------------------
(* The goroutine of a boot.                                                *)

Check(b) ==
  /\ starter[b] = "check"
  /\ starter' = [starter EXCEPT ![b] =
                   IF panel.pairing # NoBoot THEN "gone" ELSE "bind"]
  /\ UNCHANGED <<selected, tab, panel, drawn, qr, server, watcher, asked, latest,
                 owner>>

(* newCAPairingServer: the root CA is found and the port bound, or not.    *)
Bind(b) ==
  /\ starter[b] = "bind"
  /\ \/ /\ starter' = [starter EXCEPT ![b] = "enter"]
        /\ server' = [server EXCEPT ![b] = "up"]
     \/ /\ starter' = [starter EXCEPT ![b] = "gone"]
        /\ UNCHANGED server
  /\ UNCHANGED <<selected, tab, panel, drawn, qr, watcher, asked, latest, owner>>

Enter(b) ==
  /\ starter[b] = "enter"
  /\ panel' = [panel EXCEPT !.pairing = b, !.url = b]
  /\ starter' = [starter EXCEPT ![b] = "gone"]
  /\ watcher' = [watcher EXCEPT ![b] = TRUE]
  /\ latest' = b
  /\ UNCHANGED <<selected, tab, drawn, qr, server, asked, owner>>

(* Mutation of AfterDone: the panel is cleared whichever server it shows.  *)
MutantAfterDone(b) == Cleared(panel)

(* What the panel keeps once boot b is done.                               *)
AfterDone(b) == IF panel.pairing = b THEN Cleared(panel) ELSE panel

Watch(b) ==
  /\ watcher[b] /\ server[b] = "down"
  /\ panel' = AfterDone(b)
  /\ watcher' = [watcher EXCEPT ![b] = FALSE]
  /\ UNCHANGED <<selected, tab, drawn, qr, starter, server, asked, latest, owner>>

(* The first download, or the end of the server's ten minutes.             *)
Lapses(b) == server[b] = "up"

Lapse(b) ==
  /\ Lapses(b)
  /\ server' = Stopped(b)
  /\ asked' = asked \cup {b}
  /\ UNCHANGED <<selected, tab, panel, drawn, qr, starter, watcher, latest, owner>>

PairingNext ==
  \/ \E s \in PanelSites : SelectPanel(s)
  \/ SwitchTab \/ StartPairing \/ StopPairing \/ Draw \/ ShowQr
  \/ \E b \in Boots : Check(b) \/ Bind(b) \/ Enter(b) \/ Watch(b) \/ Lapse(b)

PairingSpec == PairingInit /\ [][PairingNext]_pairingVars
-----------------------------------------------------------------------------
(* Properties.                                                             *)

(* The server that entered the panel last is the one it shows until        *)
(* someone asks for its end: neither an older server's watcher nor a       *)
(* start that lost the race takes the stop button of a running server away *)
(* (the comparison at accesspanel.go:414-422).                             *)
RegisteredIsShown ==
  latest # NoBoot /\ latest \notin asked => panel.pairing = latest

(* "the server's URL is rendered as a QR code" (accesspanel.go:45).     *)
QrEncodesTheUrl ==
  [][drawn # NoBoot /\ drawn' = NoBoot => qr' = drawn]_pairingVars

(* "Not shared between sites: switching sites stops any pending server."   *)
(* (accesspanel.go:46-47).                                                    *)
NotSharedBetweenSites ==
  ~NotDrawing /\ panel.pairing = drawn => owner[drawn] = panel.last
=============================================================================
