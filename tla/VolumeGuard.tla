---------------------------- MODULE VolumeGuard ----------------------------
(***************************************************************************)
(* What the volume marker promises (internal/dbengine/marker.go and        *)
(* internal/sites/sitesteps/marker.go), without any of the machinery.  The *)
(* marker is compared before a database container is made, unless the read *)
(* itself failed; it is written by the container that runs on the volume,  *)
(* and goes with the volume.                                               *)
(*                                                                         *)
(* It promises no more: nothing has to be stamped after a boot, so data    *)
(* may have no marker, or one older than itself, and what is compared with *)
(* the image is the marker and never the data.                             *)
(***************************************************************************)

CONSTANTS
  Slugs,                      \* the names containers and volumes derive from
  Images,                     \* database engines with their versions
  Compat,                     \* <<have, want>> that CompareMarker accepts
  NoImage                     \* no container, no data, or no marker

VARIABLES
  image,                      \* the database container's image
  data,                       \* the image that last wrote the volume
  marker,                     \* the marker on the volume
  unread                      \* slugs of the starts that cannot read theirs

volume == <<image, data, marker>>
vars == <<volume, unread>>

Readable(s, i) == marker[s] = NoImage \/ <<marker[s], i>> \in Compat

Init ==
  /\ image = [s \in Slugs |-> NoImage]
  /\ data = [s \in Slugs |-> NoImage]
  /\ marker = [s \in Slugs |-> NoImage]
  /\ unread = {}

(* A container that was made may not have come to write.                   *)
Boot(s, i) ==
  /\ s \in unread \/ Readable(s, i)
  /\ image' = [image EXCEPT ![s] = i]
  /\ data' \in {data, [data EXCEPT ![s] = i]}
  /\ UNCHANGED marker

Stamp(s) ==
  /\ image[s] # NoImage /\ data[s] = image[s]
  /\ marker' = [marker EXCEPT ![s] = data[s]]
  /\ UNCHANGED <<image, data>>

TearDown(s) ==
  /\ image' = [image EXCEPT ![s] = NoImage]
  /\ UNCHANGED <<data, marker>>

(* Initialize removes every container the platform label finds.            *)
TearDownAll ==
  /\ image' = [s \in Slugs |-> NoImage]
  /\ UNCHANGED <<data, marker>>

Purge(s) ==
  /\ image[s] = NoImage
  /\ data' = [data EXCEPT ![s] = NoImage]
  /\ marker' = [marker EXCEPT ![s] = NoImage]
  /\ UNCHANGED image

(* Which reads fail is not for the marker to say.                          *)
Next ==
  /\ unread' \in SUBSET Slugs
  /\ \/ UNCHANGED volume
     \/ TearDownAll
     \/ \E s \in Slugs :
          \/ \E i \in Images : Boot(s, i)
          \/ Stamp(s)
          \/ TearDown(s)
          \/ Purge(s)

Spec == Init /\ [][Next]_vars

=============================================================================
