--------------------------- MODULE CaptureCustody ---------------------------
(***************************************************************************)
(* What the store-and-forward queue of the camera agent promises: a        *)
(* captured image, once queued, is held by the phone until the server has  *)
(* it or until it is discarded under the local limits; every discarded     *)
(* image is counted once, and the count stays until it has been reported.  *)
(* CameraQueue implements this specification.                              *)
(***************************************************************************)
EXTENDS Integers

CONSTANT Captures   \* the images the camera takes

VARIABLES
  held,        \* images the phone is responsible for
  archive,     \* images the server has
  discarded,   \* images given up under the local limits
  unreported   \* discarded images the server has not been told of

vars == <<held, archive, discarded, unreported>>

Init ==
  /\ held = {}
  /\ archive = {}
  /\ discarded = {}
  /\ unreported = 0

\* An image is taken into custody once.
Hold(c) ==
  /\ c \notin held \cup archive \cup discarded
  /\ held' = held \cup {c}
  /\ UNCHANGED <<archive, discarded, unreported>>

\* The server gets the image. A request that was still under way when the
\* phone gave the image up may arrive late.
Archive(c) ==
  /\ c \in held \cup discarded
  /\ archive' = archive \cup {c}
  /\ UNCHANGED <<held, discarded, unreported>>

\* The phone lets go of an image that the server has.
Release(c) ==
  /\ c \in held \cap archive
  /\ held' = held \ {c}
  /\ UNCHANGED <<archive, discarded, unreported>>

\* The phone gives up an image and counts it.
Discard(c) ==
  /\ c \in held
  /\ held' = held \ {c}
  /\ discarded' = discarded \cup {c}
  /\ unreported' = unreported + 1
  /\ UNCHANGED archive

\* n discarded images have been reported to the server.
Report(n) ==
  /\ unreported' = unreported - n
  /\ UNCHANGED <<held, archive, discarded>>

Next ==
  \/ \E c \in Captures : Hold(c) \/ Archive(c) \/ Release(c) \/ Discard(c)
  \/ \E n \in 1..unreported : Report(n)

Spec == Init /\ [][Next]_vars

=============================================================================
