------------------------------ MODULE DurableLog ------------------------------
(***************************************************************************)
(* What the request log of the management page promises across restarts:    *)
(* every accepted change makes a new version of the log, versions reach the *)
(* disk in order and none is skipped or rebuilt differently, and a restart   *)
(* shows exactly the newest version that reached the disk.                   *)
(***************************************************************************)
EXTENDS Sequences, Naturals

VARIABLES
  log,     \* what a reader of the log sees
  saved,   \* the version a restart would show
  unsaved  \* the later versions, oldest first

vars == <<log, saved, unsaved>>

Init == log = saved /\ unsaved = <<>>

\* A completed request, or a lower retention, makes a new version.
Accept ==
  /\ Len(unsaved') = Len(unsaved) + 1
  /\ SubSeq(unsaved', 1, Len(unsaved)) = unsaved
  /\ log' = unsaved'[Len(unsaved')]
  /\ UNCHANGED saved

\* The disk moves on to one of the later versions.
Save ==
  /\ \E n \in 1..Len(unsaved) :
       /\ saved' = unsaved[n]
       /\ unsaved' = SubSeq(unsaved, n + 1, Len(unsaved))
  /\ UNCHANGED log

\* The process ends, or the plugin is registered again: what was not saved is
\* forgotten.
Reopen ==
  /\ log' = saved
  /\ unsaved' = <<>>
  /\ UNCHANGED saved

\* Registered again with a lower retention: the oldest rows go at once.
ReopenTrimmed ==
  /\ \E n \in 1..Len(saved) : log' = SubSeq(saved, n + 1, Len(saved))
  /\ unsaved' = <<log'>>
  /\ UNCHANGED saved

Next == Accept \/ Save \/ Reopen \/ ReopenTrimmed

Spec == Init /\ [][Next]_vars

=============================================================================
