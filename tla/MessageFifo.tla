---------------------------- MODULE MessageFifo ----------------------------
(***************************************************************************)
(* What a pruss_api character device promises its reader: a bounded queue  *)
(* of whole messages.  The PRU side offers messages; an offered message is *)
(* either accepted or dropped, and every read() returns one accepted       *)
(* message, whole, in the order of acceptance.                             *)
(***************************************************************************)
EXTENDS Naturals, Sequences

CONSTANTS
  Message,    \* what can be queued
  Capacity    \* how many accepted messages may wait to be read

VARIABLES
  accepted,   \* the messages accepted so far
  returned    \* the messages read() has handed out so far

vars == <<accepted, returned>>

Init ==
  /\ accepted = << >>
  /\ returned = << >>

\* The PRU side chooses the message, which is then the last one accepted.
Put ==
  /\ Len(accepted) - Len(returned) < Capacity
  /\ Len(accepted') = Len(accepted) + 1
  /\ accepted'[Len(accepted) + 1] \in Message
  /\ accepted' = Append(accepted, accepted'[Len(accepted) + 1])
  /\ UNCHANGED returned

Get ==
  /\ Len(returned) < Len(accepted)
  /\ returned' = Append(returned, accepted[Len(returned) + 1])
  /\ UNCHANGED accepted

Next == Put \/ Get

Spec == Init /\ [][Next]_vars
=============================================================================
