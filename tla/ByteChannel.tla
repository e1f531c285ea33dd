---------------------------- MODULE ByteChannel ----------------------------
(***************************************************************************)
(* What a Device promises a script about the bytes it carries: a link that *)
(* comes up once and breaks once; outbound bytes reach the line in the     *)
(* order they were queued, none repeated, none skipped, and only while the *)
(* link is up; inbound bytes are fetched by the script in the order they   *)
(* arrived, each exactly once, also after the link broke.                  *)
(***************************************************************************)
EXTENDS SequencesExt

VARIABLES
  link,      \* "down" at first, then "up", then "broken" for good
  sent,      \* all the bytes the program has queued for the line
  carried,   \* all the bytes the line has taken
  arrived,   \* all the bytes the line has delivered
  handed     \* all the bytes the script has fetched

vars == <<link, sent, carried, arrived, handed>>

Init ==
  /\ link = "down"
  /\ sent = <<>>
  /\ carried = <<>>
  /\ arrived = <<>>
  /\ handed = <<>>

Connect ==
  /\ link = "down"
  /\ link' = "up"
  /\ UNCHANGED <<sent, carried, arrived, handed>>

\* A link breaks at most once; one that never came up can be given up too.
Break ==
  /\ link # "broken"
  /\ link' = "broken"
  /\ UNCHANGED <<sent, carried, arrived, handed>>

\* The program may queue bytes at any time, whatever the link's state.
Queue ==
  /\ IsPrefix(sent, sent')
  /\ UNCHANGED <<link, carried, arrived, handed>>

Carry ==
  /\ link = "up"
  /\ IsPrefix(carried, carried')
  /\ IsPrefix(carried', sent)
  /\ UNCHANGED <<link, sent, arrived, handed>>

Arrive ==
  /\ link = "up"
  /\ IsPrefix(arrived, arrived')
  /\ UNCHANGED <<link, sent, carried, handed>>

Hand ==
  /\ IsPrefix(handed, handed')
  /\ IsPrefix(handed', arrived)
  /\ UNCHANGED <<link, sent, carried, arrived>>

Next == Connect \/ Break \/ Queue \/ Carry \/ Arrive \/ Hand

Spec == Init /\ [][Next]_vars
=============================================================================
