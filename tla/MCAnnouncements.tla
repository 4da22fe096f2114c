--------------------------- MODULE MCAnnouncements ---------------------------
(* Finite instances of Announcements.                                         *)
EXTENDS Announcements, TLC
=============================================================================
