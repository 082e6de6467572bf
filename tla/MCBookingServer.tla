--------------------------- MODULE MCBookingServer --------------------------
(***************************************************************************)
(* Small instances of BookingServer.  The limit is 2 instead of 15 items,  *)
(* and an int is large enough for the bookings and commands below.         *)
(***************************************************************************)
EXTENDS BookingRefinement

MCIntMax == 7

EmptyOnDisk == {<<0, 0, 0>>}

\* A command to book, one to cancel, and one that exceeds the limit or not.
MCCommands == {<<1, 1, 0>>, <<-1, 0, 0>>, <<0, 0, 2>>}

\* For runs about who holds which lock: one command is enough to write.
OneCommand == {<<1, 0, 0>>}
=============================================================================
