---------------------------- MODULE MCCloudClient ----------------------------
(***************************************************************************)
(* CloudClient with one coordinator and one live session, and three pairs. *)
(***************************************************************************)
EXTENDS CloudClient

CONSTANTS poll, ticket

PollAndTicket == {poll, ticket}
TicketOnly == {ticket}
PollOnly == {poll}
=============================================================================
