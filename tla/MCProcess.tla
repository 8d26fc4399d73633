----------------------------- MODULE MCProcess -----------------------------
(* Two requests, so that one may end and one may last. *)
EXTENDS Process

MCRequests == {"scrape", "probe"}
=============================================================================
