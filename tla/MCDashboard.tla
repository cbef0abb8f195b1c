----------------------------- MODULE MCDashboard -----------------------------
(* Two connections of the page, so that polls overlap; a channel of two,   *)
(* and enough snapshots to overrun it twice over.                          *)
EXTENDS Dashboard

MCClient == {"poll1", "poll2"}
MCCapacity == 2
MCMaxPublished == 4
=============================================================================
