----------------------------- MODULE MCUrlText -----------------------------
(***************************************************************************)
(* Paths of two segments, of every kind that net/url and path.Clean tell   *)
(* apart, and fragments encoded up to five times.                          *)
(***************************************************************************)
EXTENDS UrlText, TLC

MCSegment == {"", ".", "..", "a", "a b", "a!", "a%20b", "a%21", "a%2F", "%2E%2E"}
=============================================================================
