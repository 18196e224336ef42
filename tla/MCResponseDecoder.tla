-------------------------- MODULE MCResponseDecoder --------------------------
(***************************************************************************)
(* ResponseDecoder on a small instance, for TLC: MaxSaid frames of any     *)
(* kind, or MaxSaidOfCalls frames of calls and the end of the response.    *)
(***************************************************************************)
EXTENDS ResponseDecoder

CONSTANTS MaxSaid, MaxSaidOfCalls

OnlyCalls == \A i \in DOMAIN said : said[i].kind \notin {"text", "other"}
Short     == Len(said) <= IF OnlyCalls THEN MaxSaidOfCalls ELSE MaxSaid
=============================================================================
