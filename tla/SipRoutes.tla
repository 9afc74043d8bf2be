----------------------------- MODULE SipRoutes ------------------------------
(***************************************************************************)
(* The route set that the SIP client takes from the Record-Route headers   *)
(* of a 2xx (src/internal/sip/client.go) and sends in ACK and BYE.  A      *)
(* header's value is a sequence of characters: the four that matter, and   *)
(* "x" for all others; blanks are left out.                                *)
(***************************************************************************)
EXTENDS Naturals, SequencesExt

Quote == "quote"

InQuotesOnly(s) == s.quoted   \* mutant of Inside: brackets are not counted
Inside(s) == s.quoted \/ s.depth > 0

Depth(s, r) ==
  CASE ~s.quoted /\ r = "<"               -> s.depth + 1
    [] ~s.quoted /\ r = ">" /\ s.depth > 0 -> s.depth - 1
    [] OTHER                              -> s.depth

Scan(s, r) ==
  IF r = "," /\ ~Inside(s)
    THEN [s EXCEPT !.values = Append(@, s.value), !.value = <<>>]
    ELSE [s EXCEPT !.value = Append(@, r), !.quoted = (@ # (r = Quote)), !.depth = Depth(s, r)]

Start == [values |-> <<>>, value |-> <<>>, quoted |-> FALSE, depth |-> 0]

SplitHeaderValues(value) ==
  LET s == FoldLeft(Scan, Start, value)
  IN Append(s.values, s.value)

AddRoute(routes, route)   == IF route = <<>> THEN routes ELSE Append(routes, route)
AddRecord(routes, record) == FoldLeft(AddRoute, routes, SplitHeaderValues(record))

RouteSet(records) == FoldLeft(AddRecord, <<>>, records)
=============================================================================
