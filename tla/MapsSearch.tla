------------------------------ MODULE MapsSearch ------------------------------
(***************************************************************************)
(* The Google Maps source for one job: the place is geocoded, the circle   *)
(* covered with tiles, the firm type expanded into phrasings, and every    *)
(* phrasing searched in every tile, page by page, within a budget of       *)
(* searches.  Tiles overlap and phrasings find the same firms.  Any call   *)
(* may fail and end the run with what it has yielded so far.               *)
(***************************************************************************)
EXTENDS Integers, Sequences, FiniteSets, FiniteSetsExt

CONSTANTS
  Places,      \* place ids the API may return; the names in Far lie outside
  Far,
  FirmTypes,   \* what a job may ask for: the different phrasings of a firm type
  Limit,       \* places_query_variants
  Tiles,       \* tiles of a deep sweep
  MaxSearches, \* places_max_searches_per_job
  MaxPages

MapsAssumption ==
  /\ {Limit, Tiles, MaxSearches, MaxPages} \subseteq Nat \ {0} /\ Far \subseteq Places
  /\ \A firm \in FirmTypes : IsFiniteSet(firm)

VARIABLES
  job,       \* [firm, where, deep]
  at,        \* "start", "sweep", "done" or "failed"
  center,    \* is the centre of the circle known
  refused,   \* did Google refuse the geocoding for quota
  tile, phrase, page,   \* the position in the sweep
  left,      \* searches_left
  seen,      \* place ids met
  searched,  \* searches made: <<tile, phrase>> in order
  yielded,   \* places handed to the pipeline
  twice,     \* was a place with an id handed over again
  bill       \* calls metered

vars == <<job, at, center, refused, tile, phrase, page, left, seen, searched, yielded, twice, bill>>

NoId == "place without id"

\* expand_query_variants: the expanded type first, then its other phrasings, each once
\* and up to the limit; "companies" if the job names no type.  How many there are:
Phrasings == IF job.firm = {} THEN 1 ELSE Min({Limit, Cardinality(job.firm)})

\* tile_circle for a deep sweep around a known centre, else a single query, which
\* is unrestricted when there is no centre.
TileCount == IF center /\ job.deep THEN Tiles ELSE 1

Init ==
  /\ job \in [firm : FirmTypes, where : {"point", "address", "nowhere"}, deep : BOOLEAN]
  /\ at = "start" /\ center = FALSE /\ refused = FALSE
  /\ tile = 1 /\ phrase = 1 /\ page = 1 /\ left = MaxSearches
  /\ seen = {} /\ searched = <<>> /\ yielded = {} /\ twice = FALSE /\ bill = 0

-----------------------------------------------------------------------------
(* _resolve_center and geocode                                              *)

\* Responses of the geocoder.  A refusal for quota carries no results.
GeocodeResponses ==
  {[http |-> 0,   status |-> "none",             results |-> FALSE],
   [http |-> 429, status |-> "none",             results |-> FALSE],
   [http |-> 200, status |-> "OK",               results |-> TRUE],
   [http |-> 200, status |-> "ZERO_RESULTS",     results |-> FALSE],
   [http |-> 200, status |-> "OVER_QUERY_LIMIT", results |-> FALSE]}

\* What geocode makes of one: the missing results are looked at before the status.
Geocoded(r) ==
  CASE r.http # 200                                  -> "raise"
    [] r.http = 200 /\ r.results /\ r.status = "OVER_QUERY_LIMIT" -> "raise"
    [] r.http = 200 /\ r.results /\ r.status = "OK" -> "found"
    [] OTHER                                         -> "none"

Sweep(known) == center' = known /\ at' = "sweep"

Locate ==
  /\ at = "start"
  /\ \/ job.where # "address" /\ Sweep(job.where = "point") /\ UNCHANGED <<refused, bill>>
     \/ /\ job.where = "address"
        /\ \E r \in GeocodeResponses :
             /\ bill' = IF r.http = 0 THEN bill ELSE bill + 1
             /\ refused' = (r.status = "OVER_QUERY_LIMIT")
             /\ IF Geocoded(r) = "raise" THEN at' = "failed" /\ UNCHANGED center
                ELSE Sweep(Geocoded(r) = "found")
  /\ UNCHANGED <<job, tile, phrase, page, left, seen, searched, yielded, twice>>

-----------------------------------------------------------------------------
(* discover                                                                 *)

\* Mutant of Fresh: what was seen in this search only is remembered.
FreshHere(places) == {i \in DOMAIN places : \A j \in 1..(i - 1) : places[j] # places[i]}

\* The places of a page that were not met before; one without an id always is new.
Fresh(places) ==
  {i \in DOMAIN places : places[i] = NoId
     \/ (places[i] \notin seen /\ \A j \in 1..(i - 1) : places[j] # places[i])}

\* Mutant of Near: the distance is not looked at.
NearAny(p) == TRUE

\* The post-filter: with a centre, what lies beyond 1.2 radii is dropped.
Near(p) == center => p \notin Far

\* Mutant of NextSearch: the inner loop's end leaves the outer loop as well.
NextSearchFirstTile ==
  IF phrase < Phrasings THEN phrase' = phrase + 1 /\ UNCHANGED <<tile, at>>
  ELSE at' = "done" /\ UNCHANGED <<tile, phrase>>

\* The for-else of the sweep: after the last phrasing of a tile the next tile; the
\* loops are left when they end (or, in Post, when the budget is spent).
NextSearch ==
  CASE phrase < Phrasings -> phrase' = phrase + 1 /\ UNCHANGED <<tile, at>>
    [] phrase = Phrasings /\ tile < TileCount
                               -> tile' = tile + 1 /\ phrase' = 1 /\ UNCHANGED at
    [] OTHER                   -> at' = "done" /\ UNCHANGED <<tile, phrase>>

\* One POST.  The first page of a search takes one off the budget, and with none
\* left the sweep is over.  The page's new and near places are yielded; a token
\* leads to the next page, up to MaxPages of them.
Post ==
  /\ at = "sweep" /\ (page = 1 => left > 0)
  /\ left' = IF page = 1 THEN left - 1 ELSE left
  /\ searched' = IF page = 1 THEN Append(searched, <<tile, phrase>>) ELSE searched
  /\ bill' = bill + 1
  /\ \E places \in UNION {[1 .. n -> Places \cup {NoId}] : n \in 0 .. 2}, token \in BOOLEAN :
       LET new   == Fresh(places)
           given == {places[i] : i \in {n \in new : Near(places[n])}}
       IN  /\ seen' = seen \cup ({places[i] : i \in new} \ {NoId})
           /\ yielded' = yielded \cup given
           /\ twice' = (twice \/ (given \ {NoId}) \cap yielded # {})
           /\ IF token /\ page < MaxPages
              THEN page' = page + 1 /\ UNCHANGED <<tile, phrase, at>>
              ELSE page' = 1 /\ NextSearch
  /\ UNCHANGED <<job, center, refused>>

BudgetSpent ==
  /\ at = "sweep" /\ page = 1 /\ left = 0
  /\ at' = "done"
  /\ UNCHANGED <<job, center, refused, tile, phrase, page, left, seen, searched, yielded, twice, bill>>

\* A transport error, 429, 5xx or 4xx; metered unless nothing came back.
PostFails ==
  /\ at = "sweep" /\ (page = 1 => left > 0)
  /\ left' = IF page = 1 THEN left - 1 ELSE left
  /\ at' = "failed"
  /\ bill' \in {bill, bill + 1}
  /\ UNCHANGED <<job, center, refused, tile, phrase, page, seen, searched, yielded, twice>>

Next == Locate \/ Post \/ BudgetSpent \/ PostFails

Spec == Init /\ [][Next]_vars

-----------------------------------------------------------------------------
(* Properties                                                               *)

\* A run that ends well has made every search of the sweep once, or as many as the
\* budget allows, and no more; overlapping tiles hand no place over twice.
SweepComplete ==
  /\ at = "done" => \/ Len(searched) = MaxSearches
                    \/ Range(searched) = (1..TileCount) \X (1..Phrasings)
  /\ IsInjective(searched) /\ Len(searched) <= MaxSearches
  /\ ~ twice
  /\ bill <= MaxPages * MaxSearches + 1

\* A job with a place never brings in firms from elsewhere once the place is known.
NothingFar == center => yielded \cap Far = {}

\* The geocoder's refusal for quota is an error of the run, not an empty answer.
OverLimitSurfaces == refused => at = "failed"
=============================================================================
