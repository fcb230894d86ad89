------------------------------ MODULE UrlBuild ------------------------------
(***************************************************************************)
(* The construction of a request's URL (url_build.rs, path_params.rs).     *)
(*                                                                         *)
(* A path template is its segments, the parts between its slashes, and the *)
(* pairs of an embedded query.  A segment is text, a placeholder (":name") *)
(* or a method modifier ("@put").  A URL is a host, path segments and      *)
(* query pairs; `tail` are path segments that were appended behind the     *)
(* query of a base URL and so became part of it.  Names and values are     *)
(* tokens; a value of Reserved has characters that end a segment unless    *)
(* they are percent-encoded.                                               *)
(***************************************************************************)
EXTENDS Naturals, Sequences, SequencesExt

CONSTANTS
  Reserved,
  Hostless   \* what stands for a host in an absolute path and is none

ASSUME ReservedAssumption == "" \notin Reserved   \* it has no characters

Text(name)    == [kind |-> "text", name |-> name]
Param(name)   == [kind |-> "param", name |-> name]
Modifier(m)   == [kind |-> "method", name |-> m]

(* The empty string between two slashes, at the start or at the end.       *)
Blank == Text("")

(* Known is what parse_method_modifier accepts after the "@".              *)
Known == {"GET", "POST", "PUT", "PATCH", "DELETE", "HEAD"}
NoMethod == "none"

(* The elements of a sequence that stand at some of its positions.         *)
Selected(seq, at) ==
  LET picked[i \in 0..Len(seq)] ==
        IF i = 0 THEN <<>>
        ELSE IF i \in at THEN Append(picked[i - 1], seq[i]) ELSE picked[i - 1]
  IN  picked[Len(seq)]

------------------------------------------------------------------------------
(* Ordered queries: an IndexMap from keys to scalars or arrays.            *)

Scalar(k, v)  == [key |-> k, array |-> FALSE, values |-> <<v>>]
Array(k, vs)  == [key |-> k, array |-> TRUE, values |-> vs]
KeysOf(query) == {query[i].key : i \in DOMAIN query}

(* IndexMap::insert: a new key goes to the end, a known one keeps its      *)
(* place.                                                                  *)
Insert(query, entry) ==
  IF entry.key \in KeysOf(query)
  THEN [i \in DOMAIN query |-> IF query[i].key = entry.key THEN entry ELSE query[i]]
  ELSE Append(query, entry)

(* A repeated key of a query string turns its scalar into an array.        *)
InsertPair(map, p) ==
  IF p[1] \in KeysOf(map)
  THEN LET old == CHOOSE e \in ToSet(map) : e.key = p[1]
       IN  Insert(map, Array(p[1], Append(old.values, p[2])))
  ELSE Insert(map, Scalar(p[1], p[2]))

ParseQueryString(pairs) == FoldLeft(InsertPair, <<>>, pairs)

MergeQueriesEmbeddedFirst(embedded, query) ==
  FoldLeft(LAMBDA merged, e : IF e.key \in KeysOf(merged) THEN merged ELSE Append(merged, e),
           embedded, query)

MergeQueries(embedded, query) == FoldLeft(Insert, embedded, query)

EntryPairs(entry) == [j \in DOMAIN entry.values |-> <<entry.key, entry.values[j]>>]
PairsOf(query)    == FlattenSeq([i \in DOMAIN query |-> EntryPairs(query[i])])

ApplyQuery(url, query) ==
  IF query = <<>> THEN url
  ELSE [url EXCEPT !.query = PairsOf(query), !.tail = <<>>]

------------------------------------------------------------------------------
(* Paths.                                                                  *)

DropLeading(seq, blank) ==
  LET others == {i \in DOMAIN seq : seq[i] # blank}
  IN  IF others = {} THEN <<>>
      ELSE SubSeq(seq, CHOOSE i \in others : \A j \in others : i <= j, Len(seq))

(* Only a modifier in front of a slash counts, and only at the very start. *)
HasModifier(path) ==
  ~path.absolute /\ Len(path.segs) >= 2 /\ path.segs[1].kind = "method" /\ path.segs[1].name \in Known

ParseMethodModifier(path) ==
  IF HasModifier(path)
  THEN [segs |-> DropLeading(Tail(path.segs), Blank), method |-> path.segs[1].name]
  ELSE [segs |-> path.segs, method |-> NoMethod]

(* The placeholders of a template, from left to right.                     *)
PathParamNames(path) ==
  LET params == Selected(path.segs, {i \in DOMAIN path.segs : path.segs[i].kind = "param"})
  IN  [i \in DOMAIN params |-> params[i].name]

(* One segment of a URL: encoded, a reserved value does not end it.        *)
PercentEncode(v) == [text |-> v, encoded |-> v \in Reserved]

SubstituteParams(segs, params) ==
  [i \in DOMAIN segs |->
     IF segs[i].kind = "param" THEN PercentEncode(params[segs[i].name])
     ELSE [text |-> segs[i].name, encoded |-> FALSE]]

Missing(segs, params) ==
  {i \in DOMAIN segs : segs[i].kind = "param" /\ segs[i].name \notin DOMAIN params}

(* Url::parse resolves "." and "..", which percent-encoding leaves alone;  *)
(* at the end they leave an empty segment.  A value that was not encoded   *)
(* is cut where its reserved characters are.  A path has a segment.        *)
Slash == [text |-> "", encoded |-> FALSE]
Piece == [text |-> "a piece of a value", encoded |-> FALSE]

Resolve(acc, seg, last) ==
  LET up   == IF acc = <<>> THEN acc ELSE Front(acc)
      over == IF last THEN <<Slash>> ELSE <<>>
  IN  CASE seg.text = "."  -> acc \o over
        [] seg.text = ".." -> up \o over
        [] seg.text \in Reserved /\ ~seg.encoded -> acc \o <<Piece, Piece>>
        [] OTHER           -> Append(acc, seg)

ParsePath(segs) ==
  LET path == FoldLeft(LAMBDA acc, i : Resolve(acc, segs[i], i = Len(segs)), <<>>,
                       [i \in DOMAIN segs |-> i])
  IN  IF path = <<>> THEN <<Slash>> ELSE path

TrimEnd(path) == Reverse(DropLeading(Reverse(path), Slash))

(* The path is appended to the text of the base, whatever that ends in.    *)
JoinPath(base, segs) ==
  LET rest == DropLeading(segs, Slash)
  IN  IF base.query = <<>>
      THEN [base EXCEPT !.path = ParsePath(TrimEnd(base.path) \o rest)]
      ELSE [base EXCEPT !.tail = rest]

(* The start of an absolute path is a URL of its own.                      *)
Host(name) == [host |-> name, path |-> <<Slash>>, query |-> <<>>, tail |-> <<>>]

MissingPathParam == "MissingPathParam"
InvalidBaseUrl   == "InvalidBaseUrl"

(* Url::parse refuses an absolute path without a proper host; a path that  *)
(* is joined to a parsed base cannot spoil it.  A base with a fragment is  *)
(* left out.                                                               *)
Parses(path) == path.absolute => path.host \notin Hostless

BuildUrl(base, path, params, query) ==
  LET parsed == ParseMethodModifier(path)
      merged == MergeQueries(ParseQueryString(path.query), query)
      segs   == SubstituteParams(parsed.segs, params)
  IN  IF Missing(parsed.segs, params) # {} THEN [error |-> MissingPathParam]
      ELSE IF ~Parses(path) THEN [error |-> InvalidBaseUrl]
      ELSE [ error  |-> "none",
             method |-> parsed.method,
             url    |-> ApplyQuery(IF path.absolute
                                   THEN [Host(path.host) EXCEPT !.path = ParsePath(segs)]
                                   ELSE JoinPath(base, segs),
                                   merged) ]

=============================================================================
