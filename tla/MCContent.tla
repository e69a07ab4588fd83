------------------------------ MODULE MCContent ------------------------------
(* The pure parts of the page pipeline on every small input, one in each   *)
(* initial state, and the scan of relocate on every short list of scores.  *)
EXTENDS Ranking, Similarity, Normalize, JsHeuristic, Backoff

VARIABLE sample

NoScan == [scores |-> <<>>, threshold |-> 0, maxElements |-> 1]

MCScans == {NoScan} \cup
  [scores : SeqOf({10, 40, 100}, 4), threshold : {0, 40, 200}, maxElements : {0, 2, 3, 4}]

Lists == [kind : {"lists"}, a : SeqOf({"x", "y"}, 4), b : SeqOf({"x", "y"}, 4)]

(* Trees of four nodes in document order.                                  *)
Parents == {p \in [1..4 -> 0..3] :
              /\ p[1] = 0 /\ p[2] = 1 /\ p[3] \in 1..2
              /\ p[4] \in {1, 3, p[3]}}

Html == [tag |-> "html", attrs |-> <<>>, word |-> Mark]

Node == [tag : {"div", "a"}, attrs : {<<>>, [class |-> <<"v", "w">>], [title |-> <<>>]}, word : {Mark}]
        \cup [tag : {TextNode}, attrs : {<<>>}, word : {"w", Mark}]

Tree(parent, nodes) == [kind   |-> "tree",
                        parent |-> parent,
                        tag    |-> [n \in 1..4 |-> nodes[n].tag],
                        attrs  |-> [n \in 1..4 |-> nodes[n].attrs],
                        word   |-> [n \in 1..4 |-> nodes[n].word]]

Trees == {tree \in {Tree(p, <<Html>> \o nodes) : p \in Parents, nodes \in [1..3 -> Node]} :
            \A n \in 2..4 : tree.tag[tree.parent[n]] # TextNode}

(* Paths with one query, and queries with one path.                        *)
Part == [key : 1..3, value : {"m", "n"}, spelled : {"raw", Encoded}]
Home == [kind |-> "url", path |-> <<"">>, query |-> <<>>, fragment |-> "top"]
Urls == {[Home EXCEPT !.path = path] : path \in SeqOf({"", "p", "q.html"}, 4) \ {<<>>}}
        \cup {[Home EXCEPT !.query = query] : query \in SeqOf(Part, 2) \cup
                {<<x, y, z>> : x, y, z \in {part \in Part : part.spelled = "raw"}}}

Url(sampled) == [path |-> sampled.path, query |-> sampled.query, fragment |-> sampled.fragment]

(* Other links to the same page.                                           *)
Spellings(url) ==
  {[url EXCEPT !.fragment = NoFragment],
   [url EXCEPT !.path = <<"">> \o url.path],
   [url EXCEPT !.query = Append(url.query, [key |-> 3, value |-> "m", spelled |-> "raw"])],
   [url EXCEPT !.query = [i \in DOMAIN url.query |-> [url.query[i] EXCEPT !.spelled = "raw"]]]}

UrlOptions == [fragment : BOOLEAN, tracking : BOOLEAN, sort : BOOLEAN,
               slash : {"Preserve", "Add", "Remove"}]

Pages == [kind : {"page"},
          page : SeqOf([where : {"head", "body"}, kind : {"text", "script", "style"}, length : 0..2], 3)]

Policies == [kind : {"policy"}, base : 0..40, max : {0, 1, 5, 16, 31, 33}]

Samples == Lists \cup Trees \cup Urls \cup Pages \cup Policies

MCInit == /\ RankingInit
          /\ \/ sample = [kind |-> "scan"]
             \/ sample \in Samples /\ scan = NoScan

MCSpec == MCInit /\ [][RankingNext /\ UNCHANGED sample]_<<rankingVars, sample>>
-----------------------------------------------------------------------------
(* The properties of the pure modules, each on its samples.                *)

(* The similarity of two token or tag lists is that of their longest       *)
(* common subsequence (sequence_similarity_by).                            *)
SimilarityIsExact == sample.kind = "lists" => SimilarityIsReference(sample.a, sample.b)

(* An unchanged element scores 100 against its fingerprint (score).        *)
UnchangedScoresTop ==
  sample.kind = "tree" =>
    \A children \in BOOLEAN, tokens \in 0..2 :
      SelfScoresTop(sample, [maxChars |-> MaxTextChars, maxTokens |-> tokens, children |-> children])

(* normalize_url: a key is stable, keeps what a URL says and is the same   *)
(* for every spelling of a page.                                           *)
KeysAreSound ==
  sample.kind = "url" =>
    LET url == Url(sample) IN
    \A opts \in UrlOptions :
      /\ Idempotent(url, opts)
      /\ KeepsContent(url, opts)
      /\ \A v \in Spellings(url) : OneKey(url, v, opts)

(* A page that a script must fill is sent to the browser                   *)
(* (static_html_looks_js_dependent).                                       *)
SparsePagesEscalate == sample.kind = "page" => SparsePageEscalates(sample.page)

(* The delay between two attempts doubles up to its maximum and never      *)
(* overflows (RetryPolicy).                                                *)
BackoffGrows == sample.kind = "policy" => BackoffExact(sample.base, sample.max, 8)
=============================================================================
