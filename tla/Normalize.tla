------------------------------ MODULE Normalize ------------------------------
(***************************************************************************)
(* normalize_url (crates/core/src/normalize.rs): the key under which the   *)
(* frontier knows a page.  A URL is                                        *)
(*   path      its segments, the text between slashes: <<"">> is "/", and  *)
(*             an empty segment elsewhere is a doubled or trailing slash   *)
(*   query     its key=value parts, [key, value, spelled]: the keys are    *)
(*             numbers, in their order, and a part may be spelled in other *)
(*             ways than Encoded (another escaping, no "="); <<>> if none  *)
(*   fragment  or NoFragment                                               *)
(* An http or https URL that has been parsed has a lower-case host and no  *)
(* default port, so the two rules about them change nothing.  Options are  *)
(* [fragment, tracking, sort : BOOLEAN, slash : a TrailingSlashPolicy].    *)
(***************************************************************************)
EXTENDS Integers, SequencesExt

CONSTANTS Tracking,  \* the keys that are tracking parameters, in any case
          Files      \* the segments with a dot in them

NoFragment == "none"
Encoded == "encoded"  \* as form_urlencoded::Serializer spells a pair
-----------------------------------------------------------------------------
(* Bug variant: a single slash is taken off where there are several.       *)
CollapseSlashesOnce(path) ==
  LET n == Len(path)
      keep == SelectSeq([i \in 1..n |-> i],
                        LAMBDA i : i = n \/ path[i] # "" \/ (i > 1 /\ path[i - 1] = ""))
  IN  [i \in DOMAIN keep |-> path[keep[i]]]

CollapseSlashes(path) ==
  Append(SelectSeq(Front(path), LAMBDA segment : segment # ""), Last(path))

HasFileExtension(path) == Last(path) \in Files

TrailingSlash(path, policy) ==
  CASE policy = "Add" /\ Last(path) # "" /\ ~HasFileExtension(path) -> Append(path, "")
    [] policy = "Remove" /\ Len(path) > 1 /\ Last(path) = "" -> Front(path)
    [] OTHER -> path

(* A stable sort by key.                                                   *)
SortedPairs(pairs) ==
  LET before(i, j) == \/ pairs[i].key < pairs[j].key
                      \/ pairs[i].key = pairs[j].key /\ i < j
      order == SetToSortSeq(DOMAIN pairs, before)
  IN  [i \in DOMAIN pairs |-> pairs[order[i]]]

Kept(query, opts) == SelectSeq(query, LAMBDA p : ~(opts.tracking /\ p.key \in Tracking))

(* Nothing is rewritten unless one of the two rules is on; then every pair *)
(* is written back in one spelling.                                        *)
RewriteQuery(query, opts) ==
  LET pairs == IF opts.sort THEN SortedPairs(Kept(query, opts)) ELSE Kept(query, opts)
  IN  IF opts.tracking \/ opts.sort
      THEN [i \in DOMAIN pairs |-> [pairs[i] EXCEPT !.spelled = Encoded]]
      ELSE query

NormalizeUrl(url, opts) ==
  [path     |-> TrailingSlash(CollapseSlashes(url.path), opts.slash),
   query    |-> RewriteQuery(url.query, opts),
   fragment |-> IF opts.fragment THEN NoFragment ELSE url.fragment]
-----------------------------------------------------------------------------
(* Correctness: what makes the result a key to find duplicates with.       *)

(* Normalizing a second time changes nothing: a URL read back from the     *)
(* frontier's rows keeps its key.                                          *)
Idempotent(url, opts) ==
  LET once == NormalizeUrl(url, opts) IN NormalizeUrl(once, opts) = once

Content(query) == LET kept == SelectSeq(query, LAMBDA p : p.key \notin Tracking)
                  IN  [i \in DOMAIN kept |-> <<kept[i].key, kept[i].value>>]

ValuesOf(content, key) == SelectSeq(content, LAMBDA p : p[1] = key)

(* The pairs that say what a page is survive, each key's in their order,   *)
(* and all of them in their order unless they are to be sorted.            *)
KeepsContent(url, opts) ==
  LET before == Content(url.query)
      after == Content(NormalizeUrl(url, opts).query)
  IN  /\ Len(after) = Len(before)
      /\ \A key \in {p[1] : p \in ToSet(before)} : ValuesOf(after, key) = ValuesOf(before, key)
      /\ ~opts.sort => after = before

(* Two links to one page, told apart by tracking parameters, by how their  *)
(* pairs are spelled, by doubled slashes or by a fragment, have one key.   *)
SamePage(u, v) == /\ Content(u.query) = Content(v.query)
                  /\ CollapseSlashes(u.path) = CollapseSlashes(v.path)

OneKey(u, v, opts) ==
  opts.fragment /\ opts.tracking /\ SamePage(u, v) => NormalizeUrl(u, opts) = NormalizeUrl(v, opts)
=============================================================================
