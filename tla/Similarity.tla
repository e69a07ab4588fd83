----------------------------- MODULE Similarity -----------------------------
(***************************************************************************)
(* What an element scores against a fingerprint (adaptive.rs).  A document *)
(* is a tree of nodes 1..n in document order under the document node 0:    *)
(*   parent[n]   a node before it, or 0                                    *)
(*   tag[n]      its element name, or TextNode                             *)
(*   attrs[n]    a function from attribute names to values                 *)
(*   word[n]     of a text node, its one word                              *)
(* A text is a sequence of words; Mark is a word of punctuation only.  A   *)
(* character of the code's text caps stands for a word here.  Scores are   *)
(* exact fractions of Unit where the code has floating point.              *)
(***************************************************************************)
EXTENDS Integers, SequencesExt

CONSTANTS TextNode, Mark,
          KeyAttrs,          \* KEY_ATTRS
          MaxPathDepth, MaxSiblings, MaxChildren,
          MaxTextChars,      \* DEFAULT_MAX_TEXT_CHARS
          ValueTokens        \* ATTR_VALUE_TOKENS

Unit == 14400  \* divisible by what a few tokens and attributes can give

AtMostOf(n, limit) == IF n <= limit THEN n ELSE limit
First(seq, n) == SubSeq(seq, 1, AtMostOf(Len(seq), n))
Nearest(seq, n) == SubSeq(seq, Len(seq) - AtMostOf(Len(seq), n) + 1, Len(seq))
-----------------------------------------------------------------------------
(* Context extraction.                                                     *)

Nodes(doc) == DOMAIN doc.parent
InOrder(doc, Test(_)) == SelectSeq([n \in Nodes(doc) |-> n], Test)
IsElement(doc, n) == n # 0 /\ doc.tag[n] # TextNode
Elements(doc) == InOrder(doc, LAMBDA n : IsElement(doc, n))
TagsOf(doc, nodes) == LET elements == SelectSeq(nodes, LAMBDA n : IsElement(doc, n))
                      IN  [i \in DOMAIN elements |-> doc.tag[elements[i]]]

(* Nearest first, up to the document node.                                 *)
Ancestors(doc, node) ==
  LET chain[n \in Nodes(doc) \cup {0}] ==
        IF n = 0 THEN <<>> ELSE <<doc.parent[n]>> \o chain[doc.parent[n]]
  IN  chain[node]

(* collect_ancestor_tags: the window may hold the document node.           *)
AncestorTags(doc, n) == TagsOf(doc, Reverse(First(Ancestors(doc, n), MaxPathDepth)))

(* collect_sibling_tags: text nodes use up a side's window, and what the   *)
(* side before leaves is the window of the side after.                     *)
SiblingTags(doc, n) ==
  LET sibling(k) == k # n /\ doc.parent[k] = doc.parent[n]
      before == TagsOf(doc, Nearest(InOrder(doc, LAMBDA k : sibling(k) /\ k < n), MaxSiblings))
      after == InOrder(doc, LAMBDA k : sibling(k) /\ k > n)
  IN  before \o TagsOf(doc, First(after, MaxSiblings - Len(before)))

ChildTags(doc, n) == First(TagsOf(doc, InOrder(doc, LAMBDA k : doc.parent[k] = n)), MaxChildren)

(* collect_text, of the whole subtree.                                     *)
Text(doc, n, maxChars) ==
  LET texts == InOrder(doc, LAMBDA k : doc.tag[k] = TextNode /\ Contains(Ancestors(doc, k), n))
  IN  First([i \in DOMAIN texts |-> doc.word[texts[i]]], maxChars)

(* The cap is looked at after a token is taken.                            *)
Tokenize(text, maxTokens) ==
  First(SelectSeq(text, LAMBDA w : w # Mark), IF maxTokens = 0 THEN 1 ELSE maxTokens)

(* The path of a fingerprint and of a candidate: its own tag comes last.   *)
TagPath(doc, n) == Append(AncestorTags(doc, n), doc.tag[n])

Seen(doc, n, maxChars) ==
  [tag |-> doc.tag[n], text |-> Text(doc, n, maxChars),
   attrs |-> [k \in DOMAIN doc.attrs[n] |-> First(doc.attrs[n][k], maxChars)]]

NoParent == [tag |-> TextNode]

(* What fingerprint snapshots of an element and what candidate_context and *)
(* build_parent_context see of it.                                         *)
Context(doc, n, maxChars) ==
  LET p == doc.parent[n] IN
  Seen(doc, n, maxChars) @@
  [path |-> TagPath(doc, n), siblings |-> SiblingTags(doc, n), children |-> ChildTags(doc, n),
   parent |-> IF IsElement(doc, p) THEN Seen(doc, p, maxChars) ELSE NoParent]

(* A fingerprint is taken with the default cap, whatever relocate is given.*)
Fingerprint(doc, n) == Context(doc, n, MaxTextChars)
-----------------------------------------------------------------------------
(* Sequences and values.                                                   *)

Greater(x, y) == IF x >= y THEN x ELSE y

(* Bug variant: the row is updated in place.                               *)
NextRowInPlace(previous, x, b) ==
  LET row[j \in 0..Len(b)] ==
        IF j = 0 THEN 0
        ELSE IF x = b[j] THEN row[j - 1] + 1
        ELSE Greater(previous[j], row[j - 1])
  IN  row

(* One row of the table, from the row above it.                            *)
NextRow(previous, x, b) ==
  LET row[j \in 0..Len(b)] ==
        IF j = 0 THEN 0
        ELSE IF x = b[j] THEN previous[j - 1] + 1
        ELSE Greater(previous[j], row[j - 1])
  IN  row

CommonLength(a, b) ==
  FoldLeft(LAMBDA row, x : NextRow(row, x, b), [j \in 0..Len(b) |-> 0], a)[Len(b)]

SequenceSimilarity(a, b) ==
  IF a = <<>> \/ b = <<>>
  THEN IF a = b THEN Unit ELSE 0
  ELSE (CommonLength(a, b) * Unit) \div Greater(Len(a), Len(b))

Overlap(A, B) ==
  IF A = {} /\ B = {} THEN Unit ELSE (Cardinality(A \cap B) * Unit) \div Cardinality(A \cup B)

(* An attribute's value is a text too.                                     *)
ValueSimilarity(v, w) ==
  IF v = w THEN Unit
  ELSE IF v = <<>> \/ w = <<>> THEN 0
  ELSE Overlap(ToSet(Tokenize(v, ValueTokens)), ToSet(Tokenize(w, ValueTokens)))

Mean(keys, Value(_)) ==
  IF keys = {} THEN Unit ELSE MapThenSumSet(Value, keys) \div Cardinality(keys)

AttrSimilarity(fp, cand) ==
  LET shared == DOMAIN fp \cap DOMAIN cand
  IN  (Overlap(DOMAIN fp, DOMAIN cand)
       + Mean(shared, LAMBDA k : ValueSimilarity(fp[k], cand[k]))) \div 2

KeyValue(fp, cand, k) == IF k \in DOMAIN cand THEN ValueSimilarity(fp[k], cand[k]) ELSE 0

(* Bug variant: a fingerprint without a key attribute has none in common.  *)
KeyAttrSimilarityUnguarded(fp, cand) ==
  LET keys == KeyAttrs \cap DOMAIN fp
  IN  IF keys = {} THEN 0 ELSE Mean(keys, LAMBDA k : KeyValue(fp, cand, k))

KeyAttrSimilarity(fp, cand) ==
  Mean(KeyAttrs \cap DOMAIN fp, LAMBDA k : KeyValue(fp, cand, k))
-----------------------------------------------------------------------------
(* score.                                                                  *)

Same(x, y) == IF x = y THEN Unit ELSE 0

(* Nothing to compare is neutral: a fingerprint without text.              *)
TextSimilarity(fp, cand, opts) ==
  IF fp = <<>> THEN Unit
  ELSE SequenceSimilarity(Tokenize(fp, opts.maxTokens), Tokenize(cand, opts.maxTokens))

ParentSimilarity(fp, cand, opts) ==
  CASE fp = NoParent /\ cand = NoParent -> Unit
    [] fp.tag # cand.tag -> 0
    [] OTHER -> (4 * Unit + 3 * AttrSimilarity(fp.attrs, cand.attrs)
                 + 3 * TextSimilarity(fp.text, cand.text, opts)) \div 10

(* Unit times the percentage: the weights add up to 100.                   *)
Weighted(fp, cand, opts) ==
  15 * Same(fp.tag, cand.tag)
  + 20 * TextSimilarity(fp.text, cand.text, opts)
  + 20 * AttrSimilarity(fp.attrs, cand.attrs)
  + 10 * KeyAttrSimilarity(fp.attrs, cand.attrs)
  + 15 * SequenceSimilarity(fp.path, cand.path)
  + 10 * ParentSimilarity(fp.parent, cand.parent, opts)
  + 5 * SequenceSimilarity(fp.siblings, cand.siblings)
  + 5 * (IF opts.children THEN SequenceSimilarity(fp.children, cand.children) ELSE Unit)

Confidence(fp, doc, n, opts) ==
  (2 * Weighted(fp, Context(doc, n, opts.maxChars), opts) + Unit) \div (2 * Unit)

(* The scores of a whole document, in the order relocate scans it.         *)
Scores(fp, doc, opts) ==
  LET elements == Elements(doc)
  IN  [i \in DOMAIN elements |-> Confidence(fp, doc, elements[i], opts)]
-----------------------------------------------------------------------------
(* Correctness.                                                            *)

(* The similarity of two sequences is that of their longest common         *)
(* subsequence: the row by row table loses none and invents none.          *)
IsCommonLength(a, b, k) ==
  \E I \in kSubset(k, DOMAIN a), J \in kSubset(k, DOMAIN b) :
    LET picked(s, S) == LET at == SetToSortSeq(S, <) IN [i \in DOMAIN at |-> s[at[i]]]
    IN  picked(a, I) = picked(b, J)

SimilarityIsReference(a, b) ==
  a # <<>> /\ b # <<>> =>
    \E k \in 0..AtMostOf(Len(a), Len(b)) :
      /\ IsCommonLength(a, b, k) /\ ~IsCommonLength(a, b, k + 1)
      /\ SequenceSimilarity(a, b) = (k * Unit) \div Greater(Len(a), Len(b))

(* An element that has not changed scores 100 against its own fingerprint, *)
(* so a relocation into the unchanged document never presents another one. *)
SelfScoresTop(doc, opts) ==
  opts.maxChars >= MaxTextChars =>
    \A i \in DOMAIN Elements(doc) :
      Scores(Fingerprint(doc, Elements(doc)[i]), doc, opts)[i] = 100
=============================================================================
