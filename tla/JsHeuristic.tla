----------------------------- MODULE JsHeuristic -----------------------------
(***************************************************************************)
(* static_html_looks_js_dependent (crates/parser/src/lib.rs): whether a    *)
(* page must be rendered to be read.  A page is a sequence of parts        *)
(*   [where : {"head", "body"}, kind : {"text", "script", "style"},        *)
(*    length : Nat]                                                        *)
(* with length the characters that are not white space.                    *)
(***************************************************************************)
EXTENDS Integers, SequencesExt

CONSTANT TextThreshold  \* JS_DEPENDENT_TEXT_THRESHOLD

Lengths(page, Test(_)) ==
  LET parts == SelectSeq(page, Test)
  IN  FoldLeft(LAMBDA sum, part : sum + part.length, 0, parts)

HasScript(page) == \E i \in DOMAIN page : page[i].kind = "script"

(* The text of the body holds its scripts and styles too.                  *)
BodyText(page) == Lengths(page, LAMBDA part : part.where = "body")

(* Those of the whole document, the head's among them.                     *)
ScriptStyle(page) == Lengths(page, LAMBDA part : part.kind \in {"script", "style"})

(* Bug variant: the difference of two usizes wraps around.                 *)
VisibleWrapping(page) ==
  IF BodyText(page) >= ScriptStyle(page) THEN BodyText(page) - ScriptStyle(page)
  ELSE 2^16 + BodyText(page) - ScriptStyle(page)

(* saturating_sub                                                          *)
Visible(page) ==
  IF BodyText(page) >= ScriptStyle(page) THEN BodyText(page) - ScriptStyle(page) ELSE 0

LooksJsDependent(page) == HasScript(page) /\ Visible(page) < TextThreshold
-----------------------------------------------------------------------------
(* Correctness.                                                            *)

ReadableText(page) == Lengths(page, LAMBDA part : part.where = "body" /\ part.kind = "text")
HeadCode(page) == Lengths(page, LAMBDA part : part.where = "head" /\ part.kind # "text")

(* A shell that a script fills is never taken for a page, whatever scripts *)
(* and styles it carries and wherever they stand; a page with enough text  *)
(* is rendered needlessly only for what the code in its head takes off.    *)
SparsePageEscalates(page) ==
  /\ HasScript(page) /\ ReadableText(page) < TextThreshold => LooksJsDependent(page)
  /\ LooksJsDependent(page) => HasScript(page) /\ ReadableText(page) < TextThreshold + HeadCode(page)
=============================================================================
