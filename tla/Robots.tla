------------------------------- MODULE Robots -------------------------------
(***************************************************************************)
(* robots.rs: the cached robots.txt of one origin.  A worker that finds no *)
(* fresh entry fetches the file itself, judges its URL by what it got, and *)
(* inserts it; several may do so at once, and the last insert stays.  What *)
(* the file says of the URLs asked about, "allow", "deny" or nothing that  *)
(* can be parsed, is the server's choice at every answer.                  *)
(***************************************************************************)
EXTENDS Fetcher

VARIABLES cache,   \* the entry's robot, and (history) the answer it was made of
          fresh,   \* the entry is younger than the TTL
          misses   \* history: fetches begun by each worker since the last expiry

robotsVars == <<cache, fresh, misses>>

Files == {"allow", "deny", "garbage"}
Robot == {"allow", "deny", "none"}  \* "none": no restrictions apply

(* What the origin answered, before anything is made of it: a file, that   *)
(* there is none (4xx), or neither (an error, a redirect, a 5xx).          *)
Answers == Files \cup {"absent", "failed"}

AnswerOf(result, file) == CASE result = "2xx"                   -> file
                            [] result \in {"403", "429", "4xx"} -> "absent"
                            [] OTHER                            -> "failed"

RobotsTypeOK == /\ cache \in [robot : Robot, answer : Answers \cup {"none"}]
                /\ fresh \in BOOLEAN
                /\ misses \in [Workers -> Nat]

RobotsInit == /\ cache = [robot |-> "none", answer |-> "none"]
              /\ fresh = FALSE
              /\ misses = [w \in Workers |-> 0]

(* Bug variant: a robots.txt that cannot be read restricts nothing.        *)
ParsedLenient(result, file) == IF result = "2xx" /\ file # "garbage" THEN file ELSE "none"

(* fetch_and_parse, from the result of the fetch.  A parser error is None, *)
(* as a 4xx; everything that is no answer denies all.                      *)
Parsed(result, file) ==
  CASE result = "2xx"                   -> IF file = "garbage" THEN "none" ELSE file
    [] result \in {"403", "429", "4xx"} -> "none"
    [] OTHER                            -> "deny"

Allows(robot) == robot # "deny"

(* is_allowed from the cache.                                              *)
Hit(allowed) == /\ fresh
                /\ allowed = Allows(cache.robot)
                /\ UNCHANGED robotsVars

Miss(w) == /\ ~fresh
           /\ misses' = [misses EXCEPT ![w] = @ + 1]
           /\ UNCHANGED <<cache, fresh>>

InsertIf(result, allowed, kept) == \E file \in Files :
  LET entry == [robot |-> Parsed(result, file), answer |-> AnswerOf(result, file)]
  IN  /\ allowed = Allows(entry.robot)
      /\ IF kept THEN cache' = entry /\ fresh' = TRUE ELSE UNCHANGED <<cache, fresh>>
      /\ UNCHANGED misses

(* Bug variant: only a file that was read is cached.                       *)
InsertRead(result, allowed) == InsertIf(result, allowed, result = "2xx")

Insert(result, allowed) == InsertIf(result, allowed, TRUE)

Expire == /\ fresh
          /\ fresh' = FALSE
          /\ misses' = [w \in Workers |-> 0]
          /\ UNCHANGED cache

(* A fresh entry made of an answer that lets nothing through: the file     *)
(* forbids the URLs asked about, or there was no telling.                  *)
Forbidding == fresh /\ cache.answer \in {"deny", "failed"}
-----------------------------------------------------------------------------
(* However many workers miss together, each fetches robots.txt at most     *)
(* once between two expiries of the entry.                                 *)
MissedOnce == \A w \in Workers : misses[w] <= 1
=============================================================================
