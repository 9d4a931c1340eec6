-------------------------------- MODULE Glob --------------------------------
(***************************************************************************)
(* policy.Match, the wildcard matcher behind every policy decision: an      *)
(* iterative loop over pattern and text that backtracks to the last star.   *)
(* One step is one turn of a loop.  Characters are members of Chars.        *)
(***************************************************************************)
EXTENDS Integers, Sequences

CONSTANTS
  Chars,      \* the characters of texts, "*" perhaps among them
  MaxPattern, \* bound: length of patterns
  MaxText     \* bound: length of texts

ASSUME GlobAssumption ==
  MaxPattern \in Nat /\ MaxText \in Nat

VARIABLES
  pattern, text,
  px, sx,       \* positions in pattern and text, from 0
  starP, starS, \* the last star and where its run of text began; -1: none
  verdict       \* "none" while the loops run, then "yes" or "no"

gvars == <<pattern, text, px, sx, starP, starS, verdict>>

Strings(S, n) == UNION {[1..k -> S] : k \in 0..n}

GInit ==
  /\ pattern \in Strings(Chars \cup {"*", "?"}, MaxPattern)
  /\ text \in Strings(Chars, MaxText)
  /\ px = 0 /\ sx = 0
  /\ starP = -1 /\ starS = -1
  /\ verdict = "none"

Scanning == verdict = "none" /\ sx < Len(text)

\* The pattern's next character takes the text's next one.
Takes == px < Len(pattern) /\ pattern[px + 1] \in {"?", text[sx + 1]}

AtStar == px < Len(pattern) /\ pattern[px + 1] = "*"

Advance ==
  /\ Scanning /\ Takes
  /\ px' = px + 1
  /\ sx' = sx + 1
  /\ UNCHANGED <<pattern, text, starP, starS, verdict>>

MarkStar ==
  /\ Scanning /\ ~Takes /\ AtStar
  /\ starP' = px
  /\ starS' = sx
  /\ px' = px + 1
  /\ UNCHANGED <<pattern, text, sx, verdict>>

\* Mutant: the star is tried again from where the text stands.
BacktrackInPlace ==
  /\ Scanning /\ ~Takes /\ ~AtStar /\ starP >= 0
  /\ px' = starP + 1
  /\ starS' = sx + 1
  /\ sx' = sx + 1
  /\ UNCHANGED <<pattern, text, starP, verdict>>

\* The last star takes one character more.
Backtrack ==
  /\ Scanning /\ ~Takes /\ ~AtStar /\ starP >= 0
  /\ px' = starP + 1
  /\ starS' = starS + 1
  /\ sx' = starS + 1
  /\ UNCHANGED <<pattern, text, starP, verdict>>

Fail ==
  /\ Scanning /\ ~Takes /\ ~AtStar /\ starP < 0
  /\ verdict' = "no"
  /\ UNCHANGED <<pattern, text, px, sx, starP, starS>>

\* The text is used up: stars may be left over, nothing else.
SkipStar ==
  /\ verdict = "none" /\ sx = Len(text) /\ AtStar
  /\ px' = px + 1
  /\ UNCHANGED <<pattern, text, sx, starP, starS, verdict>>

Finish ==
  /\ verdict = "none" /\ sx = Len(text) /\ ~AtStar
  /\ verdict' = IF px = Len(pattern) THEN "yes" ELSE "no"
  /\ UNCHANGED <<pattern, text, px, sx, starP, starS>>

GNext == Advance \/ MarkStar \/ Backtrack \/ Fail \/ SkipStar \/ Finish

GSpec == GInit /\ [][GNext]_gvars

-----------------------------------------------------------------------------
(* What a pattern means *)

\* A character of a pattern fits a text from position a to position b: a star
\* fits any stretch, the others one character.
Fits(c, t, a, b) == (c = "*" /\ a <= b) \/ (b = a + 1 /\ c \in {"?", t[b]})

\* The pattern from position i on fits the text from position j on: the text
\* can be cut into stretches, one for each character.
FitsFrom(p, t, i, j) ==
  \E cut \in [i..Len(p) -> 0..Len(t)] :
    /\ cut[i] = j /\ cut[Len(p)] = Len(t)
    /\ \A k \in i..Len(p) - 1 : Fits(p[k + 1], t, cut[k], cut[k + 1])

\* The loop in Match forgets every star but the last one, and yet decides
\* whether some reading of all of them makes the pattern fit the text: it never
\* says that it does if it does not, nor the reverse of a text without a star
\* (a star in the text uses up the pattern's).
MatchExact ==
  /\ verdict = "yes" => FitsFrom(pattern, text, 0, 0)
  /\ verdict = "no" /\ (\A i \in DOMAIN text : text[i] # "*") => ~FitsFrom(pattern, text, 0, 0)
=============================================================================
