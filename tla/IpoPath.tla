------------------------------ MODULE IpoPath ------------------------------
(***************************************************************************)
(* fs_canonicalize() of ipo_path.c.  A path is the sequence of its         *)
(* characters, of which "/" and "." matter; a canonical path is the        *)
(* sequence of its names.  All of it is one pass over the characters with  *)
(* a stack of names, within the sizes of the code's buffers.               *)
(***************************************************************************)
EXTENDS Integers, SequencesExt

CONSTANTS
  IPO_FS_MAX_NAME,        \* size of a token
  MAX_TOKENS              \* rows of the token stack

ASSUME PathAssumption == IPO_FS_MAX_NAME \in Nat /\ IPO_FS_MAX_NAME > 3 /\ MAX_TOKENS \in Nat \ {0}

Slash == "/"
Dot == <<".">>
DotDot == <<".", ".">>

\* A canonical path as text; the root is "/".
Text(names) ==
  IF names = <<>> THEN <<Slash>> ELSE FlattenSeq([k \in DOMAIN names |-> <<Slash>> \o names[k]])

-----------------------------------------------------------------------------
(***************************************************************************)
(* Plausible mistakes, used only to check that the properties notice them. *)
(***************************************************************************)
PopWithoutClearing(s) ==
  IF s.token = DotDot THEN [s EXCEPT !.names = IF @ = <<>> THEN @ ELSE Front(@)]
  ELSE IF s.token \in {<<>>, Dot} THEN [s EXCEPT !.token = <<>>]
  ELSE [s EXCEPT !.names = Append(@, s.token), !.token = <<>>]

-----------------------------------------------------------------------------
\* A token is complete: it is dropped, pops a name, or is pushed; a full
\* stack ends the pass.
TokenEnds(s) ==
  IF s.token \in {<<>>, Dot} THEN [s EXCEPT !.token = <<>>]
  ELSE IF s.token = DotDot
    THEN [s EXCEPT !.names = IF @ = <<>> THEN @ ELSE Front(@), !.token = <<>>]
  ELSE IF Len(s.names) >= MAX_TOKENS THEN [s EXCEPT !.full = TRUE]
  ELSE [s EXCEPT !.names = Append(@, s.token), !.token = <<>>]

\* One character; characters a token has no room for are skipped.
Character(s, c) ==
  IF s.full THEN s
  ELSE IF c = Slash THEN TokenEnds(s)
  ELSE [s EXCEPT !.token = IF Len(@) + 1 < IPO_FS_MAX_NAME THEN Append(@, c) ELSE @]

Tokens(path) ==
  LET s == FoldLeft(Character, [names |-> <<>>, token |-> <<>>, full |-> FALSE], path)
  IN  IF s.full THEN s.names ELSE TokenEnds(s).names

\* As many of the names as fit a buffer of out_size characters. (The code
\* leaves "" and not "/" if the first one does not fit; every caller's buffer
\* is larger than a name.)
Fitting(names, out_size) ==
  LET fits(k) == Len(Text(SubSeq(names, 1, k))) + 1 < out_size
      most == CHOOSE k \in 0 .. Len(names) :
                /\ k = 0 \/ \A j \in 1 .. k : fits(j)
                /\ k = Len(names) \/ ~fits(k + 1)
  IN  SubSeq(names, 1, most)

fs_canonicalize(path, out_size) == Fitting(Tokens(path), out_size)
=============================================================================
