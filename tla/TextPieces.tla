----------------------------- MODULE TextPieces -----------------------------
(***************************************************************************)
(* What do_expand and ap_ssi_parse_string have in common: they cut a text   *)
(* into pieces, from left to right, and put what stands for each one behind *)
(* the other.                                                               *)
(*                                                                          *)
(* A value (of a variable, a group, a map) holds stand-ins: characters of   *)
(* no text, each of which stands for a text of its own.  So it shows which  *)
(* texts were read as they were met, and which were not.                    *)
(***************************************************************************)
EXTENDS Integers, SequencesExt

CONSTANT Filling   \* the texts, by what stands for them

ASSUME FillingAssumption ==
  \A c \in DOMAIN Filling : c \notin STRING /\ Filling[c] \in Seq(STRING)

Character == STRING \cup DOMAIN Filling

Filled(text) ==
  FlattenSeq([i \in DOMAIN text |->
    IF text[i] \in DOMAIN Filling THEN Filling[text[i]] ELSE <<text[i]>>])

\* The pieces of a text of n characters; at[i] is the one that begins there, and says
\* where the text goes on.
PiecesOf(n, at) ==
  LET from[i \in 1 .. n + 1] == IF i > n THEN <<>> ELSE <<at[i]>> \o from[at[i].next]
  IN from[1]
Joined(pieces) == FlattenSeq([i \in DOMAIN pieces |-> pieces[i].text])

\* A text in which a backslash protects each of these characters.
Quoted(t, chars) ==
  FlattenSeq([i \in DOMAIN t |-> IF t[i] \in chars THEN <<"\\", t[i]>> ELSE <<t[i]>>])
=============================================================================
