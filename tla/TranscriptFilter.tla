-------------------------- MODULE TranscriptFilter --------------------------
(***************************************************************************)
(* transcript_filter.rs: which transcripts are not a user's input.  A text *)
(* is a sequence of tokens; Lower maps the ones that count as letters.     *)
(***************************************************************************)
EXTENDS Naturals, Templates

APOSTROPHE == "'"  \* four characters are taken for one

CONSTANT Lower  \* each letter or digit to its lower-case form

Letters == DOMAIN Lower

(* Lower case has a lower case of its own, which is the same.  (True of     *)
(* every character but the dotted capital I, whose lower case is two       *)
(* characters, of which the second separates.)                             *)
ASSUME LowerAssumption ==
    /\ \A c \in Letters : Lower[c] \in STRING
    /\ \A c \in Letters \ Placeholders :
           Lower[c] \in Letters \ Placeholders /\ Lower[Lower[c]] = Lower[c]
    /\ Placeholders \subseteq Letters
    /\ APOSTROPHE \notin Letters /\ SPACE \notin Letters

(* Fault: an apostrophe separates. *)
NoApostrophes == {}

Skipped == {APOSTROPHE}

(* A run of letters is kept, and what separates two of them is one space. *)
Kept(acc, c) ==
    [out |-> acc.out \o (IF acc.gap /\ acc.out # <<>> THEN <<SPACE>> ELSE <<>>)
                     \o <<Lower[c]>>,
     gap |-> FALSE]

(* An apostrophe does not separate; a placeholder is a word in braces.      *)
Taken(acc, c) ==
    CASE c \in Skipped -> acc
      [] c \in Placeholders -> [Kept([acc EXCEPT !.gap = TRUE], c) EXCEPT !.gap = TRUE]
      [] c \in Letters \ Placeholders -> Kept(acc, c)
      [] OTHER -> [acc EXCEPT !.gap = TRUE]

(* What has been taken after the first i tokens. *)
reading(text) ==
    LET read[i \in 0 .. Len(text)] ==
            IF i = 0 THEN [out |-> <<>>, gap |-> FALSE] ELSE Taken(read[i - 1], text[i])
    IN  read

normalize(text) == reading(text)[Len(text)].out

(* A pattern without a letter matches nothing. *)
Matches(pattern, transcript) ==
    LET needle == normalize(pattern)
    IN  needle # <<>> /\ Within(needle, normalize(transcript))

matching_pattern(patterns, transcript) ==
    /\ normalize(transcript) # <<>>
    /\ \E pattern \in patterns : Matches(pattern, transcript)
=============================================================================
