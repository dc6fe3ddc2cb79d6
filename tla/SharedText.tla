------------------------------ MODULE SharedText ------------------------------
(***************************************************************************)
(* A file that the user and agentalloy share: the user's lines, and a block *)
(* of ours between a BEGIN and an END line (install/subcommands/           *)
(* wire_harness.py, uninstall.py and uninstall_proxy.py).  The user may    *)
(* delete any line, a sentinel too, and may write anywhere.  A text is a   *)
(* sequence of what stands on the lines and of newlines: the code cuts at  *)
(* newlines and takes some away, so that two lines can become one.         *)
(***************************************************************************)
EXTENDS Integers, Sequences, FiniteSets

CONSTANT UserLine       \* what users write on a line

\* What wiring writes between the sentinels: the proxy's settings or the
\* template of the legacy mode.
Body == {"proxy", "legacy"}

Sentinel == {"BEGIN", "END"}

NL == "newline"

Piece == UserLine \cup Body \cup Sentinel \cup {NL}

Text == Seq(Piece)

ASSUME UserLineAssumption == UserLine \cap (Body \cup Sentinel \cup {NL}) = {}

At(text, piece) == {i \in DOMAIN text : text[i] = piece}

Has(text, piece) == At(text, piece) # {}

HasBoth(text) == Has(text, "BEGIN") /\ Has(text, "END")

First(text, piece) ==
    CHOOSE i \in At(text, piece) : \A j \in At(text, piece) : i <= j

Before(text, i) == SubSeq(text, 1, i - 1)

After(text, i) == SubSeq(text, i + 1, Len(text))

\* Is there nothing but newlines?  `not text.strip()'.
Empty(text) == \A i \in DOMAIN text : text[i] = NL

\* text.strip()
Trimmed(text) ==
    LET solid == {i \in DOMAIN text : text[i] # NL} IN
    IF Empty(text) THEN <<>>
    ELSE SubSeq(text, CHOOSE i \in solid : \A j \in solid : i <= j,
                      CHOOSE i \in solid : \A j \in solid : i >= j)

\* The pieces of text at the indices of the set, in order.
Selection(text, indices) ==
    [n \in 1..Cardinality(indices) |->
        text[CHOOSE i \in indices :
                Cardinality({j \in indices : j <= i}) = n]]

Block(body) == <<"BEGIN", NL, body, NL, "END">>

\* The position e, or that of the newline after it.
PastLine(text, e) == IF e < Len(text) /\ text[e + 1] = NL THEN e + 1 ELSE e

\* What ends the last line of a text and sets a block apart from it.
Padding(text, gap) ==
    IF text = <<>> THEN <<>>
    ELSE IF text[Len(text)] = NL THEN gap
    ELSE <<NL>> \o gap

\* Mutant: looks for the first sentinel only.
InjectedAtBegin(text, body, gap) ==
    IF Has(text, "BEGIN")
    THEN Before(text, First(text, "BEGIN")) \o Block(body) \o <<NL>>
    ELSE text \o Padding(text, gap) \o Block(body) \o <<NL>>

\* _inject_sentinel_block, where the gap is a blank line, and the same by hand
\* in _wire_proxy_aider and its like, where there is none.  Everything from the
\* first BEGIN to the first END is replaced, whatever their order.
Injected(text, body, gap) ==
    IF HasBoth(text)
    THEN Before(text, First(text, "BEGIN")) \o (Block(body) \o <<NL>>)
            \o After(text, PastLine(text, First(text, "END")))
    ELSE text \o (Padding(text, gap) \o (Block(body) \o <<NL>>))

\* Mutant: the check for more than one pair of sentinels dropped.
DuplicatesAllowed(text) == FALSE

\* The texts _inject_sentinel_block refuses.
Duplicates(text) ==
    \/ Cardinality(At(text, "BEGIN")) > 1
    \/ Cardinality(At(text, "END")) > 1

\* _extract_sentinel_content: what stands between the first sentinels, nothing
\* when END comes first.
Inner(text) ==
    Trimmed(SubSeq(text, First(text, "BEGIN") + 1, First(text, "END") - 1))

\* The first of up to two newlines before position b, or b.
BackFrom(text, b) ==
    IF b > 1 /\ text[b - 1] = NL
    THEN IF b > 2 /\ text[b - 2] = NL THEN b - 2 ELSE b - 1
    ELSE b

\* At most two newlines in a row.
Collapsed(text) ==
    Selection(text,
        {i \in DOMAIN text :
            ~(i > 2 /\ text[i] = NL /\ text[i - 1] = NL /\ text[i - 2] = NL)})

\* uninstall._remove_sentinel_block, for a text with both sentinels.  It takes
\* the newline after END and up to two before BEGIN, so that the lines around
\* the block run together unless there is a blank line after it, or two before.
Stripped(text) ==
    Collapsed(Before(text, BackFrom(text, First(text, "BEGIN")))
                \o After(text, PastLine(text, First(text, "END"))))

\* The number of the line that position i is on, a newline being on the line it
\* ends, and all the numbers.
LineOf(text, i) == Cardinality({n \in At(text, NL) : n < i}) + 1

LineNumbers(text) == 1..(Cardinality(At(text, NL)) + 1)

OnLine(text, l) == {text[i] : i \in {n \in DOMAIN text : LineOf(text, n) = l}} \ {NL}

\* The lines uninstall_proxy._remove_sentinel_block keeps of a text with a
\* BEGIN.  It skips from a BEGIN to the next END, or to the end of the file, and
\* a blank line after that END; and of blank lines it keeps two in a row.
KeptLines(text) ==
    LET lines == [l \in LineNumbers(text) |-> OnLine(text, l)]
        Opens(l) == "BEGIN" \in lines[l]
        Closes(l) == "END" \in lines[l] /\ ~Opens(l)
        Skips(l) == \E b \in 1..(l - 1) :
                        Opens(b) /\ \A c \in (b + 1)..(l - 1) : ~Closes(c)
        blank == {l \in LineNumbers(text) : lines[l] = {}}
        kept == {l \in LineNumbers(text) :
                    /\ ~Opens(l) /\ ~Skips(l)
                    /\ ~(l \in blank /\ l > 1 /\ Closes(l - 1) /\ Skips(l - 1))}
    IN {l \in kept :
            ~ /\ l \in blank
              /\ \E p, q \in kept :
                    p < q /\ q < l /\ kept \cap (p..l) \subseteq blank}

\* Those lines, with a newline between any two of them.
LineStripped(text) ==
    LET kept == KeptLines(text) IN
    IF ~Has(text, "BEGIN") THEN text
    ELSE Selection(text,
            {i \in DOMAIN text :
                IF text[i] = NL
                THEN LineOf(text, i) + 1 \in kept /\ \E l \in kept : l <= LineOf(text, i)
                ELSE LineOf(text, i) \in kept})

-----------------------------------------------------------------------------
(* What the properties are about *)

\* What is ours.
Ours(text) == {i \in DOMAIN text : text[i] \notin UserLine \cup {NL}}

\* Pairs of a BEGIN and the END that closes it.
Pairs(text) ==
    {pair \in At(text, "BEGIN") \X At(text, "END") :
        /\ pair[1] < pair[2]
        /\ \A i \in DOMAIN text :
            pair[1] < i /\ i < pair[2] => text[i] \notin Sentinel}

\* Where the user's own lines stand, outside such pairs.
Outside(text) ==
    {i \in DOMAIN text :
        /\ text[i] \in UserLine
        /\ ~ \E pair \in Pairs(text) : pair[1] < i /\ i < pair[2]}

\* Is everything from i to j on one line?
Unbroken(text, i, j) == \A n \in i..j : text[n] # NL

\* What stands at these indices of text is all in the other text, in the same
\* order, and what stood on different lines still does, unless a sentinel stood
\* between.
KeptIn(text, indices, other) ==
    \A i, j \in indices : i <= j =>
        \E k, m \in DOMAIN other :
            /\ k <= m /\ other[k] = text[i] /\ other[m] = text[j]
            /\ Unbroken(other, k, m) =>
                    \/ Unbroken(text, i, j)
                    \/ \E n \in i..j : text[n] \in Sentinel

\* The indices of the user's lines.
Users(text) == {i \in DOMAIN text : text[i] \in UserLine}
=============================================================================
